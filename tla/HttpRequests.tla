---------------------------- MODULE HttpRequests ----------------------------
(***************************************************************************)
(* What the HTTP client promises its callers: a request that was accepted  *)
(* is answered at most once and never after its answer heard of again; an  *)
(* answer with a status is the server's, told by the beginning of what it  *)
(* sent.  Requests do not disturb each other.                              *)
(***************************************************************************)
EXTENDS Integers

CONSTANTS Requests, Statuses

VARIABLES
  open,     \* requests without an answer
  heard,    \* pieces of the response that arrived, per request
  answer    \* 0 (none yet), -1 (failed) or the status, per request

Init ==
  /\ open = {}
  /\ heard = [r \in Requests |-> 0]
  /\ answer = [r \in Requests |-> 0]

Start(r) ==
  /\ r \notin open
  /\ answer[r] = 0
  /\ open' = open \cup {r}
  /\ UNCHANGED <<heard, answer>>

StartFails(r) ==
  /\ r \notin open
  /\ answer[r] = 0
  /\ answer' = [answer EXCEPT ![r] = -1]
  /\ UNCHANGED <<open, heard>>

Hear(r) ==
  /\ r \in open
  /\ heard' = [heard EXCEPT ![r] = @ + 1]
  /\ UNCHANGED <<open, answer>>

Answer(r) ==
  /\ r \in open
  /\ open' = open \ {r}
  /\ \/ answer' = [answer EXCEPT ![r] = -1]
     \/ heard[r] > 0 /\ \E s \in Statuses : answer' = [answer EXCEPT ![r] = s]
  /\ UNCHANGED heard

Next == \E r \in Requests : Start(r) \/ StartFails(r) \/ Hear(r) \/ Answer(r)

Spec == Init /\ [][Next]_<<open, heard, answer>>
=============================================================================
