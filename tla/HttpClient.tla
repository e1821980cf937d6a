----------------------------- MODULE HttpClient -----------------------------
(***************************************************************************)
(* The HTTP client of lib/httpclient/httpclient.c: a request is a block of *)
(* memory handed from callback to callback (name lookup, connection, sent, *)
(* received, disconnected or error) until its user callback was called.    *)
(* Requests may run in parallel.                                           *)
(*                                                                         *)
(* A response is a number of segments that arrive in order; the first      *)
(* holds the status line.  A server may close or break the connection      *)
(* after any of them, or stay silent: there is no timeout.  Pieces of      *)
(* memory are named after what they hold.                                  *)
(***************************************************************************)
EXTENDS Integers, Sequences

CONSTANTS
  Requests,     \* the calls of http_get and http_post
  Posts,        \* those that send a body
  Statuses,     \* status codes servers answer with
  Segments,     \* segments of a whole response
  MaxSegments   \* how many of them BUFFER_SIZE_MAX allows

ASSUME RequestsAssumption == Posts \subseteq Requests
ASSUME StatusesAssumption == Statuses \subseteq Nat \ {0}
ASSUME SegmentsAssumption == Segments \in Nat /\ MaxSegments \in Nat

VARIABLES
  phase,    \* "free", "rejected", "lookup", "connecting", "up", "closing", "done"
  owned,    \* memory the request holds
  buffer,   \* numbers of the segments in req->buffer
  cut,      \* req->buffer[0] was overwritten: the response is discarded
  heard,    \* segments that arrived
  answer    \* 0, or the status user_callback was called with

vars == <<phase, owned, buffer, cut, heard, answer>>

Blocks == {"req", "hostname", "path", "headers", "post", "buffer", "conn", "tcp"}

Init ==
  /\ phase = [r \in Requests |-> "free"]
  /\ owned = [r \in Requests |-> {}]
  /\ buffer = [r \in Requests |-> <<>>]
  /\ cut = [r \in Requests |-> FALSE]
  /\ heard = [r \in Requests |-> 0]
  /\ answer = [r \in Requests |-> 0]

Goes(r, p)    == phase' = [phase EXCEPT ![r] = p]
Answers(r, s) == answer' = [answer EXCEPT ![r] = s]

-----------------------------------------------------------------------------
(* dns_callback *)

Connect(r, blocks) ==
  /\ Goes(r, "connecting")
  /\ owned' = [owned EXCEPT ![r] = blocks \cup {"conn", "tcp"}]
  /\ UNCHANGED answer

\* Only the request itself is freed.
LookupFails(r, blocks) ==
  /\ Goes(r, "done")
  /\ owned' = [owned EXCEPT ![r] = blocks \ {"req"}]
  /\ Answers(r, -1)

DnsCallback(r) ==
  /\ phase[r] = "lookup"
  /\ Connect(r, owned[r]) \/ LookupFails(r, owned[r])
  /\ UNCHANGED <<buffer, cut, heard>>

\* http_post and http_get: the URL may be rejected; the name may be known, be
\* looked up, or be refused at once.
http_post(r) ==
  LET blocks == {"req", "hostname", "path", "headers", "buffer"}
                  \cup (IF r \in Posts THEN {"post"} ELSE {})
  IN  /\ phase[r] = "free"
      /\ \/ Goes(r, "rejected") /\ UNCHANGED <<owned, answer>>
         \/ Connect(r, blocks)
         \/ LookupFails(r, blocks)
         \/ /\ Goes(r, "lookup")
            /\ owned' = [owned EXCEPT ![r] = blocks]
            /\ UNCHANGED answer
      /\ UNCHANGED <<buffer, cut, heard>>

-----------------------------------------------------------------------------
(* Callbacks of the connection *)

connect_callback(r) ==
  /\ phase[r] = "connecting"
  /\ Goes(r, "up")
  /\ owned' = [owned EXCEPT ![r] = @ \ {"headers"}]
  /\ UNCHANGED <<buffer, cut, heard, answer>>

\* The headers are out: the body follows and is freed.
sent_callback(r) ==
  /\ phase[r] \in {"up", "closing"}
  /\ "post" \in owned[r]
  /\ owned' = [owned EXCEPT ![r] = @ \ {"post"}]
  /\ UNCHANGED <<phase, buffer, cut, heard, answer>>

receive_callback_KeepsStart(r) ==
  /\ phase[r] \in {"up", "closing"}
  /\ heard[r] < Segments
  /\ heard' = [heard EXCEPT ![r] = @ + 1]
  /\ \/ /\ Len(buffer[r]) < MaxSegments
        /\ buffer' = [buffer EXCEPT ![r] = Append(@, heard'[r])]
        /\ UNCHANGED <<phase, cut>>
     \/ /\ Goes(r, "closing")
        /\ UNCHANGED <<buffer, cut>>
  /\ UNCHANGED <<owned, answer>>

\* A segment that does not fit, or for which there is no memory, discards the
\* response and closes.  An empty buffer has no first byte to overwrite, and
\* segments may still arrive before the connection is closed.
receive_callback(r) ==
  /\ phase[r] \in {"up", "closing"}
  /\ heard[r] < Segments
  /\ heard' = [heard EXCEPT ![r] = @ + 1]
  /\ \/ /\ Len(buffer[r]) < MaxSegments
        /\ buffer' = [buffer EXCEPT ![r] = Append(@, heard'[r])]
        /\ UNCHANGED <<phase, cut>>
     \/ /\ cut' = [cut EXCEPT ![r] = buffer[r] # <<>>]
        /\ Goes(r, "closing")
        /\ UNCHANGED buffer
  /\ UNCHANGED <<owned, answer>>

disconnect_callback_Unchecked(r) ==
  /\ phase[r] \in {"connecting", "up", "closing"}
  /\ Goes(r, "done")
  /\ \E s \in Statuses : Answers(r, s)
  /\ owned' = [owned EXCEPT ![r] = @ \ {"buffer", "hostname", "path", "req", "conn", "tcp"}]
  /\ UNCHANGED <<buffer, cut, heard>>

disconnect_callback_KeepsPath(r) ==
  /\ phase[r] \in {"connecting", "up", "closing"}
  /\ Goes(r, "done")
  /\ Answers(r, -1)
  /\ owned' = [owned EXCEPT ![r] = @ \ {"buffer", "hostname", "req", "conn", "tcp"}]
  /\ UNCHANGED <<buffer, cut, heard>>

\* disconnect_callback and error_callback: whatever has arrived is the
\* response, if it begins like one.
disconnect_callback(r) ==
  /\ phase[r] \in {"connecting", "up", "closing"}
  /\ Goes(r, "done")
  /\ IF buffer[r] # <<>> /\ ~cut[r] /\ Head(buffer[r]) = 1
       THEN \E s \in Statuses : Answers(r, s)
       ELSE Answers(r, -1)
  /\ owned' = [owned EXCEPT ![r] = @ \ {"buffer", "hostname", "path", "req", "conn", "tcp"}]
  /\ UNCHANGED <<buffer, cut, heard>>

-----------------------------------------------------------------------------
Next ==
  \E r \in Requests :
    \/ http_post(r) \/ DnsCallback(r)
    \/ connect_callback(r) \/ sent_callback(r) \/ receive_callback(r) \/ disconnect_callback(r)

Spec == Init /\ [][Next]_vars

-----------------------------------------------------------------------------
(* Properties *)

TypeOK ==
  /\ phase \in [Requests -> {"free", "rejected", "lookup", "connecting", "up", "closing", "done"}]
  /\ owned \in [Requests -> SUBSET Blocks]
  /\ buffer \in [Requests -> Seq(1 .. Segments)]
  /\ \A r \in Requests : Len(buffer[r]) <= MaxSegments
  /\ cut \in [Requests -> BOOLEAN]
  /\ heard \in [Requests -> 0 .. Segments]
  /\ answer \in [Requests -> Statuses \cup {0, -1}]

\* One answer per request, and the server's status only if it began to answer.
Abstract == INSTANCE HttpRequests WITH
  open <- {r \in Requests : phase[r] \in {"lookup", "connecting", "up", "closing"}}

RefinesRequests == Abstract!Spec

\* A response that counts has no hole: a segment that was dropped for want of
\* memory or space is never followed by another in what the caller gets.
AnswerHasNoHole ==
  \A r \in Requests :
    answer[r] > 0 => \A i \in 1 .. Len(buffer[r]) : buffer[r][i] = i

\* A request that got out in full leaves no memory allocated.
NothingLeft ==
  \A r \in Requests :
    phase[r] = "done" /\ owned[r] \cap {"headers", "post"} = {} => owned[r] = {}
=============================================================================
