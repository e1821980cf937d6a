------------------------------- MODULE MsgFifo -------------------------------
(***************************************************************************)
(* What the message queue of the MQTT client promises its users: whole     *)
(* messages, oldest first, unchanged; adding one either appends it or      *)
(* leaves the queue alone; and a publish that finds no room may push out   *)
(* the oldest messages, one after the other.                               *)
(***************************************************************************)
EXTENDS Sequences

CONSTANTS Messages

VARIABLES
  queue,    \* the messages waiting, oldest first
  taken,    \* the message taken out last
  message,  \* the message offered last
  adding    \* it is being added

fifo == <<queue, taken, message, adding>>

Init ==
  /\ queue = <<>>
  /\ taken = <<>>
  /\ message = <<>>
  /\ adding = FALSE

Offer ==
  /\ ~adding
  /\ adding' = TRUE
  /\ message' \in Messages
  /\ UNCHANGED <<queue, taken>>

Add ==
  /\ adding
  /\ adding' = FALSE
  /\ queue' = Append(queue, message)
  /\ UNCHANGED <<taken, message>>

GiveUp ==
  /\ adding
  /\ adding' = FALSE
  /\ UNCHANGED <<queue, taken, message>>

Take ==
  /\ queue # <<>>
  /\ taken' = Head(queue)
  /\ queue' = Tail(queue)
  /\ UNCHANGED <<message, adding>>

Next == Offer \/ Add \/ GiveUp \/ Take

Spec == Init /\ [][Next]_fifo
=============================================================================
