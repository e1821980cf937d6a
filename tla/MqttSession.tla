----------------------------- MODULE MqttSession -----------------------------
(***************************************************************************)
(* What push.c relies on when it hands its values to the MQTT client: an   *)
(* attempt ends at most once, by success only if the broker has got every  *)
(* value, by failure only after the connection was lost.                   *)
(***************************************************************************)
EXTENDS Naturals, Sequences

CONSTANT Values   \* how many values there are to publish

VARIABLES
  session,   \* "none", "open", "down" (lost, the failure not yet reported)
  arrived    \* the values of this attempt the broker has got

Init ==
  /\ session = "none"
  /\ arrived = <<>>

Start ==
  /\ session = "none"
  /\ session' = "open"
  /\ arrived' = <<>>

\* The last value to arrive is what reports success.
Deliver ==
  /\ session = "open"
  /\ Len(arrived) < Values
  /\ arrived' = Append(arrived, Len(arrived) + 1)
  /\ session' = IF Len(arrived') = Values THEN "none" ELSE "open"

Lose ==
  /\ session = "open"
  /\ session' = "down"
  /\ UNCHANGED arrived

Fail ==
  /\ session = "down"
  /\ session' = "none"
  /\ UNCHANGED arrived

Next == Start \/ Deliver \/ Lose \/ Fail

Spec == Init /\ [][Next]_<<session, arrived>>
=============================================================================
