------------------------------ MODULE PushCycle ------------------------------
(***************************************************************************)
(* What a measure-and-send cycle promises whoever relies on it: it goes    *)
(* through its phases in one direction (sensors before network, network    *)
(* before the HTTP server, that before the MQTT broker), it starts talking *)
(* to a server only in that server's phase, it may be cut short by sleep   *)
(* at any moment, and only waking up starts a new one.                     *)
(***************************************************************************)

VARIABLES
  phase,    \* where the cycle is
  request,  \* an HTTP request is outstanding
  session   \* an MQTT client is alive

cycle == <<phase, request, session>>

Following == [start |-> "read", read |-> "net", net |-> "http",
              http |-> "mqtt", mqtt |-> "done", done |-> "done"]

Phases == {"start", "read", "net", "http", "mqtt", "done"}

Init ==
  /\ phase = "start"
  /\ request = FALSE
  /\ session = FALSE

Work ==
  /\ phase \in Phases
  /\ \/ phase' = phase
     \/ phase' = Following[phase]
     \/ phase = "start" /\ phase' = "done"   \* no server is configured
  /\ request' \in BOOLEAN
  /\ session' \in BOOLEAN
  /\ request' /\ ~request => phase = "http"
  /\ session' /\ ~session => phase = "mqtt"

Sleep ==
  /\ phase \in Phases
  /\ phase' = "asleep"
  /\ UNCHANGED <<request, session>>

Wake ==
  /\ phase = "asleep"
  /\ phase' = "start"
  /\ request' = FALSE
  /\ session' = FALSE

Next == Work \/ Sleep \/ Wake

Spec == Init /\ [][Next]_cycle
=============================================================================
