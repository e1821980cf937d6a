------------------------------- MODULE MCPush -------------------------------
(***************************************************************************)
(* Push with the history of the current cycle: how often each server was   *)
(* tried and which of them the cycle has settled with, that is, delivered  *)
(* to or been sent in circles by.  One server works at a time, the other   *)
(* is off or rejects its address; with both, the answer of an HTTP attempt *)
(* that nobody waits for gets into the MQTT phase (run push_default).      *)
(***************************************************************************)
EXTENDS Push

VARIABLES tried, settled

history == <<tried, settled>>

OneServer == ~(http = "on" /\ mqtt = "on")

HInit ==
  /\ Init
  /\ OneServer
  /\ tried = [http |-> 0, mqtt |-> 0]
  /\ settled = {}

HTick ==
  /\ pushTimerCb
  /\ tried' = [http |-> tried.http + (IF pushState = HTTP /\ http = "on" THEN 1 ELSE 0),
               mqtt |-> tried.mqtt + (IF pushState = MQTT /\ mqtt = "on" THEN 1 ELSE 0)]
  /\ UNCHANGED settled

HReply ==
  /\ httpPushCb
  /\ settled' = IF pushState' # pushState THEN settled \cup {"http"} ELSE settled
  /\ UNCHANGED tried

HPublished ==
  /\ mqttPublishCb
  /\ settled' = settled \cup {"mqtt"}
  /\ UNCHANGED tried

HWake ==
  /\ Wake
  /\ tried' = [http |-> 0, mqtt |-> 0]
  /\ settled' = {}

HOther ==
  /\ \/ pushTimeoutCb \/ MqttLost \/ mqttErrorCb \/ cgiUserConfig
     \/ cgiSensorConfig /\ mqtt' = mqtt /\ (http' = "on" <=> http = "on")
  /\ UNCHANGED history

HNext == HTick \/ HReply \/ HPublished \/ HWake \/ HOther

HSpec == HInit /\ [][HNext]_<<vars, history>>

HCycleSpec == HSpec /\ TimerFairness

\* A cycle asks each server at most PUSH_RETRIES_MAX times, however callbacks,
\* retries and redirects interleave.
AttemptsBounded == tried.http <= RetriesMax /\ tried.mqtt <= RetriesMax

\* A cycle comes to PUSH_FINISH only after it settled with every server that is
\* switched on, or had it fail until the retries ran out.
NoServerForgotten ==
  pushState = FINISH /\ timer =>
    /\ http = "on" => "http" \in settled \/ tried.http >= RetriesMax - 1
    /\ mqtt = "on" => "mqtt" \in settled \/ tried.mqtt >= RetriesMax

\* Every server gets its attempts, and none more than that, also when callbacks of
\* an earlier attempt come late (pushTimerCb's retries and PUSH_RETRIES_MAX).
ServersTried == AttemptsBounded /\ NoServerForgotten
=============================================================================
