----------------------------- MODULE TimedPush ------------------------------
(***************************************************************************)
(* Push in time, without the web interface: how much of a cycle fits into  *)
(* the 45 s before pushTimeoutCb.  Time counts in periods of pushTimer,    *)
(* which pushTimerCb arms anew at its end; callbacks take no time.         *)
(*                                                                         *)
(* How fast the world is: constants of the environment.  sensorsRead       *)
(* leaves READ within ReadTicks (Sensors!ReadIsShort), WiFi is there       *)
(* within IpTicks, a server answers within HttpTicks, a broker takes the   *)
(* values or is lost within MqttTicks, and mqtt_timer reports a loss       *)
(* within ReconnectTicks.                                                  *)
(***************************************************************************)
EXTENDS Push

CONSTANTS TimeoutTicks, ReadTicks, IpTicks, HttpTicks, MqttTicks, ReconnectTicks

ASSUME SpeedAssumption ==
  {TimeoutTicks, ReadTicks, IpTicks, HttpTicks, MqttTicks, ReconnectTicks} \subseteq Nat \ {0}

VARIABLES
  clock,    \* periods since pushSensorData
  waited,   \* for how many of them the sensors or WiFi, the server, the broker
            \* have been waited for
  attempts  \* history: how often this cycle tried the broker

tvars == <<vars, clock, waited, attempts>>

NotWaited == [here |-> 0, http |-> 0, mqtt |-> 0]

TInit ==
  /\ Init
  /\ clock = 0 /\ waited = NotWaited /\ attempts = 0

\* Nobody is waited for longer than the environment allows.
InTime ==
  /\ pushState = READ /\ pushState' = READ => waited.here < ReadTicks - 1
  /\ pushState = IPWAIT /\ pushState' = IPWAIT => waited.here < IpTicks - 1
  /\ inflight > 0 => waited.http < HttpTicks
  /\ client = "open" => waited.mqtt < MqttTicks
  /\ client = "down" => waited.mqtt < ReconnectTicks

TTick ==
  /\ clock < TimeoutTicks /\ clock' = clock + 1
  /\ ~asleep
  /\ IF timer THEN pushTimerCb ELSE UNCHANGED vars
  /\ InTime
  /\ waited' = [here |-> IF pushState' = pushState /\ pushState \in {READ, IPWAIT}
                          THEN waited.here + 1 ELSE 0,
                http |-> IF inflight > 0 THEN waited.http + 1 ELSE 0,
                mqtt |-> IF client # "none" THEN waited.mqtt + 1 ELSE 0]
  /\ attempts' = IF pushState = MQTT /\ timer /\ mqtt = "on" THEN attempts + 1 ELSE attempts

TReply ==
  /\ httpPushCb
  /\ waited' = [waited EXCEPT !.http = 0]
  /\ UNCHANGED <<clock, attempts>>

TBroker ==
  /\ \/ mqttPublishCb
     \/ MqttLost
     \/ mqttErrorCb /\ waited.mqtt >= ReconnectTicks - 2   \* the timer's phase is not known
  /\ waited' = [waited EXCEPT !.mqtt = 0]
  /\ UNCHANGED <<clock, attempts>>

TTimeout ==
  /\ clock = TimeoutTicks
  /\ pushTimeoutCb
  /\ UNCHANGED <<clock, waited, attempts>>

TWake ==
  /\ Wake
  /\ clock' = 0 /\ waited' = NotWaited /\ attempts' = 0

TNext == TTick \/ TReply \/ TBroker \/ TTimeout \/ TWake

TSpec == TInit /\ [][TNext]_tvars

-----------------------------------------------------------------------------
(* Properties *)

\* Whatever the HTTP server answers, errors, redirects and their retries
\* included, the timeout does not put the device to sleep before it is the
\* broker's turn (PUSH_TIMEOUT_SEC against PUSH_RETRIES_MAX, PUSH_REDIRECT_MAX and
\* PUSH_ERROR_DELAY).
HttpLeavesTime == [][TTimeout /\ timer => pushState >= MQTT]_tvars

\* Without an HTTP server in use, the timeout leaves a broker that is lost every
\* time all its attempts but one (mqtt_timer takes longer to report a loss than
\* the cycle waits after it).
BrokerTriedAgain ==
  [][TTimeout /\ timer /\ mqtt = "on" /\ http # "on" => attempts >= RetriesMax - 1]_tvars

\* PUSH_TIMEOUT_SEC is long enough for what the retries promise.
TimeoutLeavesTime == HttpLeavesTime /\ BrokerTriedAgain
=============================================================================
