----------------------------- MODULE PushProofs -----------------------------
(***************************************************************************)
(* Proofs about Push for every configuration, every set of intervals and   *)
(* every value of the limits of push.h: the cycle by itself, with the      *)
(* history of MCPush, and in the time of TimedPush.                        *)
(***************************************************************************)
EXTENDS MCPush, TimedPush, TLAPS

\* Callbacks that may still advance pushState.
Strays == inflight + (IF client = "none" THEN 0 ELSE 1)

\* TypeOK in two parts: what the state machine counts, and the rest.
CountersOK ==
  /\ pushState \in 0 .. FINISH + 2
  /\ pushErrorDelay \in 0 .. ErrorDelay + 1
  /\ pushRetries \in Nat
  /\ pushRedirect \in 0 .. RedirectMax
  /\ inflight \in 0 .. 1
  /\ timer \in BOOLEAN
  /\ client \in {"none", "open", "down"}

Kept == UserIntervals \cup (Overrides \cap OverrideRange)

RestOK ==
  /\ http \in HttpModes /\ mqtt \in MqttModes
  /\ interval \in Kept /\ stored \in Kept
  /\ firstStart \in BOOLEAN
  /\ pushSensorState \in SensorResults
  /\ led \in 0 .. 4
  /\ timeout \in BOOLEAN /\ asleep \in BOOLEAN
  /\ sleepTime \in Nat

\* No client is at work before its phase, and past PUSH_FINISH or with the
\* timer stopped only the strays that remain can move pushState.
ControlOK ==
  /\ inflight = 1 => pushRedirect >= 1
  /\ timer => pushState >= INIT
  /\ timer /\ pushState <= HTTP => inflight = 0 /\ pushErrorDelay = 0
  /\ timer /\ pushState <= MQTTSTART => client = "none"
  /\ HttpWaitCovered
  /\ timer /\ pushState >= FINISH => pushState + Strays <= FINISH + 2
  /\ ~timer => pushState + Strays <= 2

IInv == CountersOK /\ RestOK /\ ControlOK

LEMMA TypeParts == TypeOK <=> CountersOK /\ RestOK
  BY DEF TypeOK, CountersOK, RestOK, Kept

LEMMA KeptFacts ==
  /\ Kept \subseteq Nat
  /\ UserIntervals \subseteq Kept
  /\ \A value \in Overrides : value \in OverrideRange => value \in Kept
<1>1. ASSUME NEW i \in Kept PROVE i \in Nat
  BY <1>1, IntervalsAssumption, Zenon DEF Kept
<1> QED
  BY <1>1, Zenon DEF Kept

LEMMA InitIInv == Init => IInv
<1> SUFFICES ASSUME Init PROVE IInv
  OBVIOUS
<1>1. CountersOK
  BY LimitsAssumption DEF Init, CountersOK, INIT, FINISH
<1>2. /\ http \in HttpModes /\ mqtt \in MqttModes
      /\ interval \in Kept /\ stored \in Kept
  BY KeptFacts DEF Init
<1>3. firstStart \in BOOLEAN /\ timeout \in BOOLEAN /\ asleep \in BOOLEAN
  BY DEF Init
<1>4. pushSensorState \in SensorResults /\ led \in 0 .. 4 /\ sleepTime \in Nat
  BY DEF Init, SensorResults
<1>5. RestOK
  BY <1>2, <1>3, <1>4 DEF RestOK
<1>6. ControlOK
  BY LimitsAssumption DEF Init, ControlOK, HttpWaitCovered, Strays,
     INIT, HTTP, HTTPWAIT, MQTTSTART, FINISH
<1> QED
  BY <1>1, <1>5, <1>6 DEF IInv

LEMMA RestStep == RestOK /\ CountersOK /\ [Next]_vars => RestOK'
<1> SUFFICES ASSUME RestOK, CountersOK, [Next]_vars PROVE RestOK'
  OBVIOUS
<1>1. /\ http' \in HttpModes /\ mqtt' \in MqttModes
      /\ interval' \in Kept /\ stored' \in Kept
  BY KeptFacts DEF RestOK, Next, Wake, pushTimerCb, pushTimeoutCb, httpPushCb, HttpOk, HttpRedirect,
     HttpError, mqttPublishCb, MqttLost, mqttErrorCb, cgiSensorConfig, cgiUserConfig, config, vars
<1>2. firstStart' \in BOOLEAN
  BY DEF RestOK, Next, Wake, pushTimerCb, pushTimeoutCb, httpPushCb,
     mqttPublishCb, MqttLost, mqttErrorCb, cgiSensorConfig, cgiUserConfig, vars
<1>3. timeout' \in BOOLEAN
  BY DEF RestOK, Next, Wake, pushSensorData, pushTimerCb, pushTimeoutCb, httpPushCb,
     mqttPublishCb, MqttLost, mqttErrorCb, cgiSensorConfig, cgiUserConfig, vars
<1>4. asleep' \in BOOLEAN
  BY DEF RestOK, Next, Wake, pushTimerCb, pushTimeoutCb, httpPushCb, power, sleepmode,
     TickInit, TickRead, TickIpWait, TickStart, TickHttp, TickWait, TickMqtt, TickFinish,
     TickDefault, mqttPublishCb, MqttLost, mqttErrorCb, cgiSensorConfig, cgiUserConfig, vars
<1>5. pushSensorState' \in SensorResults
  BY DEF RestOK, SensorResults, Next, Wake, pushSensorData, pushTimerCb, pushTimeoutCb, httpPushCb,
     TickInit, TickRead, TickIpWait, TickStart, TickHttp, TickWait, TickMqtt, TickFinish,
     TickDefault, mqttPublishCb, MqttLost, mqttErrorCb, cgiSensorConfig, cgiUserConfig, vars, machine
<1>6. led' \in 0 .. 4
  BY DEF RestOK, Next, Wake, pushSensorData, pushTimerCb, pushTimeoutCb, httpPushCb,
     TickInit, TickRead, TickIpWait, TickStart, TickHttp, TickWait, TickMqtt, TickFinish,
     TickDefault, mqttPublishCb, MqttLost, mqttErrorCb, cgiSensorConfig, cgiUserConfig, vars
<1>7. sleepTime' \in Nat
  <2>1. SleepTimes(interval) \subseteq Nat
    BY KeptFacts DEF RestOK, SleepTimes, IntLimit, Widened
  <2> QED
    BY <2>1 DEF RestOK, Next, Wake, pushTimerCb, pushTimeoutCb, httpPushCb, power, sleepmode,
     TickInit, TickRead, TickIpWait, TickStart, TickHttp, TickWait, TickMqtt, TickFinish,
     TickDefault, mqttPublishCb, MqttLost, mqttErrorCb, cgiSensorConfig, cgiUserConfig, vars
<1> QED
  BY <1>1, <1>2, <1>3, <1>4, <1>5, <1>6, <1>7 DEF RestOK

LEMMA ThenStateFacts ==
  ASSUME NEW s \in Nat, ThenState(s)
  PROVE  pushState' = s /\ (timer' <=> s > 0) /\ timer' \in BOOLEAN
<1>1. timer' = (s > 0)
  BY DEF ThenState, IDLE
<1>2. (s > 0) \in BOOLEAN
  OBVIOUS
<1> QED
  BY <1>1, <1>2, Zenon DEF ThenState

LEMMA ControlStep == IInv /\ [Next]_vars => CountersOK' /\ ControlOK'
<1> SUFFICES ASSUME IInv, [Next]_vars PROVE CountersOK' /\ ControlOK'
  OBVIOUS
<1> USE LimitsAssumption
    DEF IInv, CountersOK, ControlOK, HttpWaitCovered, Strays, AttemptFailed,
        AfterAttempt, IDLE, INIT, READ, IPWAIT, HTTPSTART, HTTP, HTTPWAIT, MQTTSTART, MQTT,
        MQTTWAIT, FINISH
<1>1. CASE Wake
  BY <1>1 DEF Wake, pushSensorData
<1>2. CASE pushTimerCb
  <2>1. timer
    BY <1>2 DEF pushTimerCb
  <2>2. CASE TickInit
    BY ThenStateFacts, <2>1, <2>2 DEF TickInit
  <2>3. CASE TickRead
    BY ThenStateFacts, <2>1, <2>3 DEF TickRead
  <2>4. CASE TickIpWait
    BY ThenStateFacts, <2>1, <2>4 DEF TickIpWait
  <2>5. CASE TickStart
    BY ThenStateFacts, <2>1, <2>5 DEF TickStart
  <2>6. CASE TickHttp
    BY ThenStateFacts, <2>1, <2>6 DEF TickHttp
  <2>7. CASE TickWait
    BY ThenStateFacts, <2>1, <2>7 DEF TickWait
  <2>8. CASE TickMqtt
    BY ThenStateFacts, <2>1, <2>8 DEF TickMqtt
  <2>9. CASE TickFinish
    BY ThenStateFacts, <2>1, <2>9 DEF TickFinish
  <2>10. CASE TickDefault
    BY ThenStateFacts, <2>1, <2>10 DEF TickDefault
  <2> QED
    BY <1>2, <2>2, <2>3, <2>4, <2>5, <2>6, <2>7, <2>8, <2>9, <2>10 DEF pushTimerCb
<1>3. CASE httpPushCb
  <2>1. CASE HttpOk
    BY <1>3, <2>1 DEF httpPushCb, HttpOk
  <2>2. CASE HttpRedirect
    BY <1>3, <2>2 DEF httpPushCb, HttpRedirect
  <2>3. CASE HttpError
    BY <1>3, <2>3 DEF httpPushCb, HttpError
  <2> QED
    BY <1>3, <2>1, <2>2, <2>3 DEF httpPushCb
<1>4. CASE mqttPublishCb
  BY <1>4 DEF mqttPublishCb
<1>5. CASE MqttLost
  BY <1>5 DEF MqttLost, machine
<1>6. CASE mqttErrorCb
  BY <1>6 DEF mqttErrorCb
<1>7. CASE pushTimeoutCb \/ cgiSensorConfig \/ cgiUserConfig \/ UNCHANGED vars
  BY <1>7 DEF pushTimeoutCb, cgiSensorConfig, cgiUserConfig, machine, vars
<1> QED
  BY <1>1, <1>2, <1>3, <1>4, <1>5, <1>6, <1>7 DEF Next

LEMMA Inductive == Spec => []IInv
<1>1. IInv /\ [Next]_vars => IInv'
  BY RestStep, ControlStep DEF IInv
<1> QED
  BY InitIInv, <1>1, PTL DEF Spec

\* pushState, the counters and the saved intervals keep their types in every
\* configuration: whatever callbacks do, pushState stays within two of PUSH_FINISH.
THEOREM TypeCorrect == Spec => []TypeOK
<1>1. IInv => TypeOK
  BY TypeParts DEF IInv
<1> QED
  BY Inductive, <1>1, PTL

\* PUSH_HTTPWAIT always waits for exactly one request or one countdown.
THEOREM HttpNeverHangs == Spec => []HttpWaitCovered
<1>1. IInv => HttpWaitCovered
  BY DEF IInv, ControlOK
<1> QED
  BY Inductive, <1>1, PTL

\* As long as every interval that can be in use is at most 2147 s, deep sleep
\* lasts exactly that long: the signed product overflows only above.
THEOREM SleepIsExact ==
  ASSUME \A i \in UserIntervals \cup Overrides : i <= 2147
  PROVE  Spec => SleepsForInterval
<1>1. ASSUME IInv PROVE SleepTimes(interval) = {interval * 15625}
  <2>1. interval \in UserIntervals \cup Overrides
    BY <1>1, Zenon DEF IInv, RestOK, Kept
  <2>2. interval \in Nat /\ interval <= 2147
    BY <2>1, IntervalsAssumption
  <2> QED
    BY <2>2 DEF SleepTimes, IntLimit
<1>2. IInv /\ [Next]_vars => [asleep' /\ ~asleep => sleepTime' = interval * 15625]_vars
  <2> SUFFICES ASSUME IInv, Next, asleep', ~asleep PROVE sleepTime' = interval * 15625
    BY DEF vars
  <2>1. sleepTime' \in SleepTimes(interval)
    <3>1. CASE pushTimerCb
      <4>1. CASE TickFinish
        <5>1. power' = power \/ sleepmode
          BY <4>1 DEF TickFinish
        <5> QED
          BY <5>1, Zenon DEF power, sleepmode
      <4>2. CASE TickInit \/ TickRead \/ TickIpWait \/ TickStart \/ TickHttp \/ TickWait
                 \/ TickMqtt \/ TickDefault
        <5>1. UNCHANGED power
          BY <4>2, Zenon DEF TickInit, TickRead, TickIpWait, TickStart, TickHttp, TickWait,
             TickMqtt, TickDefault
        <5> QED
          BY <5>1, Zenon DEF power
      <4> QED
        BY <3>1, <4>1, <4>2, Zenon DEF pushTimerCb
    <3>2. CASE pushTimeoutCb
      BY <3>2, Zenon DEF pushTimeoutCb, sleepmode
    <3>3. CASE Wake \/ httpPushCb \/ mqttPublishCb \/ MqttLost \/ mqttErrorCb
               \/ cgiSensorConfig \/ cgiUserConfig
      BY <3>3, Zenon DEF Wake, httpPushCb, mqttPublishCb, MqttLost, mqttErrorCb, cgiSensorConfig,
         cgiUserConfig, power
    <3> QED
      BY <3>1, <3>2, <3>3 DEF Next
  <2> QED
    BY <1>1, <2>1
<1> QED
  BY Inductive, <1>2, PTL DEF Spec, SleepsForInterval

-----------------------------------------------------------------------------
(* PUSH_MQTTWAIT, when the HTTP machinery cannot leave anything behind *)

MInv ==
  /\ IInv
  /\ inflight = 0
  /\ timer /\ pushState <= MQTT => client = "none" /\ pushErrorDelay = 0
  /\ pushState = MQTTWAIT => (client = "none" <=> pushErrorDelay > 0)

LEMMA MqttInductive ==
  ASSUME "on" \notin HttpModes
  PROVE  Spec => []MInv
<1>1. Init => MInv
  BY InitIInv DEF Init, MInv, INIT, MQTT, MQTTWAIT
<1>2. MInv /\ [Next]_vars => MInv'
  <2> SUFFICES ASSUME MInv, [Next]_vars PROVE MInv'
    OBVIOUS
  <2> USE DEF IDLE, INIT, READ, IPWAIT, HTTPSTART, HTTP, HTTPWAIT, MQTTSTART, MQTT,
        MQTTWAIT, FINISH
  <2>1. IInv'
    BY RestStep, ControlStep DEF MInv, IInv
  <2>2. http # "on"
    BY DEF MInv, IInv, RestOK
  <2>3. CountersOK /\ CountersOK' /\ ControlOK /\ inflight = 0
    BY <2>1 DEF MInv, IInv
  <2> DEFINE Mqtt == /\ timer /\ pushState <= MQTT => client = "none" /\ pushErrorDelay = 0
                     /\ pushState = MQTTWAIT => (client = "none" <=> pushErrorDelay > 0)
  <2>4. Mqtt
    BY DEF MInv
  <2>5. inflight' = 0 /\ Mqtt'
    <3> USE <2>2, <2>3, <2>4, LimitsAssumption
        DEF CountersOK, ControlOK, HttpWaitCovered, Strays, AttemptFailed, AfterAttempt
    <3>1. CASE Wake
      BY <3>1 DEF Wake, pushSensorData
    <3>2. CASE pushTimerCb
      <4>1. timer
        BY <3>2 DEF pushTimerCb
      <4>2. CASE TickInit \/ TickRead \/ TickIpWait \/ TickStart \/ TickFinish \/ TickDefault
        BY <4>1, <4>2, ThenStateFacts DEF TickInit, TickRead, TickIpWait, TickStart, TickFinish,
           TickDefault
      <4>3. CASE TickHttp
        BY <4>1, <4>3, ThenStateFacts DEF TickHttp
      <4>4. CASE TickWait
        BY <4>1, <4>4, ThenStateFacts DEF TickWait
      <4>5. CASE TickMqtt
        <5>1. inflight' = 0 /\ pushState' > MQTT
          BY <4>1, <4>5, ThenStateFacts DEF TickMqtt
        <5>2. pushState' = MQTTWAIT => client' # "none" /\ pushErrorDelay' = 0
          BY <4>1, <4>5, ThenStateFacts DEF TickMqtt
        <5> QED
          BY <5>1, <5>2
      <4> QED
        BY <3>2, <4>2, <4>3, <4>4, <4>5 DEF pushTimerCb
    <3>3. CASE httpPushCb
      BY <3>3 DEF httpPushCb
    <3>4. CASE mqttPublishCb \/ MqttLost \/ mqttErrorCb
      BY <3>4 DEF mqttPublishCb, MqttLost, mqttErrorCb, machine
    <3>5. CASE pushTimeoutCb \/ cgiSensorConfig \/ cgiUserConfig \/ UNCHANGED vars
      BY <3>5 DEF pushTimeoutCb, cgiSensorConfig, cgiUserConfig, machine, vars
    <3> QED
      BY <3>1, <3>2, <3>3, <3>4, <3>5 DEF Next
  <2> QED
    BY <2>1, <2>5 DEF MInv
<1> QED
  BY <1>1, <1>2, PTL DEF Spec

\* With HTTP switched off or its URL rejected, PUSH_MQTTWAIT never waits for
\* nothing.  (With HTTP on it may: a late callback of the last HTTP attempt.)
THEOREM MqttNeverHangs ==
  ASSUME "on" \notin HttpModes
  PROVE  Spec => []MqttWaitCovered
<1>1. MInv => MqttWaitCovered
  BY DEF MInv, IInv, CountersOK, MqttWaitCovered
<1> QED
  BY MqttInductive, <1>1, PTL

\* Under the same condition mqttPush never initialises a client that is alive.
THEOREM ClientIsFresh ==
  ASSUME "on" \notin HttpModes
  PROVE  Spec => ClientNotClobbered
<1>1. MInv => [pushTimerCb /\ pushState = MQTT /\ mqtt = "on" => client = "none"]_vars
  BY DEF MInv, pushTimerCb, MQTT
<1> QED
  BY MqttInductive, <1>1, PTL DEF Spec, ClientNotClobbered

-----------------------------------------------------------------------------
(* The history of a cycle: how often each server was tried *)

\* With HTTP switched on, pushRetries counts the attempts that came to an end.
HttpTries ==
  /\ timer /\ pushState <= HTTPSTART => tried.http = 0
  /\ timer /\ pushState = HTTP => tried.http = pushRetries /\ pushRetries < RetriesMax
  /\ timer /\ pushState = HTTPWAIT =>
       tried.http = pushRetries + inflight /\ tried.http < RetriesMax
  /\ timer /\ pushState >= MQTTSTART => "http" \in settled \/ tried.http >= RetriesMax - 1

\* The same for MQTT, where a client is alive as long as its attempt lasts.
MqttTries ==
  /\ timer /\ pushState <= MQTT => client = "none" /\ pushErrorDelay = 0
  /\ timer /\ pushState = MQTTWAIT => (client = "none" <=> pushErrorDelay > 0)
  /\ timer /\ pushState <= MQTTSTART => tried.mqtt = 0
  /\ timer /\ pushState = MQTT => tried.mqtt = pushRetries /\ pushRetries < RetriesMax
  /\ timer /\ pushState = MQTTWAIT =>
       /\ tried.mqtt = pushRetries + (IF client = "none" THEN 0 ELSE 1)
       /\ tried.mqtt < RetriesMax
  /\ timer /\ pushState >= FINISH => "mqtt" \in settled \/ tried.mqtt >= RetriesMax

TriesOK ==
  /\ OneServer
  /\ tried.http \in 0 .. RetriesMax /\ tried.mqtt \in 0 .. RetriesMax
  /\ http = "on" => HttpTries
  /\ http # "on" => inflight = 0 /\ tried.http = 0
  /\ mqtt = "on" => MqttTries
  /\ mqtt # "on" => tried.mqtt = 0

LEMMA HistoryStep ==
  ASSUME IInv, IInv', TriesOK, [HNext]_<<vars, history>>
  PROVE  TriesOK'
<1> USE LimitsAssumption
    DEF IInv, CountersOK, ControlOK, HttpWaitCovered, Strays, AttemptFailed, AfterAttempt,
        TriesOK, OneServer, HttpTries, MqttTries, IDLE, INIT, READ, IPWAIT, HTTPSTART, HTTP,
        HTTPWAIT, MQTTSTART, MQTT, MQTTWAIT, FINISH
<1>1. CASE HTick
  <2>1. /\ timer /\ UNCHANGED config /\ settled' = settled
        /\ tried'.http = tried.http + (IF pushState = HTTP /\ http = "on" THEN 1 ELSE 0)
        /\ tried'.mqtt = tried.mqtt + (IF pushState = MQTT /\ mqtt = "on" THEN 1 ELSE 0)
    BY <1>1 DEF HTick, pushTimerCb
  <2>2. http' = http /\ mqtt' = mqtt
    BY <2>1 DEF config
  <2> USE <2>1, <2>2
  <2>3. CASE TickInit
    BY ThenStateFacts, <2>3 DEF TickInit
  <2>4. CASE TickRead
    BY ThenStateFacts, <2>4 DEF TickRead
  <2>5. CASE TickIpWait
    BY ThenStateFacts, <2>5 DEF TickIpWait
  <2>6. CASE TickStart
    BY ThenStateFacts, <2>6 DEF TickStart
  <2>7. CASE TickHttp
    BY ThenStateFacts, <2>7 DEF TickHttp
  <2>8. CASE TickWait
    BY ThenStateFacts, <2>8 DEF TickWait
  <2>9. CASE TickMqtt
    BY ThenStateFacts, <2>9 DEF TickMqtt, RestOK
  <2>10. CASE TickFinish \/ TickDefault
    BY ThenStateFacts, <2>10 DEF TickFinish, TickDefault
  <2> QED
    BY <1>1, <2>3, <2>4, <2>5, <2>6, <2>7, <2>8, <2>9, <2>10 DEF HTick, pushTimerCb
<1>2. CASE HReply
  <2>1. CASE HttpOk
    BY <1>2, <2>1 DEF HReply, httpPushCb, HttpOk
  <2>2. CASE HttpRedirect
    BY <1>2, <2>2 DEF HReply, httpPushCb, HttpRedirect
  <2>3. CASE HttpError
    BY <1>2, <2>3 DEF HReply, httpPushCb, HttpError
  <2> QED
    BY <1>2, <2>1, <2>2, <2>3 DEF HReply, httpPushCb
<1>3. CASE HPublished
  BY <1>3 DEF HPublished, mqttPublishCb, config
<1>4. CASE HWake
  BY <1>4 DEF HWake, Wake, pushSensorData
<1>5. CASE HOther
  BY <1>5 DEF HOther, history, pushTimeoutCb, MqttLost, mqttErrorCb, cgiUserConfig,
     cgiSensorConfig, config, machine
<1>6. CASE UNCHANGED <<vars, history>>
  BY <1>6 DEF vars, history, config, machine
<1> QED
  BY <1>1, <1>2, <1>3, <1>4, <1>5, <1>6 DEF HNext

\* With one server at work, a cycle tries it at most PUSH_RETRIES_MAX times and
\* comes to PUSH_FINISH only after it settled with it or used up the attempts,
\* for every number of retries, redirects and delay periods.
THEOREM EveryServerTried == HSpec => []ServersTried
<1>1. HInit => IInv /\ TriesOK
  <2> SUFFICES ASSUME HInit PROVE TriesOK
    BY InitIInv DEF HInit
  <2> QED
    BY LimitsAssumption DEF HInit, Init, TriesOK, HttpTries, MqttTries, INIT, HTTPSTART, HTTP,
       HTTPWAIT, MQTTSTART, MQTT, MQTTWAIT, FINISH
<1>2. [HNext]_<<vars, history>> => [Next]_vars
  BY DEF HNext, HTick, HReply, HPublished, HWake, HOther, Next
<1>3. IInv /\ TriesOK /\ [HNext]_<<vars, history>> => IInv' /\ TriesOK'
  <2>1. IInv /\ [HNext]_<<vars, history>> => IInv'
    BY <1>2, RestStep, ControlStep DEF IInv
  <2> QED
    BY <2>1, HistoryStep
<1>4. IInv /\ TriesOK => ServersTried
  BY LimitsAssumption DEF IInv, CountersOK, TriesOK, HttpTries, MqttTries, ServersTried,
     AttemptsBounded, NoServerForgotten, MQTTSTART, FINISH
<1> QED
  BY <1>1, <1>3, <1>4, PTL DEF HSpec

-----------------------------------------------------------------------------
(* The refinement *)

LEMMA PhaseFacts ==
  ASSUME NEW s \in 0 .. FINISH + 2
  PROVE  /\ s <= INIT => PhaseAt(s) = "start"
         /\ s = READ => PhaseAt(s) = "read"
         /\ s = IPWAIT => PhaseAt(s) = "net"
         /\ s \in HTTPSTART .. HTTPWAIT => PhaseAt(s) = "http"
         /\ s \in MQTTSTART .. MQTTWAIT => PhaseAt(s) = "mqtt"
         /\ s >= FINISH => PhaseAt(s) = "done"
  BY DEF PhaseAt, INIT, READ, IPWAIT, HTTPSTART, HTTPWAIT, MQTTSTART, MQTTWAIT, FINISH

LEMMA AbstractWork ==
  ASSUME Phase \in Abstract!Phases,
         \/ Phase' = Phase
         \/ Phase' = Abstract!Following[Phase]
         \/ Phase = "start" /\ Phase' = "done",
         inflight \in Nat, inflight' \in Nat,
         inflight' > 0 /\ ~(inflight > 0) => Phase = "http",
         client' # "none" /\ ~(client # "none") => Phase = "mqtt"
  PROVE  Abstract!Next
<1>1. (inflight' > 0) \in BOOLEAN /\ (client' # "none") \in BOOLEAN
  OBVIOUS
<1> QED
  BY <1>1, Zenon DEF Abstract!Next, Abstract!Work

\* The moves of pushState that keep to the order of the phases.
LEMMA PhaseMoves ==
  ASSUME NEW s \in 0 .. FINISH + 2, NEW t \in 0 .. FINISH + 2,
         \/ t = s \/ t = s + 1
         \/ s = INIT /\ t = FINISH
         \/ s \in {HTTP, MQTT} /\ t = s + 2
         \/ s \in {HTTPWAIT, MQTTWAIT} /\ t = s - 1
  PROVE  /\ PhaseAt(s) \in Abstract!Phases
         /\ \/ PhaseAt(t) = PhaseAt(s)
            \/ PhaseAt(t) = Abstract!Following[PhaseAt(s)]
            \/ PhaseAt(s) = "start" /\ PhaseAt(t) = "done"
<1> USE PhaseFacts DEF IDLE, INIT, READ, IPWAIT, HTTPSTART, HTTP, HTTPWAIT, MQTTSTART, MQTT,
                       MQTTWAIT, FINISH, Abstract!Phases, Abstract!Following
<1>1. CASE s <= INIT
  BY <1>1
<1>2. CASE s = READ
  BY <1>2
<1>3. CASE s = IPWAIT
  BY <1>3
<1>4. CASE s \in HTTPSTART .. HTTPWAIT
  BY <1>4
<1>5. CASE s \in MQTTSTART .. MQTTWAIT
  BY <1>5
<1>6. CASE s >= FINISH
  BY <1>6
<1> QED
  BY <1>1, <1>2, <1>3, <1>4, <1>5, <1>6

\* A step of the awake device is a step of the abstract cycle.
LEMMA AwakeStep ==
  ASSUME IInv, CountersOK', Next, ~asleep, ~asleep'
  PROVE  Abstract!Next
<1> USE LimitsAssumption
    DEF IInv, CountersOK, ControlOK, AttemptFailed, AfterAttempt, IDLE, INIT, READ, IPWAIT,
        HTTPSTART, HTTP, HTTPWAIT, MQTTSTART, MQTT, MQTTWAIT, FINISH
<1> DEFINE Move(s, t) == \/ t = s \/ t = s + 1
                         \/ s = INIT /\ t = FINISH
                         \/ s \in {HTTP, MQTT} /\ t = s + 2
                         \/ s \in {HTTPWAIT, MQTTWAIT} /\ t = s - 1
           Opens == /\ inflight' > 0 /\ ~(inflight > 0) => timer /\ pushState = HTTP
                    /\ client' # "none" /\ client = "none" => timer /\ pushState = MQTT
           Stops == timer /\ ~timer' /\ pushState >= FINISH
<1>1. ASSUME pushTimerCb
      PROVE  timer /\ (Stops \/ (timer' /\ Move(pushState, pushState'))) /\ Opens
  <2>1. timer
    BY <1>1 DEF pushTimerCb
  <2>2. CASE TickInit
    BY <2>1, <2>2, ThenStateFacts DEF TickInit
  <2>3. CASE TickRead
    BY <2>1, <2>3, ThenStateFacts DEF TickRead
  <2>4. CASE TickIpWait
    BY <2>1, <2>4, ThenStateFacts DEF TickIpWait
  <2>5. CASE TickStart
    BY <2>1, <2>5, ThenStateFacts DEF TickStart
  <2>6. CASE TickHttp
    BY <2>1, <2>6, ThenStateFacts DEF TickHttp
  <2>7. CASE TickWait
    BY <2>1, <2>7, ThenStateFacts DEF TickWait
  <2>8. CASE TickMqtt
    BY <2>1, <2>8, ThenStateFacts DEF TickMqtt
  <2>9. CASE TickFinish \/ TickDefault
    BY <2>1, <2>9, ThenStateFacts DEF TickFinish, TickDefault
  <2> QED
    BY <1>1, <2>2, <2>3, <2>4, <2>5, <2>6, <2>7, <2>8, <2>9 DEF pushTimerCb
<1>2. ASSUME httpPushCb \/ mqttPublishCb \/ MqttLost \/ mqttErrorCb
             \/ cgiSensorConfig \/ cgiUserConfig
      PROVE  timer' = timer /\ Move(pushState, pushState') /\ Opens
  BY <1>2 DEF httpPushCb, HttpOk, HttpRedirect, HttpError, mqttPublishCb, MqttLost, mqttErrorCb,
     cgiSensorConfig, cgiUserConfig, machine
<1>3. /\ \/ pushTimerCb
         \/ httpPushCb \/ mqttPublishCb \/ MqttLost \/ mqttErrorCb \/ cgiSensorConfig
         \/ cgiUserConfig
  BY DEF Next, Wake, pushTimeoutCb, sleepmode
<1>4. Opens /\ (Stops \/ (~timer /\ ~timer') \/ (timer /\ timer' /\ Move(pushState, pushState')))
  BY <1>1, <1>2, <1>3
<1>5. /\ Phase \in Abstract!Phases
      /\ \/ Phase' = Phase
         \/ Phase' = Abstract!Following[Phase]
         \/ Phase = "start" /\ Phase' = "done"
  <2>1. CASE Stops
    BY <2>1, PhaseFacts DEF Phase, Abstract!Phases
  <2>2. CASE ~timer /\ ~timer'
    BY <2>2 DEF Phase, Abstract!Phases
  <2>3. CASE timer /\ timer' /\ Move(pushState, pushState')
    BY <2>3, PhaseMoves DEF Phase
  <2> QED
    BY <1>4, <2>1, <2>2, <2>3
<1>6. /\ inflight' > 0 /\ ~(inflight > 0) => Phase = "http"
      /\ client' # "none" /\ ~(client # "none") => Phase = "mqtt"
  BY <1>4, PhaseFacts DEF Phase
<1> QED
  BY <1>5, <1>6, AbstractWork

\* Falling asleep keeps both clients as they are; nothing else happens asleep
\* but waking up.
LEMMA RefineStep ==
  ASSUME IInv, CountersOK', [Next]_vars
  PROVE  [Abstract!Next]_Abstract!cycle
<1>1. CASE UNCHANGED vars
  BY <1>1 DEF vars, machine, power, Phase, Abstract!cycle
<1>2. ASSUME Next, ~asleep, asleep'
      PROVE  inflight' = inflight /\ client' = client
  BY <1>2 DEF Next, Wake, pushTimerCb, pushTimeoutCb, httpPushCb, power, TickInit, TickRead,
     TickIpWait, TickStart, TickHttp, TickWait, TickMqtt, TickFinish, TickDefault,
     mqttPublishCb, MqttLost, mqttErrorCb, cgiSensorConfig, cgiUserConfig
<1>3. CASE Next /\ ~asleep /\ asleep'
  <2>1. Phase' = "asleep"
    BY <1>3 DEF Phase
  <2>2. Phase \in Abstract!Phases
    <3>1. PhaseAt(pushState) \in Abstract!Phases
      BY PhaseMoves DEF IInv, CountersOK
    <3> QED
      BY <1>3, <3>1 DEF Phase, Abstract!Phases
  <2> QED
    BY <1>2, <1>3, <2>1, <2>2 DEF Abstract!Next, Abstract!Sleep
<1>4. CASE Next /\ asleep
  <2>1. Wake
    BY <1>4 DEF Next, pushTimerCb, pushTimeoutCb, httpPushCb, mqttPublishCb, MqttLost,
       mqttErrorCb, cgiSensorConfig, cgiUserConfig
  <2>2. Phase = "asleep"
    BY <1>4 DEF Phase
  <2>3. asleep' = FALSE /\ timer' = TRUE /\ pushState' = INIT /\ inflight' = 0 /\ client' = "none"
    BY <2>1 DEF Wake, pushSensorData
  <2>4. Phase' = "start"
    BY <2>3, PhaseFacts DEF Phase, INIT, FINISH
  <2>5. (inflight' > 0) = FALSE /\ (client' # "none") = FALSE
    BY <2>3
  <2> QED
    BY <2>2, <2>4, <2>5 DEF Abstract!Next, Abstract!Wake
<1>5. CASE Next /\ ~asleep /\ ~asleep'
  BY <1>5, AwakeStep
<1> QED
  BY <1>1, <1>3, <1>4, <1>5

\* The cycle goes through its phases in one direction, starts talking to a
\* server only in that server's phase, and starts again only by waking up.
THEOREM CycleImplemented == Spec => RefinesCycle
<1>1. Init => Abstract!Init
  <2> SUFFICES ASSUME Init PROVE Abstract!Init
    OBVIOUS
  <2>1. asleep = FALSE /\ timer = TRUE /\ pushState = INIT /\ inflight = 0 /\ client = "none"
    BY DEF Init
  <2>2. Phase = "start"
    BY <2>1, PhaseFacts DEF Phase, INIT, FINISH
  <2>3. (inflight > 0) = FALSE /\ (client # "none") = FALSE
    BY <2>1
  <2> QED
    BY <2>2, <2>3 DEF Abstract!Init
<1>2. IInv /\ IInv' /\ [Next]_vars => [Abstract!Next]_Abstract!cycle
  BY RefineStep DEF IInv
<1> QED
  BY Inductive, <1>1, <1>2, PTL DEF Spec, RefinesCycle, Abstract!Spec

-----------------------------------------------------------------------------
(* The cycle in time: how long it takes at most to come to the broker, and *)
(* to give the broker its attempts                                         *)

LEMMA SpeedFacts ==
  /\ ReadTicks \in Nat /\ ReadTicks > 0
  /\ IpTicks \in Nat /\ IpTicks > 0
  /\ HttpTicks \in Nat /\ MqttTicks \in Nat /\ ReconnectTicks \in Nat /\ TimeoutTicks \in Nat
  BY SpeedAssumption

\* Periods that k answers may take.
Answers(k) == k * HttpTicks

\* An attempt at the HTTP server that fails after all redirects, with its delay.
HttpAttempt == 1 + Answers(RedirectMax) + ErrorDelay + 1

\* An attempt at a broker that is lost at the last moment, with its delay.
BrokerAttempt == 1 + MqttTicks + ReconnectTicks + ErrorDelay + 1

\* From PUSH_HTTP, after r failures, to the end of PUSH_MQTTSTART.
HttpNeeds(r) == 2 + (RetriesMax - 1 - r) * HttpAttempt

\* From PUSH_MQTT, after t attempts, to the last but one.
BrokerNeeds(t) == 1 + (RetriesMax - 2 - t) * BrokerAttempt

\* What it takes from pushSensorData to the broker's turn, and to its last
\* attempt but one when no HTTP server is in use: with the limits of push.h and
\* the speeds of TimedPush.cfg, 90 and 86 periods of 500 ms.
HttpBudget   == 2 + ReadTicks + IpTicks + HttpNeeds(0)
BrokerBudget == 4 + ReadTicks + IpTicks + BrokerNeeds(0)

LEMMA AnswersFacts ==
  /\ Answers(1) = HttpTicks
  /\ \A k \in Nat : Answers(k) \in Nat /\ Answers(k + 1) = Answers(k) + HttpTicks
<1>1. ASSUME NEW k \in Nat, NEW h \in Nat
      PROVE  k * h \in Nat /\ (k + 1) * h = k * h + h /\ 1 * h = h
  OBVIOUS
<1> QED
  BY <1>1, SpeedFacts DEF Answers

LEMMA ProductFacts ==
  ASSUME NEW a \in Nat
  PROVE  /\ 0 * a = 0
         /\ \A n \in Nat : n * a \in Nat /\ (n + 1) * a = n * a + a
<1>1. ASSUME NEW n \in Nat PROVE n * a \in Nat /\ (n + 1) * a = n * a + a
  OBVIOUS
<1>2. 0 * a = 0
  OBVIOUS
<1> QED
  BY <1>1, <1>2

LEMMA HttpNeedsFacts ==
  /\ HttpAttempt \in Nat
  /\ HttpNeeds(RetriesMax - 1) = 2
  /\ \A r \in Nat : r <= RetriesMax - 1 => HttpNeeds(r) \in Nat /\ HttpNeeds(r) >= 2
  /\ \A r \in Nat : r < RetriesMax - 1 => HttpNeeds(r) = HttpAttempt + HttpNeeds(r + 1)
<1>1. HttpAttempt \in Nat
  BY AnswersFacts, LimitsAssumption DEF HttpAttempt
<1>2. HttpNeeds(RetriesMax - 1) = 2
  <2>1. RetriesMax - 1 - (RetriesMax - 1) = 0
    BY LimitsAssumption
  <2> QED
    BY <1>1, <2>1, ProductFacts DEF HttpNeeds
<1>3. ASSUME NEW r \in Nat, r <= RetriesMax - 1
      PROVE  HttpNeeds(r) \in Nat /\ HttpNeeds(r) >= 2
  <2>1. RetriesMax - 1 - r \in Nat
    BY <1>3, LimitsAssumption
  <2>2. (RetriesMax - 1 - r) * HttpAttempt \in Nat
    BY <1>1, <2>1, ProductFacts
  <2> QED
    BY <2>2 DEF HttpNeeds
<1>4. ASSUME NEW r \in Nat, r < RetriesMax - 1
      PROVE  HttpNeeds(r) = HttpAttempt + HttpNeeds(r + 1)
  <2> DEFINE n == RetriesMax - 1 - (r + 1)
  <2>1. n \in Nat /\ RetriesMax - 1 - r = n + 1
    BY <1>4, LimitsAssumption
  <2> HIDE DEF n
  <2>2. (n + 1) * HttpAttempt = n * HttpAttempt + HttpAttempt /\ n * HttpAttempt \in Nat
    BY <1>1, <2>1, ProductFacts
  <2>3. HttpNeeds(r) = 2 + (n + 1) * HttpAttempt /\ HttpNeeds(r + 1) = 2 + n * HttpAttempt
    BY <2>1 DEF HttpNeeds, n
  <2> QED
    BY <1>1, <2>2, <2>3
<1> QED
  BY <1>1, <1>2, <1>3, <1>4

LEMMA BrokerNeedsFacts ==
  /\ BrokerAttempt \in Nat
  /\ \A t \in Nat : t < RetriesMax - 1 => BrokerNeeds(t) \in Nat /\ BrokerNeeds(t) >= 1
  /\ \A t \in Nat : t < RetriesMax - 2 => BrokerNeeds(t) = BrokerAttempt + BrokerNeeds(t + 1)
<1>1. BrokerAttempt \in Nat
  BY SpeedFacts, LimitsAssumption DEF BrokerAttempt
<1>2. ASSUME NEW t \in Nat, t < RetriesMax - 1
      PROVE  BrokerNeeds(t) \in Nat /\ BrokerNeeds(t) >= 1
  <2>1. RetriesMax - 2 - t \in Nat
    BY <1>2, LimitsAssumption
  <2>2. (RetriesMax - 2 - t) * BrokerAttempt \in Nat
    BY <1>1, <2>1, ProductFacts
  <2> QED
    BY <2>2 DEF BrokerNeeds
<1>3. ASSUME NEW t \in Nat, t < RetriesMax - 2
      PROVE  BrokerNeeds(t) = BrokerAttempt + BrokerNeeds(t + 1)
  <2> DEFINE n == RetriesMax - 2 - (t + 1)
  <2>1. n \in Nat /\ RetriesMax - 2 - t = n + 1
    BY <1>3, LimitsAssumption
  <2> HIDE DEF n
  <2>2. (n + 1) * BrokerAttempt = n * BrokerAttempt + BrokerAttempt /\ n * BrokerAttempt \in Nat
    BY <1>1, <2>1, ProductFacts
  <2>3. BrokerNeeds(t) = 1 + (n + 1) * BrokerAttempt /\ BrokerNeeds(t + 1) = 1 + n * BrokerAttempt
    BY <2>1 DEF BrokerNeeds, n
  <2> QED
    BY <1>1, <2>2, <2>3
<1> QED
  BY <1>1, <1>2, <1>3

\* What the time so far and the time that is still needed add up to.
HttpTime ==
  /\ timer /\ pushState = INIT => clock = 0
  /\ timer /\ pushState = READ =>
       /\ waited.here < ReadTicks
       /\ clock + (ReadTicks - waited.here) + IpTicks + 1 + HttpNeeds(0) <= HttpBudget
  /\ timer /\ pushState = IPWAIT =>
       /\ waited.here < IpTicks
       /\ clock + (IpTicks - waited.here) + 1 + HttpNeeds(0) <= HttpBudget
  /\ timer /\ pushState = HTTPSTART => clock + 1 + HttpNeeds(0) <= HttpBudget
  /\ timer /\ pushState = HTTP =>
       /\ pushRetries <= RetriesMax - 1
       /\ clock + HttpNeeds(pushRetries) <= HttpBudget
  /\ timer /\ pushState = HTTPWAIT =>
       /\ inflight = 1 => /\ pushRetries < RetriesMax - 1
                          /\ waited.http <= HttpTicks
                          /\ clock + Answers(pushRedirect) - waited.http + ErrorDelay + 1
                               + HttpNeeds(pushRetries + 1) <= HttpBudget
       /\ inflight = 0 => /\ pushRetries <= RetriesMax - 1
                          /\ clock + pushErrorDelay + HttpNeeds(pushRetries) <= HttpBudget
  /\ timer /\ pushState = MQTTSTART => clock + 1 <= HttpBudget

\* Where no HTTP server is in use, the client lives as long as its attempt, and
\* pushRetries counts attempts that failed.
BrokerOnly ==
  /\ inflight = 0
  /\ timer /\ pushState <= MQTT => client = "none" /\ pushErrorDelay = 0
  /\ timer /\ pushState = MQTTWAIT => (client = "none" <=> pushErrorDelay > 0)
  /\ timer /\ pushState <= MQTTSTART => attempts = 0
  /\ timer /\ pushState = MQTT => attempts = pushRetries
  /\ timer /\ pushState = MQTTWAIT =>
       attempts = pushRetries + (IF client = "none" THEN 0 ELSE 1)

BrokerTime ==
  attempts < RetriesMax - 1 =>
    /\ timer /\ pushState = INIT => clock = 0
    /\ timer /\ pushState = READ =>
         /\ waited.here < ReadTicks
         /\ clock + (ReadTicks - waited.here) + IpTicks + 3 + BrokerNeeds(0) <= BrokerBudget
    /\ timer /\ pushState = IPWAIT =>
         /\ waited.here < IpTicks
         /\ clock + (IpTicks - waited.here) + 3 + BrokerNeeds(0) <= BrokerBudget
    /\ timer /\ pushState \in HTTPSTART .. MQTTSTART =>
         /\ pushState \in {HTTPSTART, HTTP, MQTTSTART}
         /\ clock + (IF pushState = HTTPSTART THEN 3 ELSE IF pushState = HTTP THEN 2 ELSE 1)
              + BrokerNeeds(0) <= BrokerBudget
    /\ timer /\ pushState = MQTT => clock + BrokerNeeds(attempts) <= BrokerBudget
    /\ timer /\ pushState = MQTTWAIT =>
         /\ client = "open" =>
              /\ waited.mqtt <= MqttTicks
              /\ clock + (MqttTicks - waited.mqtt) + ReconnectTicks + ErrorDelay + 1
                   + BrokerNeeds(attempts) <= BrokerBudget
         /\ client = "down" =>
              /\ waited.mqtt <= ReconnectTicks
              /\ clock + (ReconnectTicks - waited.mqtt) + ErrorDelay + 1
                   + BrokerNeeds(attempts) <= BrokerBudget
         /\ client = "none" => clock + pushErrorDelay + BrokerNeeds(attempts) <= BrokerBudget
    /\ timer /\ pushState >= FINISH => clock + 1 <= BrokerBudget

TimeInv ==
  /\ IInv
  /\ clock \in Nat /\ attempts \in Nat
  /\ waited \in [here : Nat, http : Nat, mqtt : Nat]
  /\ HttpTime
  /\ mqtt = "on" /\ http # "on" => BrokerOnly /\ BrokerTime

\* Every step of the timed cycle is one of the cycle.
LEMMA TimedStep == [TNext]_tvars => [Next]_vars
  BY DEF TNext, TTick, TReply, TBroker, TTimeout, TWake, Next, tvars

\* What a period changes besides the cycle itself.
LEMMA TickWaits ==
  ASSUME TTick
  PROVE  /\ clock' = clock + 1
         /\ waited'.here = IF pushState' = pushState /\ pushState \in {READ, IPWAIT}
                             THEN waited.here + 1 ELSE 0
         /\ waited'.http = IF inflight > 0 THEN waited.http + 1 ELSE 0
         /\ waited'.mqtt = IF client # "none" THEN waited.mqtt + 1 ELSE 0
         /\ attempts' = IF pushState = MQTT /\ timer /\ mqtt = "on"
                          THEN attempts + 1 ELSE attempts
  BY DEF TTick

LEMMA TimedTypes ==
  ASSUME IInv, clock \in Nat, attempts \in Nat, waited \in [here : Nat, http : Nat, mqtt : Nat],
         [TNext]_tvars
  PROVE  clock' \in Nat /\ attempts' \in Nat /\ waited' \in [here : Nat, http : Nat, mqtt : Nat]
<1>1. CASE TTick
  <2>1. clock' \in Nat /\ attempts' \in Nat
    BY <1>1, TickWaits
  <2> DEFINE h == IF pushState' = pushState /\ pushState \in {READ, IPWAIT}
                    THEN waited.here + 1 ELSE 0
             w == IF inflight > 0 THEN waited.http + 1 ELSE 0
             m == IF client # "none" THEN waited.mqtt + 1 ELSE 0
  <2>2. h \in Nat /\ w \in Nat /\ m \in Nat
    OBVIOUS
  <2>3. waited' = [here |-> h, http |-> w, mqtt |-> m]
    BY <1>1 DEF TTick
  <2> HIDE DEF h, w, m
  <2> QED
    BY <2>1, <2>2, <2>3
<1>2. CASE TReply
  BY <1>2 DEF TReply
<1>3. CASE TBroker
  BY <1>3 DEF TBroker
<1>4. CASE TWake
  BY <1>4 DEF TWake, NotWaited
<1>5. CASE TTimeout \/ UNCHANGED tvars
  BY <1>5 DEF TTimeout, tvars
<1> QED
  BY <1>1, <1>2, <1>3, <1>4, <1>5 DEF TNext

LEMMA ReplyWaits ==
  ASSUME waited \in [here : Nat, http : Nat, mqtt : Nat]
  PROVE  /\ TReply => waited'.here = waited.here /\ waited'.http = 0 /\ waited'.mqtt = waited.mqtt
         /\ TBroker => waited'.here = waited.here /\ waited'.http = waited.http /\ waited'.mqtt = 0
  BY DEF TReply, TBroker

LEMMA HttpTimeTick ==
  ASSUME IInv, clock \in Nat, waited \in [here : Nat, http : Nat, mqtt : Nat], HttpTime, TTick
  PROVE  HttpTime'
<1>1. CASE ~timer
  <2>1. timer' = timer
    BY <1>1 DEF TTick, vars
  <2> QED
    BY <1>1, <2>1 DEF HttpTime
<1>2. CASE timer
  <2>1. pushTimerCb /\ InTime /\ clock' = clock + 1
    BY <1>2, TickWaits DEF TTick
  <2>2. /\ HttpNeeds(0) \in Nat /\ HttpNeeds(0) >= 2
        /\ HttpNeeds(RetriesMax - 1) = 2
        /\ HttpAttempt = 1 + Answers(RedirectMax) + ErrorDelay + 1
    BY HttpNeedsFacts, LimitsAssumption DEF HttpAttempt
  <2>3. /\ HttpNeeds(pushRetries)' = HttpNeeds(pushRetries')
        /\ HttpNeeds(pushRetries + 1)' = HttpNeeds(pushRetries' + 1)
        /\ HttpNeeds(0)' = HttpNeeds(0)
        /\ Answers(pushRedirect)' = Answers(pushRedirect')
        /\ HttpBudget' = HttpBudget
    BY DEF HttpNeeds, Answers, HttpBudget, HttpAttempt
  <2>4. pushRetries \in Nat
    BY DEF IInv, CountersOK
  <2>5. \/ pushRetries > RetriesMax - 1
        \/ HttpNeeds(pushRetries) \in Nat /\ HttpNeeds(pushRetries) >= 2
    BY <2>4, HttpNeedsFacts, LimitsAssumption
  <2>6. \/ pushRetries >= RetriesMax - 1
        \/ /\ HttpNeeds(pushRetries) = HttpAttempt + HttpNeeds(pushRetries + 1)
           /\ HttpNeeds(pushRetries + 1) \in Nat /\ HttpNeeds(pushRetries + 1) >= 2
    <3>1. ASSUME pushRetries < RetriesMax - 1
          PROVE  pushRetries + 1 \in Nat /\ pushRetries + 1 <= RetriesMax - 1
      BY <2>4, <3>1, LimitsAssumption
    <3> QED
      BY <2>4, <3>1, HttpNeedsFacts, LimitsAssumption
  <2>7. HttpBudget = 2 + ReadTicks + IpTicks + HttpNeeds(0)
    BY DEF HttpBudget
  <2>8. Answers(RedirectMax) \in Nat /\ Answers(pushRedirect) \in Nat
    BY AnswersFacts, LimitsAssumption DEF IInv, CountersOK
  <2> USE <1>2, <2>1, <2>2, <2>3, <2>4, <2>5, <2>6, <2>7, <2>8, SpeedFacts, TickWaits, ThenStateFacts,
          LimitsAssumption
      DEF HttpTime, InTime, IInv, CountersOK, ControlOK, HttpWaitCovered, Strays, AttemptFailed,
          AfterAttempt, IDLE, INIT, READ, IPWAIT, HTTPSTART, HTTP, HTTPWAIT, MQTTSTART, MQTT,
          MQTTWAIT, FINISH
  <2>11. CASE TickInit
    BY <2>11 DEF TickInit
  <2>12. CASE TickRead
    BY <2>12 DEF TickRead
  <2>13. CASE TickIpWait
    BY <2>13 DEF TickIpWait
  <2>14. CASE TickStart
    BY <2>14 DEF TickStart
  <2>15. CASE TickHttp
    BY <2>15 DEF TickHttp
  <2>16. CASE TickWait
    BY <2>16 DEF TickWait
  <2>17. CASE TickMqtt \/ TickFinish \/ TickDefault
    BY <2>17 DEF TickMqtt, TickFinish, TickDefault
  <2> QED
    BY <2>1, <2>11, <2>12, <2>13, <2>14, <2>15, <2>16, <2>17 DEF pushTimerCb
<1> QED
  BY <1>1, <1>2 DEF IInv, CountersOK

LEMMA HttpTimeReply ==
  ASSUME IInv, clock \in Nat, waited \in [here : Nat, http : Nat, mqtt : Nat], HttpTime, TReply
  PROVE  HttpTime'
<1>1. /\ httpPushCb /\ timer' = timer /\ clock' = clock
      /\ waited'.here = waited.here /\ waited'.http = 0
  BY ReplyWaits DEF TReply, httpPushCb
<1>2. /\ HttpNeeds(pushRetries)' = HttpNeeds(pushRetries')
      /\ HttpNeeds(pushRetries + 1)' = HttpNeeds(pushRetries' + 1)
      /\ HttpNeeds(0)' = HttpNeeds(0)
      /\ Answers(pushRedirect)' = Answers(pushRedirect')
      /\ HttpBudget' = HttpBudget
  BY DEF HttpNeeds, Answers, HttpBudget, HttpAttempt
<1>3. pushRetries \in Nat /\ inflight = 1 /\ pushRedirect \in 1 .. RedirectMax
  BY <1>1 DEF httpPushCb, IInv, CountersOK, ControlOK
<1>4. \/ pushRetries + 1 > RetriesMax - 1
      \/ HttpNeeds(pushRetries + 1) \in Nat /\ HttpNeeds(pushRetries + 1) >= 2
  BY <1>3, HttpNeedsFacts, LimitsAssumption
<1>5. /\ Answers(pushRedirect - 1) \in Nat
      /\ Answers(pushRedirect) = Answers(pushRedirect - 1) + HttpTicks
  <2>1. pushRedirect - 1 \in Nat /\ (pushRedirect - 1) + 1 = pushRedirect
    BY <1>3, LimitsAssumption
  <2> QED
    BY <2>1, AnswersFacts
<1>9. HttpBudget \in Nat
  BY HttpNeedsFacts, SpeedFacts, LimitsAssumption DEF HttpBudget
<1> USE <1>1, <1>2, <1>3, <1>4, <1>5, <1>9, SpeedFacts, LimitsAssumption
    DEF HttpTime, IInv, CountersOK, ControlOK, HttpWaitCovered, Strays, AttemptFailed,
        IDLE, INIT, READ, IPWAIT, HTTPSTART, HTTP, HTTPWAIT, MQTTSTART, MQTT, MQTTWAIT, FINISH
<1>6. CASE HttpOk
  BY <1>6 DEF HttpOk
<1>7. CASE HttpRedirect
  BY <1>7 DEF HttpRedirect
<1>8. CASE HttpError
  BY <1>8 DEF HttpError
<1> QED
  BY <1>1, <1>6, <1>7, <1>8 DEF httpPushCb

LEMMA HttpTimeOther ==
  ASSUME IInv, clock \in Nat, waited \in [here : Nat, http : Nat, mqtt : Nat], HttpTime,
         TBroker \/ TTimeout \/ TWake \/ UNCHANGED tvars
  PROVE  HttpTime'
<1>1. CASE TBroker
  <2>1. timer => pushState > MQTTSTART
    <3>1. client # "none"
      BY <1>1 DEF TBroker, mqttPublishCb, MqttLost, mqttErrorCb
    <3> QED
      BY <3>1 DEF IInv, CountersOK, ControlOK, MQTTSTART, FINISH
  <2>2. timer' = timer /\ pushState' \in {pushState, pushState + 1}
    BY <1>1 DEF TBroker, mqttPublishCb, MqttLost, mqttErrorCb, machine
  <2> QED
    BY <2>1, <2>2 DEF HttpTime, IInv, CountersOK, INIT, READ, IPWAIT, HTTPSTART, HTTP, HTTPWAIT,
       MQTTSTART
<1>2. CASE TTimeout \/ UNCHANGED tvars
  <2>1. UNCHANGED <<machine, timer, inflight, clock, waited>>
    BY <1>2 DEF TTimeout, pushTimeoutCb, tvars, vars
  <2>2. UNCHANGED <<pushState, pushErrorDelay, pushRetries, pushRedirect, timer, inflight,
                    clock, waited>>
    BY <2>1 DEF machine
  <2> QED
    BY <2>2 DEF HttpTime, HttpNeeds, Answers, HttpBudget, HttpAttempt
<1>3. CASE TWake
  BY <1>3 DEF TWake, Wake, pushSensorData, HttpTime, INIT, READ, IPWAIT, HTTPSTART, HTTP, HTTPWAIT,
     MQTTSTART
<1> QED
  BY <1>1, <1>2, <1>3

LEMMA BrokerTick ==
  ASSUME IInv, clock \in Nat, attempts \in Nat, waited \in [here : Nat, http : Nat, mqtt : Nat],
         mqtt = "on", http # "on", BrokerOnly, BrokerTime, TTick
  PROVE  BrokerOnly' /\ BrokerTime'
<1>1. CASE ~timer
  <2>1. timer' = timer /\ inflight' = inflight
    BY <1>1 DEF TTick, vars
  <2> QED
    BY <1>1, <2>1 DEF BrokerOnly, BrokerTime
<1>2. CASE timer
  <2>1. pushTimerCb /\ InTime /\ clock' = clock + 1
    BY <1>2, TickWaits DEF TTick
  <2>2. \/ RetriesMax = 1
        \/ /\ BrokerNeeds(0) \in Nat /\ BrokerNeeds(0) >= 1
           /\ BrokerBudget = 4 + ReadTicks + IpTicks + BrokerNeeds(0)
    BY BrokerNeedsFacts, LimitsAssumption DEF BrokerBudget
  <2>3. BrokerAttempt = 1 + MqttTicks + ReconnectTicks + ErrorDelay + 1
    BY DEF BrokerAttempt
  <2>4. /\ BrokerNeeds(attempts)' = BrokerNeeds(attempts')
        /\ BrokerNeeds(0)' = BrokerNeeds(0)
        /\ BrokerBudget' = BrokerBudget
    BY DEF BrokerNeeds, BrokerBudget, BrokerAttempt
  <2>5. \/ attempts >= RetriesMax - 1
        \/ BrokerNeeds(attempts) \in Nat /\ BrokerNeeds(attempts) >= 1
    BY BrokerNeedsFacts, LimitsAssumption
  <2>6. \/ attempts + 1 >= RetriesMax - 1
        \/ /\ BrokerNeeds(attempts) = BrokerAttempt + BrokerNeeds(attempts + 1)
           /\ BrokerNeeds(attempts + 1) \in Nat /\ BrokerNeeds(attempts + 1) >= 1
    <3>1. attempts + 1 \in Nat
      OBVIOUS
    <3> QED
      BY <3>1, BrokerNeedsFacts, LimitsAssumption
  <2> USE <1>2, <2>1, <2>2, <2>3, <2>4, <2>5, <2>6, SpeedFacts, TickWaits, ThenStateFacts,
          LimitsAssumption
      DEF BrokerOnly, BrokerTime, InTime, IInv, CountersOK, ControlOK, AfterAttempt,
          IDLE, INIT, READ, IPWAIT, HTTPSTART, HTTP, HTTPWAIT, MQTTSTART, MQTT, MQTTWAIT, FINISH
  <2>11. CASE TickInit
    BY <2>11 DEF TickInit
  <2>12. CASE TickRead
    BY <2>12 DEF TickRead
  <2>13. CASE TickIpWait
    BY <2>13 DEF TickIpWait
  <2>14. CASE TickStart
    BY <2>14 DEF TickStart
  <2>15. CASE TickHttp
    BY <2>15 DEF TickHttp
  <2>16. CASE TickWait
    BY <2>16 DEF TickWait
  <2>17. CASE TickMqtt
    BY <2>17 DEF TickMqtt
  <2>18. CASE TickFinish \/ TickDefault
    BY <2>18 DEF TickFinish, TickDefault
  <2> QED
    BY <2>1, <2>11, <2>12, <2>13, <2>14, <2>15, <2>16, <2>17, <2>18 DEF pushTimerCb
<1> QED
  BY <1>1, <1>2 DEF IInv, CountersOK

LEMMA BrokerOther ==
  ASSUME IInv, clock \in Nat, attempts \in Nat, waited \in [here : Nat, http : Nat, mqtt : Nat],
         mqtt = "on", http # "on", BrokerOnly, BrokerTime,
         TReply \/ TBroker \/ TTimeout \/ TWake \/ UNCHANGED tvars
  PROVE  BrokerOnly' /\ BrokerTime'
<1>1. ~TReply
  BY DEF TReply, httpPushCb, BrokerOnly
<1>2. CASE TBroker
  <2>1. /\ clock' = clock /\ attempts' = attempts /\ timer' = timer /\ inflight' = inflight
        /\ waited'.here = waited.here /\ waited'.mqtt = 0
        /\ client # "none"
    BY <1>2, ReplyWaits DEF TBroker, mqttPublishCb, MqttLost, mqttErrorCb
  <2>2. timer => pushState >= MQTTWAIT
    BY <2>1 DEF BrokerOnly, IInv, CountersOK, MQTT, MQTTWAIT, FINISH
  <2>3. /\ BrokerNeeds(attempts)' = BrokerNeeds(attempts)
        /\ BrokerNeeds(0)' = BrokerNeeds(0)
        /\ BrokerBudget' = BrokerBudget
    BY <2>1 DEF BrokerNeeds, BrokerBudget, BrokerAttempt
  <2>4. /\ attempts < RetriesMax - 1 => BrokerNeeds(attempts) \in Nat /\ BrokerNeeds(attempts) >= 1
        /\ attempts < RetriesMax - 1 => BrokerBudget \in Nat
    BY BrokerNeedsFacts, SpeedFacts, LimitsAssumption DEF BrokerBudget
  <2> USE <2>1, <2>2, <2>3, <2>4, SpeedFacts, LimitsAssumption
      DEF BrokerOnly, BrokerTime, IInv, CountersOK, ControlOK, AttemptFailed,
          IDLE, INIT, READ, IPWAIT, HTTPSTART, HTTP, HTTPWAIT, MQTTSTART, MQTT, MQTTWAIT, FINISH
  <2>5. CASE mqttPublishCb
    BY <2>5 DEF mqttPublishCb
  <2>6. CASE MqttLost
    BY <2>6 DEF MqttLost, machine
  <2>7. CASE mqttErrorCb
    BY <2>7 DEF mqttErrorCb
  <2> QED
    BY <1>2, <2>5, <2>6, <2>7 DEF TBroker
<1>3. CASE TTimeout \/ UNCHANGED tvars
  <2>1. UNCHANGED <<machine, timer, inflight, client, clock, waited, attempts>>
    BY <1>3 DEF TTimeout, pushTimeoutCb, tvars, vars
  <2>2. UNCHANGED <<pushState, pushErrorDelay, pushRetries, timer, inflight, client,
                    clock, waited, attempts>>
    BY <2>1 DEF machine
  <2> QED
    BY <2>2 DEF BrokerOnly, BrokerTime, BrokerNeeds, BrokerBudget, BrokerAttempt
<1>4. CASE TWake
  BY <1>4 DEF TWake, Wake, pushSensorData, BrokerOnly, BrokerTime, INIT, READ, IPWAIT, HTTPSTART,
     HTTP, HTTPWAIT, MQTTSTART, MQTT, MQTTWAIT, FINISH
<1> QED
  BY <1>1, <1>2, <1>3, <1>4

LEMMA ConfigKept == [TNext]_tvars => http' = http /\ mqtt' = mqtt
  BY DEF TNext, TTick, TReply, TBroker, TTimeout, TWake, pushTimerCb, httpPushCb, mqttPublishCb,
     MqttLost, mqttErrorCb, pushTimeoutCb, Wake, tvars, vars, config

LEMMA TimeInductive == TSpec => []TimeInv
<1>1. TInit => TimeInv
  <2> SUFFICES ASSUME TInit PROVE TimeInv
    OBVIOUS
  <2>1. IInv /\ clock = 0 /\ attempts = 0 /\ waited = NotWaited
    BY InitIInv DEF TInit
  <2>2. pushState = INIT /\ inflight = 0 /\ client = "none" /\ pushErrorDelay = 0
    BY DEF TInit, Init
  <2>3. HttpTime
    BY <2>1, <2>2 DEF HttpTime, INIT, READ, IPWAIT, HTTPSTART, HTTP, HTTPWAIT, MQTTSTART
  <2>4. BrokerOnly /\ BrokerTime
    BY <2>1, <2>2 DEF BrokerOnly, BrokerTime, INIT, READ, IPWAIT, HTTPSTART, HTTP, HTTPWAIT,
       MQTTSTART, MQTT, MQTTWAIT, FINISH
  <2> QED
    BY <2>1, <2>3, <2>4 DEF TimeInv, NotWaited
<1>2. TimeInv /\ [TNext]_tvars => TimeInv'
  <2> SUFFICES ASSUME TimeInv, [TNext]_tvars PROVE TimeInv'
    OBVIOUS
  <2>1. IInv'
    BY TimedStep, RestStep, ControlStep DEF TimeInv, IInv
  <2>2. /\ clock' \in Nat /\ attempts' \in Nat
        /\ waited' \in [here : Nat, http : Nat, mqtt : Nat]
    BY TimedTypes DEF TimeInv
  <2>3. HttpTime'
    BY HttpTimeTick, HttpTimeReply, HttpTimeOther DEF TimeInv, TNext
  <2>4. mqtt' = "on" /\ http' # "on" => BrokerOnly' /\ BrokerTime'
    BY BrokerTick, BrokerOther, ConfigKept DEF TimeInv, TNext
  <2> QED
    BY <2>1, <2>2, <2>3, <2>4 DEF TimeInv
<1> QED
  BY <1>1, <1>2, PTL DEF TSpec

\* If the timeout leaves the HTTP phase its budget, it does not come before the
\* broker's turn; if it leaves an idle HTTP phase the broker's budget, it does not
\* come before the broker's last attempt but one.
THEOREM TimeoutIsLongEnough ==
  ASSUME HttpBudget <= TimeoutTicks, BrokerBudget <= TimeoutTicks
  PROVE  TSpec => TimeoutLeavesTime
<1>1. HttpBudget \in Nat /\ (RetriesMax > 1 => BrokerBudget \in Nat)
  BY HttpNeedsFacts, BrokerNeedsFacts, SpeedFacts, LimitsAssumption DEF HttpBudget, BrokerBudget
<1>2. TimeInv /\ [TNext]_tvars => [TTimeout /\ timer => pushState >= MQTT]_tvars
  <2> SUFFICES ASSUME TimeInv, TTimeout, timer, ~(pushState >= MQTT) PROVE FALSE
    OBVIOUS
  <2>1. clock = TimeoutTicks
    BY DEF TTimeout
  <2>2. pushRetries <= RetriesMax - 1 => HttpNeeds(pushRetries) \in Nat /\ HttpNeeds(pushRetries) >= 2
    BY HttpNeedsFacts DEF TimeInv, IInv, CountersOK
  <2>3. pushRetries < RetriesMax - 1 =>
          HttpNeeds(pushRetries + 1) \in Nat /\ HttpNeeds(pushRetries + 1) >= 2
    BY HttpNeedsFacts, LimitsAssumption DEF TimeInv, IInv, CountersOK
  <2>4. HttpNeeds(0) \in Nat /\ HttpNeeds(0) >= 2
    BY HttpNeedsFacts, LimitsAssumption
  <2>5. inflight = 1 => Answers(pushRedirect) \in Nat /\ Answers(pushRedirect) >= HttpTicks
    <3> SUFFICES ASSUME inflight = 1 PROVE Answers(pushRedirect) \in Nat /\ Answers(pushRedirect) >= HttpTicks
      OBVIOUS
    <3>1. pushRedirect - 1 \in Nat /\ (pushRedirect - 1) + 1 = pushRedirect
      BY LimitsAssumption DEF TimeInv, IInv, CountersOK, ControlOK
    <3> QED
      BY <3>1, AnswersFacts, SpeedFacts
  <2>6. HttpBudget > 2 + ReadTicks + IpTicks
    BY <2>4, SpeedFacts DEF HttpBudget
  <2> QED
    BY <1>1, <2>1, <2>2, <2>3, <2>4, <2>5, <2>6, SpeedFacts, LimitsAssumption
       DEF TimeInv, HttpTime, IInv, CountersOK, ControlOK, HttpWaitCovered,
           INIT, READ, IPWAIT, HTTPSTART, HTTP, HTTPWAIT, MQTTSTART, MQTT, FINISH
<1>3. TimeInv /\ [TNext]_tvars
        => [TTimeout /\ timer /\ mqtt = "on" /\ http # "on" => attempts >= RetriesMax - 1]_tvars
  <2> SUFFICES ASSUME TimeInv, TTimeout, timer, mqtt = "on", http # "on",
                      ~(attempts >= RetriesMax - 1)
               PROVE  FALSE
    OBVIOUS
  <2>1. clock = TimeoutTicks /\ attempts < RetriesMax - 1
    BY LimitsAssumption DEF TTimeout, TimeInv
  <2>2. BrokerNeeds(attempts) \in Nat /\ BrokerNeeds(attempts) >= 1
    BY <2>1, BrokerNeedsFacts DEF TimeInv
  <2>3. BrokerNeeds(0) \in Nat /\ BrokerNeeds(0) >= 1 /\ BrokerBudget \in Nat
    BY <1>1, <2>1, BrokerNeedsFacts, LimitsAssumption DEF TimeInv
  <2>4. BrokerBudget > 3 + ReadTicks + IpTicks
    BY <2>3, SpeedFacts DEF BrokerBudget
  <2> QED
    BY <2>1, <2>2, <2>3, <2>4, SpeedFacts, LimitsAssumption
       DEF TimeInv, BrokerOnly, BrokerTime, IInv, CountersOK, ControlOK,
           INIT, READ, IPWAIT, HTTPSTART, HTTP, HTTPWAIT, MQTTSTART, MQTT, MQTTWAIT, FINISH
<1> QED
  BY TimeInductive, <1>2, <1>3, PTL
     DEF TSpec, TimeoutLeavesTime, HttpLeavesTime, BrokerTriedAgain
=============================================================================
