-------------------------------- MODULE Push --------------------------------
(***************************************************************************)
(* The measure-and-send cycle of user/push.c: a state machine stepped by a *)
(* one-shot 500 ms timer (pushTimerCb), whose state is also advanced by    *)
(* the callbacks of the HTTP client (httpPushCb) and of the MQTT client    *)
(* (mqttPublishCb, mqttErrorCb), next to a 45 s timeout (pushTimeoutCb)    *)
(* that puts the device to sleep whatever the cycle is doing.              *)
(*                                                                         *)
(* The SDK runs one callback at a time, so every callback is one action.   *)
(* Time is not measured: an armed timer may fire at any moment.  The two   *)
(* clients appear through what they promise push.c: a started request is   *)
(* answered by at most one callback; a started MQTT client publishes all   *)
(* five values (mqttPublishCb with an empty queue), or loses its           *)
(* connection, whereupon its own timer reports the failure (mqttErrorCb).  *)
(***************************************************************************)
EXTENDS Naturals

CONSTANTS
  HttpModes,     \* values http_enabled takes: "off", "on", or "badurl" (rejected by http_get)
  MqttModes,     \* values mqtt_enabled takes: "off", "on"
  UserIntervals, \* values of sensor_interval the user may save, in seconds
  Overrides,     \* values servers send in X-Interval-Override, in seconds
  ErrorDelay,    \* PUSH_ERROR_DELAY, in timer periods
  ReadMax,       \* PUSH_READ_MAX
  RetriesMax,    \* PUSH_RETRIES_MAX
  RedirectMax    \* PUSH_REDIRECT_MAX

ASSUME ModesAssumption == HttpModes \subseteq {"off", "on", "badurl"} /\ MqttModes \subseteq {"off", "on"}

ASSUME IntervalsAssumption == UserIntervals \subseteq Nat /\ Overrides \subseteq Nat

ASSUME LimitsAssumption ==
  /\ ErrorDelay \in Nat
  /\ ReadMax \in Nat /\ ReadMax > 0
  /\ RetriesMax \in Nat /\ RetriesMax > 0
  /\ RedirectMax \in Nat /\ RedirectMax > 1

VARIABLES
  http, mqtt,       \* configGet()->http_enabled, ->mqtt_enabled
  interval,         \* configGet()->sensor_interval, the copy in RAM
  stored,           \* sensor_interval as last written to flash
  firstStart,       \* configIsFirstStart()
  pushState, pushErrorDelay, pushRetries, pushSensorState, pushRedirect,
  led,              \* argument of the last statusLed
  timer,            \* pushTimer is armed
  timeout,          \* pushTimeoutTimer is armed
  inflight,         \* HTTP requests whose callback is still to come
  client,           \* mqttClient: "none", "open" (working), "down" (lost, its timer counting)
  asleep,           \* system_deep_sleep was called
  sleepTime         \* its argument, in units of 64 us

config  == <<http, mqtt, interval, stored>>
machine == <<pushState, pushErrorDelay, pushRetries, pushSensorState, pushRedirect>>
power   == <<asleep, sleepTime>>
vars    == <<config, firstStart, machine, led, timer, timeout, inflight, client, power>>

\* enum push_states
IDLE      == 0
INIT      == 1
READ      == 2
IPWAIT    == 3
HTTPSTART == 4
HTTP      == 5
HTTPWAIT  == 6
MQTTSTART == 7
MQTT      == 8
MQTTWAIT  == 9
FINISH    == 10

OverrideRange == 30 .. 21600   \* "min 30s / max 6h"
SensorResults == {"OK", "FAILED", "PENDING"}

\* Units of 64 us: 10^6 us are 15625 units, 2^31 us are IntLimit units.
IntLimit == 33554432

\* A negative product widened to 64 bits: longer than any uint16_t of seconds.
Widened == 2147483647

SleepTimes_ShortProduct(seconds) == {((seconds * 1000) % 65536 * 125) \div 8}

\* What interval*1000*1000 may come to as the argument of system_deep_sleep.  The
\* product is a signed int: from 2^31 us on it overflows, which is undefined; the
\* machine keeps its low 32 bits, and where these are negative they are converted
\* to the 32 or widened to the 64 bits of the SDK's parameter.
SleepTimes(seconds) ==
  LET units   == seconds * 15625
      wrapped == units % (2 * IntLimit)
  IN  {wrapped} \cup {late \in {Widened} : units >= IntLimit /\ wrapped >= IntLimit}

sleepmode ==
  /\ asleep' = TRUE
  /\ sleepTime' \in SleepTimes(interval)

-----------------------------------------------------------------------------
(* Starting a cycle *)

pushSensorData_NoTimeout ==
  /\ pushState' = INIT /\ pushErrorDelay' = 0 /\ pushRetries' = 0
  /\ pushSensorState' = "OK" /\ pushRedirect' = 0
  /\ led' = 1 /\ timer' = TRUE
  /\ UNCHANGED timeout

pushSensorData ==
  /\ pushState' = INIT /\ pushErrorDelay' = 0 /\ pushRetries' = 0
  /\ pushSensorState' = "OK" /\ pushRedirect' = 0
  /\ led' = 1 /\ timer' = TRUE /\ timeout' = TRUE

Init ==
  /\ http \in HttpModes
  /\ mqtt \in MqttModes
  /\ interval \in UserIntervals
  /\ stored = interval
  /\ firstStart \in BOOLEAN
  /\ pushState = INIT /\ pushErrorDelay = 0 /\ pushRetries = 0
  /\ pushSensorState = "OK" /\ pushRedirect = 0
  /\ led = 1 /\ timer = TRUE /\ timeout = TRUE
  /\ inflight = 0 /\ client = "none"
  /\ asleep = FALSE /\ sleepTime = 0

\* The chip resets after deep sleep: RAM is lost, the configuration comes back
\* from flash, and the RTC memory tells that this is not the first start.
Wake ==
  /\ asleep
  /\ asleep' = FALSE
  /\ interval' = stored
  /\ firstStart' = FALSE
  /\ inflight' = 0
  /\ client' = "none"
  /\ pushSensorData
  /\ UNCHANGED <<http, mqtt, stored, sleepTime>>

-----------------------------------------------------------------------------
(* pushTimerCb: one disjunct per case of its switch *)

ThenState(s) ==
  /\ pushState' = s
  /\ timer' = (s > IDLE)   \* the one-shot timer is re-armed unless idle

TickInit ==
  /\ pushState = INIT
  /\ IF http = "off" /\ mqtt = "off"
       THEN ThenState(FINISH) /\ UNCHANGED <<led, pushRetries>>
       ELSE ThenState(READ) /\ led' = 1 /\ pushRetries' = 0
  /\ UNCHANGED <<pushErrorDelay, pushSensorState, pushRedirect, inflight, client, power>>

TickRead ==
  /\ pushState = READ
  /\ \E result \in SensorResults :
       /\ pushSensorState' = result
       /\ pushRetries' = IF result = "FAILED" THEN pushRetries + 1 ELSE pushRetries
       /\ ThenState(IF result = "OK" \/ (result = "FAILED" /\ pushRetries' >= ReadMax)
                      THEN IPWAIT ELSE READ)
  /\ UNCHANGED <<pushErrorDelay, pushRedirect, led, inflight, client, power>>

TickIpWait ==
  /\ pushState = IPWAIT
  /\ \E gotIp \in BOOLEAN : ThenState(IF gotIp THEN HTTPSTART ELSE IPWAIT)
  /\ UNCHANGED <<pushErrorDelay, pushRetries, pushSensorState, pushRedirect, led,
                 inflight, client, power>>

TickStart ==   \* PUSH_HTTPSTART and PUSH_MQTTSTART
  /\ pushState \in {HTTPSTART, MQTTSTART}
  /\ pushRetries' = 0
  /\ ThenState(pushState + 1)
  /\ UNCHANGED <<pushErrorDelay, pushSensorState, pushRedirect, led, inflight, client, power>>

AfterAttempt_OffByOne(retries) ==
  ThenState(IF retries < RetriesMax - 2 THEN pushState + 1 ELSE pushState + 2)

\* An attempt was started: wait for its outcome, unless it was the last one
\* (judged by pushRetries as it is after the attempt).
AfterAttempt(retries) ==
  ThenState(IF retries < RetriesMax - 1 THEN pushState + 1 ELSE pushState + 2)

AttemptFailed_NoDelay ==
  /\ pushRetries' = pushRetries + 1
  /\ UNCHANGED pushErrorDelay

AttemptFailed ==
  /\ pushErrorDelay' = ErrorDelay + 1
  /\ pushRetries' = pushRetries + 1

TickHttp ==
  /\ pushState = HTTP
  /\ led' = 2
  /\ pushRedirect' = RedirectMax
  /\ \/ /\ http # "on"                            \* httpPush returns 1
        /\ ThenState(pushState + 2)
        /\ UNCHANGED <<pushErrorDelay, pushRetries, inflight>>
     \/ /\ http = "on"                            \* name lookup under way
        /\ inflight' = inflight + 1
        /\ AfterAttempt(pushRetries)
        /\ UNCHANGED <<pushErrorDelay, pushRetries>>
     \/ /\ http = "on"                            \* lookup fails at once: httpPushCb
        /\ AttemptFailed                          \* runs before http_get returns
        /\ AfterAttempt(pushRetries + 1)
        /\ UNCHANGED inflight
  /\ UNCHANGED <<pushSensorState, client, power>>

TickWait_BackToHttp ==
  /\ pushState \in {HTTPWAIT, MQTTWAIT}
  /\ IF pushErrorDelay > 0
       THEN /\ led' = 3
            /\ pushErrorDelay' = pushErrorDelay - 1
            /\ ThenState(IF pushErrorDelay = 1 THEN HTTP ELSE pushState)
       ELSE /\ ThenState(pushState)
            /\ UNCHANGED <<led, pushErrorDelay>>
  /\ UNCHANGED <<pushRetries, pushSensorState, pushRedirect, inflight, client, power>>

TickWait ==    \* PUSH_HTTPWAIT and PUSH_MQTTWAIT
  /\ pushState \in {HTTPWAIT, MQTTWAIT}
  /\ IF pushErrorDelay > 0
       THEN /\ led' = 3
            /\ pushErrorDelay' = pushErrorDelay - 1
            /\ ThenState(IF pushErrorDelay = 1 THEN pushState - 1 ELSE pushState)
       ELSE /\ ThenState(pushState)
            /\ UNCHANGED <<led, pushErrorDelay>>
  /\ UNCHANGED <<pushRetries, pushSensorState, pushRedirect, inflight, client, power>>

TickMqtt ==
  /\ pushState = MQTT
  /\ led' = 2
  /\ IF mqtt = "off"
       THEN ThenState(pushState + 2) /\ UNCHANGED client
       ELSE client' = "open" /\ AfterAttempt(pushRetries)
  /\ UNCHANGED <<pushErrorDelay, pushRetries, pushSensorState, pushRedirect, inflight, power>>

TickFinish ==
  /\ pushState = FINISH
  /\ IF firstStart
       THEN led' = 4 /\ UNCHANGED power
       ELSE led' = 0 /\ sleepmode
  /\ ThenState(IDLE)
  /\ UNCHANGED <<pushErrorDelay, pushRetries, pushSensorState, pushRedirect, inflight, client>>

TickDefault ==
  /\ pushState = IDLE \/ pushState > FINISH
  /\ ThenState(IDLE)
  /\ UNCHANGED <<pushErrorDelay, pushRetries, pushSensorState, pushRedirect, led,
                 inflight, client, power>>

pushTimerCb ==
  /\ ~asleep
  /\ timer
  /\ \/ TickInit \/ TickRead \/ TickIpWait \/ TickStart \/ TickHttp \/ TickWait
     \/ TickMqtt \/ TickFinish \/ TickDefault
  /\ UNCHANGED <<config, firstStart, timeout>>

-----------------------------------------------------------------------------
(* Callbacks of the clients: they advance pushState whatever it is *)

HttpOk ==
  /\ pushState' = pushState + 1
  /\ \/ UNCHANGED interval                         \* no X-Interval-Override header
     \/ \E value \in Overrides :
          interval' = IF value \in OverrideRange THEN value ELSE interval
  /\ inflight' = inflight - 1
  /\ UNCHANGED <<pushErrorDelay, pushRetries, pushRedirect>>

HttpRedirect_LimitAtZero ==
  /\ pushRedirect' = pushRedirect - 1
  /\ \/ /\ pushRedirect = 0
        /\ pushState' = pushState + 1
        /\ inflight' = inflight - 1
     \/ pushRedirect # 0 /\ UNCHANGED <<pushState, inflight>>
  /\ UNCHANGED <<pushErrorDelay, pushRetries, interval>>

HttpRedirect ==
  /\ pushRedirect' = pushRedirect - 1
  /\ \/ /\ pushRedirect = 1                        \* too many redirects
        /\ pushState' = pushState + 1
        /\ inflight' = inflight - 1
        /\ UNCHANGED <<pushErrorDelay, pushRetries>>
     \/ /\ pushRedirect # 1                        \* the new location is requested
        /\ UNCHANGED <<pushState, pushErrorDelay, pushRetries, inflight>>
     \/ /\ pushRedirect # 1                        \* no usable location, or its lookup fails
        /\ AttemptFailed
        /\ inflight' = inflight - 1
        /\ UNCHANGED pushState
  /\ UNCHANGED interval

HttpError_StillPending ==
  /\ AttemptFailed
  /\ UNCHANGED <<inflight, pushState, pushRedirect, interval>>

HttpError ==
  /\ AttemptFailed
  /\ inflight' = inflight - 1
  /\ UNCHANGED <<pushState, pushRedirect, interval>>

httpPushCb ==
  /\ ~asleep
  /\ inflight > 0
  /\ HttpOk \/ HttpRedirect \/ HttpError
  /\ UNCHANGED <<http, mqtt, stored, firstStart, pushSensorState, led, timer, timeout,
                 client, power>>

\* The last queued value went out: mqttPublishCb finds the queue empty,
\* deletes the client and advances.
mqttPublishCb ==
  /\ ~asleep
  /\ client = "open"
  /\ client' = "none"
  /\ pushState' = pushState + 1
  /\ UNCHANGED <<config, firstStart, pushErrorDelay, pushRetries, pushSensorState,
                 pushRedirect, led, timer, timeout, inflight, power>>

\* Lookup failure, refused or lost connection: the client only notes
\* TCP_RECONNECT_REQ and lets its one-second timer count.
MqttLost ==
  /\ ~asleep
  /\ client = "open"
  /\ client' = "down"
  /\ UNCHANGED <<config, firstStart, machine, led, timer, timeout, inflight, power>>

mqttErrorCb_NoDelete ==
  /\ ~asleep
  /\ client = "down"
  /\ AttemptFailed
  /\ UNCHANGED <<config, firstStart, pushState, pushSensorState, pushRedirect, led,
                 timer, timeout, inflight, client, power>>

mqttErrorCb ==
  /\ ~asleep
  /\ client = "down"
  /\ client' = "none"
  /\ AttemptFailed
  /\ UNCHANGED <<config, firstStart, pushState, pushSensorState, pushRedirect, led,
                 timer, timeout, inflight, power>>

pushTimeoutCb ==
  /\ ~asleep
  /\ timeout
  /\ timeout' = FALSE
  /\ sleepmode
  /\ UNCHANGED <<config, firstStart, machine, led, timer, inflight, client>>

-----------------------------------------------------------------------------
(* The web interface, reachable while the device is awake *)

\* sensorconfig.cgi?action=save writes the form into RAM and saves it.
cgiSensorConfig ==
  /\ ~asleep
  /\ http' \in HttpModes
  /\ mqtt' \in MqttModes
  /\ interval' \in UserIntervals
  /\ stored' = interval'
  /\ UNCHANGED <<firstStart, machine, led, timer, timeout, inflight, client, power>>

\* userconfig.cgi?action=save changes the login only, but saves all of RAM.
cgiUserConfig ==
  /\ ~asleep
  /\ stored' = interval
  /\ UNCHANGED <<http, mqtt, interval, firstStart, machine, led, timer, timeout,
                 inflight, client, power>>

-----------------------------------------------------------------------------
Next ==
  \/ Wake
  \/ pushTimerCb \/ pushTimeoutCb
  \/ httpPushCb
  \/ mqttPublishCb \/ MqttLost \/ mqttErrorCb
  \/ cgiSensorConfig \/ cgiUserConfig

Spec == Init /\ [][Next]_vars

(* The SDK's timers fire when they are due; nothing else is promised:      *)
(* servers may never answer and sensors may stay busy.                     *)
TimerFairness == WF_vars(pushTimerCb)

-----------------------------------------------------------------------------
(* Properties *)

\* Every variable keeps its type: pushState never gets further than two steps
\* past PUSH_FINISH, the redirect countdown never runs past zero, and at most one
\* HTTP request is ever under way.
TypeOK ==
  /\ http \in HttpModes /\ mqtt \in MqttModes
  /\ interval \in UserIntervals \cup (Overrides \cap OverrideRange)
  /\ stored \in UserIntervals \cup (Overrides \cap OverrideRange)
  /\ firstStart \in BOOLEAN
  /\ pushState \in 0 .. FINISH + 2
  /\ pushErrorDelay \in 0 .. ErrorDelay + 1
  /\ pushRetries \in Nat
  /\ pushSensorState \in SensorResults
  /\ pushRedirect \in 0 .. RedirectMax
  /\ led \in 0 .. 4
  /\ timer \in BOOLEAN /\ timeout \in BOOLEAN
  /\ inflight \in 0 .. 1
  /\ client \in {"none", "open", "down"}
  /\ asleep \in BOOLEAN
  /\ sleepTime \in Nat

\* PUSH_HTTPWAIT waits for exactly one thing: either the callback of one
\* request, or the countdown to the next attempt.  With neither the cycle would
\* hang until the timeout; with both, an answer would race the retry.
HttpWaitCovered ==
  pushState = HTTPWAIT /\ timer => (inflight = 1 <=> pushErrorDelay = 0)

\* PUSH_MQTTWAIT never waits for nothing: a client is alive or a retry is
\* counting down.  (With HTTP in use it may: a late answer to the last HTTP
\* attempt can move a cycle on from PUSH_MQTT.)
MqttWaitCovered ==
  pushState = MQTTWAIT /\ http # "on" => client # "none" \/ pushErrorDelay > 0

\* mqttPush initialises mqttClient only when the previous client is deleted:
\* MQTT_InitConnection clears the structure, its armed timer and its
\* connection included, without releasing anything.
ClientNotClobbered ==
  [][pushTimerCb /\ pushState = MQTT /\ mqtt = "on" => client = "none"]_vars

\* The default case of pushTimerCb ("Should not happen") is never taken.
DefaultNotReached == pushState <= FINISH

\* Deep sleep lasts the number of seconds configured, by the user or by a server.
SleepsForInterval == [][asleep' /\ ~asleep => sleepTime' = interval * 15625]_vars

\* By itself, without the timeout, a cycle that lost its HTTP request comes to
\* the next attempt: no outcome of a request leaves it waiting for nothing.
HttpRetryHappens == (pushState = HTTPWAIT /\ inflight = 0) ~> (pushState = HTTP \/ asleep)

\* The same for a lost MQTT client, where HTTP is not in use.
MqttRetryHappens ==
  (pushState = MQTTWAIT /\ client = "none" /\ http # "on") ~> (pushState = MQTT \/ asleep)

\* However sensors, network and servers behave, the device gets to sleep, by
\* the timeout if by nothing else.
AlwaysSleepsAgain == WF_vars(pushTimeoutCb) /\ WF_vars(Wake) => []<>asleep

\* The cycle implements the phases of PushCycle.
PhaseAt(s) ==
  CASE s <= INIT                     -> "start"
    [] s = READ                      -> "read"
    [] s = IPWAIT                    -> "net"
    [] s \in HTTPSTART .. HTTPWAIT   -> "http"
    [] s \in MQTTSTART .. MQTTWAIT   -> "mqtt"
    [] s >= FINISH                   -> "done"

Phase == IF asleep THEN "asleep" ELSE IF timer THEN PhaseAt(pushState) ELSE "done"

Abstract == INSTANCE PushCycle WITH
  phase <- Phase, request <- (inflight > 0), session <- (client # "none")

RefinesCycle == Abstract!Spec
=============================================================================
