------------------------------ MODULE Sensors ------------------------------
(***************************************************************************)
(* user/sensors.c: the table of known sensors, which of them deliver the   *)
(* three values, and the two callers of sensorsRead: the READ state of the *)
(* push cycle, every 500 ms, and the web page, whenever somebody looks.    *)
(*                                                                         *)
(* What a driver returns is left open here (module SensorDrivers has the   *)
(* drivers); DHT22 is pending for its first two seconds.  Time counts in   *)
(* calls of pushTimerCb, the timers of 2 s and 5 s in multiples of that.   *)
(***************************************************************************)
EXTENDS Integers, FiniteSets

CONSTANTS
  DhtDelay,    \* DHT22_READ_DELAY_MS in ticks
  ReadLimit,   \* the five seconds of limitTimer in ticks
  ReadMax      \* PUSH_READ_MAX

ASSUME TicksAssumption ==
  /\ DhtDelay \in Nat \ {0} /\ ReadLimit \in Nat \ {0} /\ ReadMax \in Nat \ {0}

\* Two seconds are four calls, less than the five failures that end READ.
ASSUME DelayAssumption == DhtDelay <= ReadMax

\* The table, in its order.
sensors == <<"SHT3x", "BMx280", "SHT1x", "DHT22", "MS5637", "BMP180">>

Index == DOMAIN sensors

DHT22 == 4

Values == 1 .. 3   \* temperature, humidity, pressure

VARIABLES
  status,           \* sensor_status
  humidityType,     \* bmx280.sensor_type: it is a BME280, with humidity
  dhtDelay,         \* until dht22TimerCb, 0: dht22delay is reset
  readLimit,        \* until readLimitCb, 0: read_limit is reset
  pushState,        \* "off" (configuration mode), "read", "done"
  pushSensorState, pushRetries,
  pushDue,          \* pushTimerCb has to run before time goes on
  age,              \* ticks since the values of a sensor in state "ok" were read
  reading           \* ticks the READ state has lasted

vars == <<status, humidityType, dhtDelay, readLimit, pushState, pushSensorState, pushRetries,
          pushDue, age, reading>>

AgeMax == 2 * ReadLimit - 1   \* where age stops counting

-----------------------------------------------------------------------------
(* The table *)

\* The rows with a pointer for temperature, humidity and pressure.
Delivers == <<Index, 1 .. 4, {2, 5, 6}>>

sensorUseable(i, v) ==
  /\ status[i] # "nosensor"
  /\ i \in Delivers[v]
  /\ i = 2 /\ v = 2 => humidityType

\* The rows a value is taken from, and the first of them, 0 if there is none.
Useable(v) == {i \in Index : sensorUseable(i, v)}

FirstOf(rows) == IF rows = {} THEN 0 ELSE CHOOSE i \in rows : \A j \in rows : i <= j

\* temperatureToString, humidityToString, pressureToString: the row shown.
Shown(v) == FirstOf({i \in Useable(v) : status[i] = "ok"})

\* SHT3x, BMx280 and so on answer or do not; BMx280 and BMP180 have the same
\* address and are told apart by their chip id; nothing can be said of DHT22.
sensorsInit ==
  /\ \E found \in SUBSET (Index \ {DHT22}) :
       /\ ~({2, 6} \subseteq found)
       /\ status = [i \in Index |-> IF i \in found \cup {DHT22} THEN "found" ELSE "nosensor"]
  /\ humidityType \in BOOLEAN
  /\ humidityType => status[2] = "found"
  /\ dhtDelay = DhtDelay

Init ==
  /\ sensorsInit
  /\ readLimit = 0
  /\ pushState \in {"off", "read"}
  /\ pushSensorState = "ok" /\ pushRetries = 0
  /\ pushDue = FALSE
  /\ age = [i \in Index |-> 0]
  /\ reading = 0

-----------------------------------------------------------------------------
(* Reading *)

\* DHT22 is pending until its delay has passed.
Starting == IF dhtDelay > 0 THEN {DHT22} ELSE {}

Reset_KeepsPending(first_read) ==
  [i \in Index |->
     IF \/ first_read /\ status[i] \in {"failed", "ok", "pending"}
        \/ ~first_read /\ status[i] = "failed"
       THEN "found" ELSE status[i]]

Reset_KeepsOk(first_read) ==
  [i \in Index |-> IF status[i] \in {"failed", "pending"} THEN "found" ELSE status[i]]

\* A first reading takes all sensors anew, a second one those that failed or
\* are pending.
Reset(first_read) ==
  [i \in Index |->
     IF \/ first_read /\ status[i] \in {"failed", "ok", "pending"}
        \/ ~first_read /\ status[i] \in {"failed", "pending"}
       THEN "found" ELSE status[i]]

\* The row each value is taken from.
Rows == <<FirstOf(Useable(1)), FirstOf(Useable(2)), FirstOf(Useable(3))>>

\* The value for which a row is read: it is not read again for a later one.
ReadFor(row, i) == CHOOSE v \in Values : row[v] = i /\ \A w \in 1 .. v - 1 : row[w] # i

\* The rows that are read: for each value the first useable one, unless it was
\* read before; there is no second choice.
ReadNow(first_read) ==
  {i \in {Rows[1], Rows[2], Rows[3]} \ {0} : Reset(first_read)[i] = "found"}

\* The last bad result is the one returned.
ReadRows(row, before, read, return) ==
  \E failing \in SUBSET (read \ Starting) :
    LET bad    == failing \cup (read \cap Starting)
        got(i) == IF i \in Starting THEN "pending" ELSE IF i \in failing THEN "failed" ELSE "ok"
    IN /\ IF bad = {} THEN return = "ok"
          ELSE \E i \in bad : (\A j \in bad : ReadFor(row, j) <= ReadFor(row, i)) /\ return = got(i)
       /\ status' = [i \in Index |-> IF i \in read THEN got(i) ELSE before[i]]
       /\ age' = [i \in Index |-> IF i \in read \/ before[i] # "ok" THEN 0 ELSE age[i]]

ReadAll(first_read, return) ==
  \E row \in {Rows}, before \in {Reset(first_read)}, read \in {ReadNow(first_read)} :
    ReadRows(row, before, read, return)

\* A first reading within five seconds of the last one is put off: it returns 1.
sensorsRead(first_read, return) ==
  IF first_read /\ readLimit > 0
    THEN return = "pending" /\ UNCHANGED <<status, age, readLimit>>
    ELSE /\ ReadAll(first_read, return)
         /\ readLimit' = IF first_read THEN ReadLimit ELSE readLimit

TickRead_AlwaysFirst ==
  /\ pushState = "read" /\ pushDue
  /\ pushDue' = FALSE
  /\ reading' = reading + 1
  /\ \E return \in {"ok", "failed", "pending"} :
       /\ sensorsRead(TRUE, return)
       /\ pushSensorState' = return
       /\ pushRetries' = IF return = "failed" THEN pushRetries + 1 ELSE pushRetries
       /\ pushState' = IF return = "ok" \/ pushRetries' >= ReadMax THEN "done" ELSE "read"
  /\ UNCHANGED <<humidityType, dhtDelay>>

\* pushTimerCb in state READ: after five failed readings it goes on anyway.
TickRead ==
  /\ pushState = "read" /\ pushDue
  /\ pushDue' = FALSE
  /\ reading' = reading + 1
  /\ \E return \in {"ok", "failed", "pending"} :
       /\ sensorsRead(~(pushSensorState = "pending" \/ pushRetries > 0), return)
       /\ pushSensorState' = return
       /\ pushRetries' = IF return = "failed" THEN pushRetries + 1 ELSE pushRetries
       /\ pushState' = IF return = "ok" \/ pushRetries' >= ReadMax THEN "done" ELSE "read"
  /\ UNCHANGED <<humidityType, dhtDelay>>

\* Somebody looks at the page; the result is not looked at.
cgiSensor ==
  /\ \E return \in {"ok", "failed", "pending"} : sensorsRead(TRUE, return)
  /\ UNCHANGED <<humidityType, dhtDelay, pushState, pushSensorState, pushRetries, pushDue,
                 reading>>

\* 500 ms pass; dht22TimerCb and readLimitCb run when they are due.
Tick ==
  /\ ~pushDue
  /\ pushDue' = (pushState = "read")
  /\ dhtDelay' = IF dhtDelay > 0 THEN dhtDelay - 1 ELSE 0
  /\ readLimit' = IF readLimit > 0 THEN readLimit - 1 ELSE 0
  /\ age' = [i \in Index |-> IF status[i] = "ok" /\ age[i] < AgeMax THEN age[i] + 1 ELSE age[i]]
  /\ UNCHANGED <<status, humidityType, pushState, pushSensorState, pushRetries, reading>>

Next == TickRead \/ cgiSensor \/ Tick

Spec == Init /\ [][Next]_vars

-----------------------------------------------------------------------------
(* Properties *)

TypeOK ==
  /\ status \in [Index -> {"nosensor", "found", "failed", "ok", "pending"}]
  /\ humidityType \in BOOLEAN
  /\ dhtDelay \in 0 .. DhtDelay /\ readLimit \in 0 .. ReadLimit
  /\ pushState \in {"off", "read", "done"}
  /\ pushSensorState \in {"ok", "failed", "pending"} /\ pushRetries \in 0 .. ReadMax
  /\ pushDue \in BOOLEAN
  /\ age \in [Index -> 0 .. AgeMax]
  /\ reading \in Nat

\* The push cycle leaves its READ state in time, though neither a pending
\* sensor nor a reading that was put off counts as a failure, and though the
\* web page resets the sensors' states under way.
ReadIsShort == reading <= DhtDelay + ReadMax

\* When the cycle leaves READ, every value that some sensor can deliver is
\* there, from the sensor the table prefers, or five readings have failed.
OkMeansAllRead ==
  [][pushState' # pushState /\ pushRetries' < ReadMax =>
       \A v \in Values : Useable(v) # {} => Shown(v)' = FirstOf(Useable(v))]_vars

\* A cycle never goes on without the values of a DHT22 that has not been asked
\* yet: five failures of another sensor take longer than its start delay.
NotGivenUpEarly ==
  pushState = "done" => \A v \in Values : FirstOf(Useable(v)) = DHT22 => dhtDelay = 0

\* The push cycle waits for its sensors long enough, and no longer.
ReadTimely == ReadIsShort /\ NotGivenUpEarly

\* What the page shows without a new reading is not older than five seconds, and
\* the push cycle leaves READ with values read since then or within that time
\* before it came to READ.
RecentValues ==
  [][\A v \in Values : Shown(v)' # 0 =>
       /\ readLimit' > 0 => age'[Shown(v)'] + readLimit' <= ReadLimit
       /\ pushState = "read" /\ pushState' = "done" => age'[Shown(v)'] < ReadLimit + reading']_vars
=============================================================================
