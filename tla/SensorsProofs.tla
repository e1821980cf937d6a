--------------------------- MODULE SensorsProofs ---------------------------
(***************************************************************************)
(* Proofs about Sensors for every start delay of DHT22, every read limit   *)
(* and every number of retries, as long as the delay is not longer than    *)
(* the retries last.                                                       *)
(***************************************************************************)
EXTENDS Sensors, TLAPS

States == {"nosensor", "found", "failed", "ok", "pending"}
Returns == {"ok", "failed", "pending"}

-----------------------------------------------------------------------------
(* The table *)

LEMMA SixSensors == Index = 1 .. 6
  BY DEF Index, sensors

\* FirstOf finds the least row of a set that is not empty.
LEMMA FirstOfIsLeast ==
  ASSUME NEW rows, rows \subseteq Index, rows # {}
  PROVE  FirstOf(rows) \in rows /\ \A j \in rows : FirstOf(rows) <= j
<1>1. \E i \in rows : \A j \in rows : i <= j
  <2>1. \A i \in rows : i \in 1 .. 6
    BY SixSensors
  <2>2. CASE \E i \in {1, 2, 3} : i \in rows
    <3>1. CASE 1 \in rows
      BY <2>1, <3>1
    <3>2. CASE 1 \notin rows /\ 2 \in rows
      BY <2>1, <3>2
    <3> QED
      BY <2>1, <2>2, <3>1, <3>2
  <2>3. CASE \A i \in {1, 2, 3} : i \notin rows
    <3>1. \A i \in rows : i \in 4 .. 6
      BY <2>1, <2>3
    <3>2. CASE 4 \in rows
      BY <3>1, <3>2
    <3>3. CASE 4 \notin rows /\ 5 \in rows
      BY <3>1, <3>3
    <3>4. CASE 4 \notin rows /\ 5 \notin rows
      BY <3>1, <3>4
    <3> QED
      BY <3>2, <3>3, <3>4
  <2> QED
    BY <2>2, <2>3
<1> QED
  BY <1>1 DEF FirstOf

\* A subset that still has the least row has the same first row.
LEMMA FirstOfSubset ==
  ASSUME NEW rows, rows \subseteq Index, NEW less, less \subseteq rows, FirstOf(rows) \in less
  PROVE  FirstOf(less) = FirstOf(rows)
<1>1. rows # {} /\ less # {} /\ less \subseteq Index
  OBVIOUS
<1>2. FirstOf(less) \in less /\ \A j \in less : FirstOf(less) <= j
  BY <1>1, FirstOfIsLeast
<1>3. \A j \in rows : FirstOf(rows) <= j
  BY <1>1, FirstOfIsLeast
<1>4. FirstOf(less) \in 1 .. 6 /\ FirstOf(rows) \in 1 .. 6
  BY <1>1, <1>2, SixSensors
<1>5. FirstOf(less) <= FirstOf(rows) /\ FirstOf(rows) <= FirstOf(less)
  BY <1>2, <1>3
<1> QED
  BY <1>4, <1>5

-----------------------------------------------------------------------------
(* What one reading does *)

\* What a reading writes: the answers of the rows read, the reset states of the rest.
LEMMA ReadAllGives ==
  ASSUME NEW first_read \in BOOLEAN, NEW return, ReadAll(first_read, return)
  PROVE  \E got \in [ReadNow(first_read) -> Returns] :
           /\ \A i \in ReadNow(first_read) : got[i] = "pending" <=> i \in Starting
           /\ status' = [i \in Index |-> IF i \in ReadNow(first_read) THEN got[i]
                                         ELSE Reset(first_read)[i]]
           /\ age' = [i \in Index |-> IF i \in ReadNow(first_read) \/ Reset(first_read)[i] # "ok"
                                      THEN 0 ELSE age[i]]
           /\ IF return = "ok" THEN \A i \in ReadNow(first_read) : got[i] = "ok"
              ELSE \E i \in ReadNow(first_read) : return = got[i]
<1> DEFINE read == ReadNow(first_read)
           before == Reset(first_read)
           answer(failing, i) ==
             IF i \in Starting THEN "pending" ELSE IF i \in failing THEN "failed" ELSE "ok"
<1>1. PICK failing \in SUBSET (read \ Starting) :
        /\ status' = [i \in Index |-> IF i \in read THEN answer(failing, i) ELSE before[i]]
        /\ age' = [i \in Index |-> IF i \in read \/ before[i] # "ok" THEN 0 ELSE age[i]]
        /\ IF failing \cup (read \cap Starting) = {} THEN return = "ok"
           ELSE \E i \in failing \cup (read \cap Starting) : return = answer(failing, i)
  <2>1. ReadRows(Rows, before, read, return)
    BY DEF ReadAll
  <2> QED
    BY <2>1, Zenon DEF ReadRows
<1> DEFINE got == [i \in read |-> answer(failing, i)]
<1>2. got \in [read -> Returns] /\ \A i \in read : got[i] = "pending" <=> i \in Starting
  BY DEF Returns
<1>3. status' = [i \in Index |-> IF i \in read THEN got[i] ELSE before[i]]
  BY <1>1
<1>4. IF return = "ok" THEN \A i \in read : got[i] = "ok" ELSE \E i \in read : return = got[i]
  BY <1>1
<1> QED
  BY <1>1, <1>2, <1>3, <1>4

\* Nothing that is not there is read, and nothing else is lost or found.
LEMMA ReadKeepsFound ==
  ASSUME TypeOK, NEW first_read \in BOOLEAN, NEW return, ReadAll(first_read, return)
  PROVE  /\ status' \in [Index -> States]
         /\ age' \in [Index -> 0 .. AgeMax]
         /\ \A i \in Index : status'[i] = "nosensor" <=> status[i] = "nosensor"
<1> DEFINE read == ReadNow(first_read)
           before == Reset(first_read)
<1>1. PICK got \in [read -> Returns] :
        /\ status' = [i \in Index |-> IF i \in read THEN got[i] ELSE before[i]]
        /\ age' = [i \in Index |-> IF i \in read \/ before[i] # "ok" THEN 0 ELSE age[i]]
  BY ReadAllGives
<1>2. before \in [Index -> States] /\ \A i \in Index : before[i] = "nosensor" <=> status[i] = "nosensor"
  BY DEF Reset, TypeOK, States
<1>3. \A i \in read : before[i] = "found" /\ got[i] \in Returns
  BY DEF ReadNow
<1>4. 0 \in 0 .. AgeMax /\ age \in [Index -> 0 .. AgeMax]
  BY TicksAssumption DEF TypeOK, AgeMax
<1> QED
  BY <1>1, <1>2, <1>3, <1>4 DEF Returns, States

\* Only DHT22 is ever pending, during its start delay, and it answers after it.
LEMMA OnlyDhtIsPending ==
  ASSUME TypeOK, NEW first_read \in BOOLEAN, NEW return, ReadAll(first_read, return),
         status[DHT22] \in {"ok", "failed"} => dhtDelay = 0
  PROVE  /\ return \in Returns
         /\ return = "pending" => dhtDelay > 0
         /\ status'[DHT22] \in {"ok", "failed"} => dhtDelay = 0
<1> DEFINE read == ReadNow(first_read)
           before == Reset(first_read)
<1>1. PICK got \in [read -> Returns] :
        /\ \A i \in read : got[i] = "pending" <=> i \in Starting
        /\ status' = [i \in Index |-> IF i \in read THEN got[i] ELSE before[i]]
        /\ return = "ok" \/ \E i \in read : return = got[i]
  BY ReadAllGives
<1>2. return \in Returns
  BY <1>1 DEF Returns
<1>3. \A i \in read : got[i] = "pending" => dhtDelay > 0
  BY <1>1 DEF Starting
<1>4. ASSUME status'[DHT22] \in {"ok", "failed"} PROVE dhtDelay = 0
  <2>1. DHT22 \in Index /\ dhtDelay \in Nat
    BY SixSensors, TicksAssumption DEF DHT22, TypeOK
  <2>2. CASE DHT22 \in read
    <3>1. DHT22 \notin Starting
      BY <1>1, <1>4, <2>1, <2>2
    <3> QED
      BY <3>1, <2>1 DEF Starting
  <2>3. CASE DHT22 \notin read
    <3>1. before[DHT22] \in {"ok", "failed"}
      BY <1>1, <1>4, <2>1, <2>3
    <3>2. before[DHT22] = status[DHT22]
      BY <3>1, <2>1 DEF Reset
    <3> QED
      BY <3>1, <3>2
  <2> QED
    BY <2>2, <2>3
<1> QED
  BY <1>1, <1>2, <1>3, <1>4

\* A reading that returns OK leaves the first useable row of each value read.
LEMMA OkReadsAll ==
  ASSUME TypeOK, NEW first_read \in BOOLEAN, ReadAll(first_read, "ok"),
         NEW v \in Values, Useable(v) # {}
  PROVE  FirstOf(Useable(v)) \in Useable(v) /\ status'[FirstOf(Useable(v))] = "ok"
<1> DEFINE read == ReadNow(first_read)
           before == Reset(first_read)
           r == FirstOf(Useable(v))
<1>1. Useable(v) \subseteq Index
  BY DEF Useable
<1>2. r \in Useable(v) /\ r \in Index
  BY <1>1, FirstOfIsLeast
<1>3. PICK got \in [read -> Returns] :
        /\ status' = [i \in Index |-> IF i \in read THEN got[i] ELSE before[i]]
        /\ \A i \in read : got[i] = "ok"
  BY ReadAllGives
<1>4. CASE r \in read
  BY <1>2, <1>3, <1>4
<1>5. CASE r \notin read
  <2>1. r # 0 /\ r \in {Rows[1], Rows[2], Rows[3]}
    BY <1>2, SixSensors DEF Rows, Values
  <2>2. before[r] # "found"
    BY <1>5, <2>1 DEF ReadNow
  <2>3. status[r] # "nosensor" /\ status[r] \in States
    BY <1>2 DEF Useable, sensorUseable, TypeOK, States
  <2>4. before[r] = "ok"
    BY <1>2, <2>2, <2>3 DEF Reset, States
  <2> QED
    BY <1>2, <1>3, <1>5, <2>4
<1> QED
  BY <1>2, <1>4, <1>5

-----------------------------------------------------------------------------
(* The READ state *)

\* DHT22's delay passes between the readings: it is over when so many readings
\* have been made, the one that is due counted in.
DelayPasses == dhtDelay = 0 \/ dhtDelay + reading + (IF pushDue THEN 1 ELSE 0) <= DhtDelay

\* Only a reading that is not the first may be pending for DHT22's sake, and
\* only the first is put off: no more readings than the delay are not counted.
CountedOrPending ==
  /\ pushState = "read" => /\ pushRetries < ReadMax
                           /\ reading <= pushRetries + DhtDelay
                           /\ reading > 0 => pushSensorState = "pending" \/ pushRetries > 0
  /\ pushState = "off" => ~pushDue
  /\ pushRetries <= reading

DhtAnswersLate == status[DHT22] \in {"ok", "failed"} => dhtDelay = 0

IInv ==
  /\ TypeOK /\ DelayPasses /\ CountedOrPending /\ DhtAnswersLate
  /\ ReadIsShort /\ NotGivenUpEarly

LEMMA InitIInv == Init => IInv
<1> SUFFICES ASSUME Init PROVE IInv
  OBVIOUS
<1>1. DhtDelay \in Nat \ {0} /\ ReadLimit \in Nat \ {0} /\ ReadMax \in Nat \ {0} /\ 0 \in 0 .. AgeMax
  BY TicksAssumption DEF AgeMax
<1>2. DHT22 \in Index /\ status \in [Index -> {"nosensor", "found"}]
  BY SixSensors DEF Init, sensorsInit, DHT22
<1>3. TypeOK
  <2>1. status \in [Index -> States]
    BY <1>2 DEF States
  <2>2. dhtDelay \in 0 .. DhtDelay /\ readLimit \in 0 .. ReadLimit /\ pushRetries \in 0 .. ReadMax
    BY <1>1 DEF Init, sensorsInit
  <2>3. age \in [Index -> 0 .. AgeMax] /\ reading \in Nat /\ pushDue \in BOOLEAN
    BY <1>1 DEF Init
  <2>4. humidityType \in BOOLEAN
    BY DEF Init, sensorsInit
  <2>5. pushState \in {"off", "read", "done"} /\ pushSensorState \in {"ok", "failed", "pending"}
    BY DEF Init
  <2> QED
    BY <2>1, <2>2, <2>3, <2>4, <2>5 DEF TypeOK, States
<1>4. DelayPasses /\ CountedOrPending /\ DhtAnswersLate
  BY <1>1, <1>2 DEF Init, sensorsInit, DelayPasses, CountedOrPending, DhtAnswersLate
<1>5. ReadIsShort /\ NotGivenUpEarly
  BY <1>1 DEF Init, ReadIsShort, NotGivenUpEarly
<1> QED
  BY <1>3, <1>4, <1>5 DEF IInv

\* What a caller of sensorsRead may rely on.
LEMMA ReadStep ==
  ASSUME IInv, NEW first_read \in BOOLEAN, NEW return, sensorsRead(first_read, return),
         UNCHANGED dhtDelay
  PROVE  /\ status' \in [Index -> States] /\ age' \in [Index -> 0 .. AgeMax]
         /\ readLimit' \in 0 .. ReadLimit
         /\ \A i \in Index : status'[i] = "nosensor" <=> status[i] = "nosensor"
         /\ DhtAnswersLate'
         /\ return \in Returns
         /\ return = "pending" => first_read \/ dhtDelay > 0
<1>1. CASE first_read /\ readLimit > 0
  <2>1. return = "pending" /\ UNCHANGED <<status, age, readLimit>>
    BY <1>1 DEF sensorsRead
  <2> QED
    BY <1>1, <2>1 DEF IInv, TypeOK, States, Returns, DhtAnswersLate
<1>2. CASE ~(first_read /\ readLimit > 0)
  <2>1. ReadAll(first_read, return) /\ readLimit' = IF first_read THEN ReadLimit ELSE readLimit
    BY <1>2 DEF sensorsRead
  <2>2. readLimit' \in 0 .. ReadLimit
    BY <2>1, TicksAssumption DEF IInv, TypeOK
  <2>3. TypeOK /\ (status[DHT22] \in {"ok", "failed"} => dhtDelay = 0)
    BY DEF IInv, DhtAnswersLate
  <2>4. /\ status' \in [Index -> States] /\ age' \in [Index -> 0 .. AgeMax]
        /\ \A i \in Index : status'[i] = "nosensor" <=> status[i] = "nosensor"
    BY <2>1, <2>3, ReadKeepsFound
  <2>5. return \in Returns /\ (return = "pending" => dhtDelay > 0)
        /\ (status'[DHT22] \in {"ok", "failed"} => dhtDelay = 0)
    BY <2>1, <2>3, OnlyDhtIsPending
  <2> QED
    BY <2>2, <2>4, <2>5 DEF DhtAnswersLate
<1> QED
  BY <1>1, <1>2

\* A sensor that was found stays so: the rows of a value do not change.
LEMMA SameRows ==
  ASSUME \A i \in Index : status'[i] = "nosensor" <=> status[i] = "nosensor",
         UNCHANGED humidityType, NEW v
  PROVE  Useable(v)' = Useable(v)
  BY DEF Useable, sensorUseable

LEMMA PageStep ==
  ASSUME IInv, cgiSensor
  PROVE  IInv'
<1>1. PICK return : sensorsRead(TRUE, return)
  BY DEF cgiSensor
<1>2. UNCHANGED <<humidityType, dhtDelay, pushState, pushSensorState, pushRetries, pushDue, reading>>
  BY DEF cgiSensor
<1>3. /\ status' \in [Index -> States] /\ age' \in [Index -> 0 .. AgeMax]
      /\ readLimit' \in 0 .. ReadLimit
      /\ \A i \in Index : status'[i] = "nosensor" <=> status[i] = "nosensor"
      /\ DhtAnswersLate'
  BY <1>1, <1>2, ReadStep
<1>4. \A v : Useable(v)' = Useable(v)
  BY <1>2, <1>3, SameRows
<1>5. TypeOK'
  BY <1>2, <1>3 DEF IInv, TypeOK, States
<1>6. NotGivenUpEarly'
  BY <1>2, <1>4 DEF IInv, NotGivenUpEarly, FirstOf
<1> QED
  BY <1>2, <1>3, <1>5, <1>6 DEF IInv, DelayPasses, CountedOrPending, ReadIsShort

LEMMA TickStep ==
  ASSUME IInv, Tick
  PROVE  IInv'
<1> USE TicksAssumption
<1>1. UNCHANGED <<status, humidityType, pushState, pushSensorState, pushRetries, reading>>
  BY DEF Tick
<1>2. dhtDelay \in 0 .. DhtDelay /\ reading \in Nat
  BY DEF IInv, TypeOK
<1>3. dhtDelay' = IF dhtDelay > 0 THEN dhtDelay - 1 ELSE 0
  BY DEF Tick
<1>4. TypeOK'
  <2>1. readLimit' \in 0 .. ReadLimit
    BY DEF IInv, TypeOK, Tick
  <2>2. age' \in [Index -> 0 .. AgeMax]
    BY DEF IInv, TypeOK, Tick, AgeMax
  <2>3. dhtDelay' \in 0 .. DhtDelay /\ pushDue' \in BOOLEAN
    BY <1>2, <1>3 DEF Tick
  <2> QED
    BY <1>1, <2>1, <2>2, <2>3 DEF IInv, TypeOK
<1>5. DelayPasses'
  <2>1. ~pushDue
    BY DEF Tick
  <2> QED
    BY <1>1, <1>2, <1>3, <2>1 DEF IInv, DelayPasses
<1>6. CountedOrPending'
  BY <1>1 DEF IInv, CountedOrPending, Tick
<1>7. DhtAnswersLate'
  BY <1>1, <1>3 DEF IInv, DhtAnswersLate
<1>8. \A v : Useable(v)' = Useable(v)
  BY <1>1, SameRows
<1>9. NotGivenUpEarly'
  BY <1>1, <1>3, <1>8 DEF IInv, NotGivenUpEarly, FirstOf
<1> QED
  BY <1>1, <1>4, <1>5, <1>6, <1>7, <1>9 DEF IInv, ReadIsShort

\* READ ends with all values or after so many failures: by then DHT22's delay is
\* over, if one of the values is taken from it.
LEMMA ReadingStep ==
  ASSUME IInv, TickRead
  PROVE  IInv'
<1> USE TicksAssumption
<1> DEFINE first == ~(pushSensorState = "pending" \/ pushRetries > 0)
<1>1. PICK return \in Returns :
        /\ sensorsRead(first, return)
        /\ pushSensorState' = return
        /\ pushRetries' = IF return = "failed" THEN pushRetries + 1 ELSE pushRetries
        /\ pushState' = IF return = "ok" \/ pushRetries' >= ReadMax THEN "done" ELSE "read"
  BY DEF TickRead, Returns
<1>2. /\ pushState = "read" /\ pushDue /\ pushDue' = FALSE /\ reading' = reading + 1
      /\ UNCHANGED <<humidityType, dhtDelay>>
  BY DEF TickRead
<1>3. first \in BOOLEAN
  OBVIOUS
<1>4. /\ status' \in [Index -> States] /\ age' \in [Index -> 0 .. AgeMax]
      /\ readLimit' \in 0 .. ReadLimit
      /\ \A i \in Index : status'[i] = "nosensor" <=> status[i] = "nosensor"
      /\ DhtAnswersLate'
      /\ return = "pending" => first \/ dhtDelay > 0
  BY <1>1, <1>2, <1>3, ReadStep
<1>5. /\ reading \in Nat /\ pushRetries \in Nat /\ dhtDelay \in Nat
      /\ pushRetries < ReadMax /\ pushRetries <= reading
      /\ reading <= pushRetries + DhtDelay
      /\ dhtDelay = 0 \/ dhtDelay + reading + 1 <= DhtDelay
  BY <1>2 DEF IInv, TypeOK, CountedOrPending, DelayPasses
<1>6. TypeOK'
  <2>1. pushRetries' \in 0 .. ReadMax /\ reading' \in Nat /\ pushState' \in {"read", "done"}
    BY <1>1, <1>2, <1>5
  <2> QED
    BY <1>1, <1>2, <1>4, <2>1 DEF IInv, TypeOK, States, Returns
<1>7. DelayPasses'
  BY <1>2, <1>5 DEF DelayPasses
<1>8. first => reading = 0
  BY <1>2, <1>5 DEF IInv, CountedOrPending
<1>9. CountedOrPending'
  <2>1. CASE return = "ok"
    BY <1>1, <1>2, <1>5, <2>1 DEF CountedOrPending
  <2>2. CASE return = "failed"
    BY <1>1, <1>2, <1>5, <2>2 DEF CountedOrPending
  <2>3. CASE return = "pending"
    <3>1. reading + 1 <= pushRetries + DhtDelay
      BY <1>4, <1>5, <1>8, <2>3
    <3> QED
      BY <1>1, <1>2, <1>5, <2>3, <3>1 DEF CountedOrPending
  <2> QED
    BY <1>1, <2>1, <2>2, <2>3 DEF Returns
<1>10. ReadIsShort'
  BY <1>2, <1>5 DEF ReadIsShort
<1>11. NotGivenUpEarly'
  <2> SUFFICES ASSUME pushState' = "done", NEW v \in Values, FirstOf(Useable(v))' = DHT22
               PROVE  dhtDelay' = 0
    BY DEF NotGivenUpEarly
  <2>1. Useable(v)' = Useable(v)
    BY <1>2, <1>4, SameRows
  <2>2. FirstOf(Useable(v)) = DHT22
    BY <2>1 DEF FirstOf
  <2>3. CASE return = "ok"
    <3>1. Useable(v) # {}
      BY <2>2, SixSensors DEF FirstOf, DHT22
    <3>2. ReadAll(first, "ok")
      BY <1>1, <2>3 DEF sensorsRead
    <3>3. status'[DHT22] = "ok"
      BY <1>3, <2>2, <3>1, <3>2, OkReadsAll DEF IInv
    <3> QED
      BY <1>2, <1>4, <3>3 DEF DhtAnswersLate
  <2>4. CASE return # "ok"
    <3>1. pushRetries' = pushRetries + 1 /\ pushRetries + 1 >= ReadMax
      BY <1>1, <1>5, <2>4
    <3> QED
      BY <1>2, <1>5, <3>1, DelayAssumption
  <2> QED
    BY <2>3, <2>4
<1> QED
  BY <1>4, <1>6, <1>7, <1>9, <1>10, <1>11 DEF IInv

LEMMA Unchanged ==
  ASSUME IInv, UNCHANGED vars
  PROVE  IInv'
<1>1. UNCHANGED <<status, humidityType, dhtDelay, readLimit, pushState, pushSensorState,
                  pushRetries, pushDue, age, reading>>
  BY DEF vars
<1>2. \A v : Useable(v)' = Useable(v)
  BY <1>1, SameRows
<1>3. TypeOK' /\ DelayPasses' /\ CountedOrPending' /\ DhtAnswersLate' /\ ReadIsShort'
  BY <1>1 DEF IInv, TypeOK, DelayPasses, CountedOrPending, DhtAnswersLate, ReadIsShort
<1>4. NotGivenUpEarly'
  BY <1>1, <1>2 DEF IInv, NotGivenUpEarly, FirstOf
<1> QED
  BY <1>3, <1>4 DEF IInv

LEMMA Invariance == Spec => []IInv
<1>1. IInv /\ [Next]_vars => IInv'
  BY PageStep, TickStep, ReadingStep, Unchanged DEF Next
<1> QED
  BY <1>1, InitIInv, PTL DEF Spec

\* Every variable of sensors.c and of its callers keeps its type; the retries of
\* the push cycle stay within PUSH_READ_MAX.
THEOREM TypeCorrect == Spec => []TypeOK
  BY Invariance, PTL DEF IInv

\* READ lasts no longer than DHT22's delay and five failures, whatever fails, is
\* pending or is put off, and no shorter than a DHT22 it needs takes to answer.
THEOREM ReadAlwaysTimely == Spec => []ReadTimely
  BY Invariance, PTL DEF IInv, ReadTimely

\* A cycle that leaves READ with less than five failures has every value that
\* some sensor delivers, from the first one in the table.
THEOREM OkIsComplete == Spec => OkMeansAllRead
<1> DEFINE A == pushState' # pushState /\ pushRetries' < ReadMax =>
                  \A v \in Values : Useable(v) # {} => Shown(v)' = FirstOf(Useable(v))
<1>1. IInv /\ [Next]_vars => [A]_vars
  <2> SUFFICES ASSUME IInv, Next, pushState' # pushState, pushRetries' < ReadMax,
                      NEW v \in Values, Useable(v) # {}
               PROVE  Shown(v)' = FirstOf(Useable(v))
    OBVIOUS
  <2>1. TickRead
    BY DEF Next, cgiSensor, Tick
  <2>2. PICK first \in BOOLEAN : sensorsRead(first, "ok")
    <3>1. PICK return \in Returns :
            /\ sensorsRead(~(pushSensorState = "pending" \/ pushRetries > 0), return)
            /\ pushState' = IF return = "ok" \/ pushRetries' >= ReadMax THEN "done" ELSE "read"
      BY <2>1 DEF TickRead, Returns
    <3>2. pushState = "read" /\ pushRetries' \in Nat
      BY <2>1, ReadingStep DEF TickRead, IInv, TypeOK
    <3>3. return = "ok"
      BY <3>1, <3>2, TicksAssumption
    <3> QED
      BY <3>1, <3>3
  <2>3. UNCHANGED <<humidityType, dhtDelay>>
    BY <2>1 DEF TickRead
  <2>4. \A i \in Index : status'[i] = "nosensor" <=> status[i] = "nosensor"
    BY <2>2, <2>3, ReadStep
  <2>5. Useable(v)' = Useable(v)
    BY <2>3, <2>4, SameRows
  <2>6. ReadAll(first, "ok")
    BY <2>2 DEF sensorsRead
  <2>7. FirstOf(Useable(v)) \in Useable(v) /\ status'[FirstOf(Useable(v))] = "ok"
    BY <2>6, OkReadsAll DEF IInv
  <2> DEFINE answered == {i \in Useable(v) : status'[i] = "ok"}
  <2>8. Shown(v)' = FirstOf(answered)
    BY <2>5 DEF Shown, FirstOf
  <2>9. Useable(v) \subseteq Index /\ answered \subseteq Useable(v) /\ FirstOf(Useable(v)) \in answered
    BY <2>7 DEF Useable
  <2> QED
    BY <2>8, <2>9, FirstOfSubset
<1> QED
  BY <1>1, Invariance, PTL DEF Spec, OkMeansAllRead
-----------------------------------------------------------------------------
(* The age of the values *)

Due == IF pushDue THEN 1 ELSE 0

\* Within the five seconds of the last first reading a value is not older than
\* that reading, and in its READ state the cycle is as old as its readings.
AgesOK ==
  /\ readLimit > 0 => \A i \in Index : status[i] = "ok" => age[i] + readLimit <= ReadLimit
  /\ pushState = "read" => \A i \in Index : age[i] <= reading + Due

\* A reading makes no value older; a first reading keeps none that it did not read.
LEMMA ReadMakesYounger ==
  ASSUME IInv, NEW first_read \in BOOLEAN, NEW return, sensorsRead(first_read, return)
  PROVE  /\ \A i \in Index : age'[i] = 0 \/ age'[i] = age[i]
         /\ \/ readLimit' = readLimit /\ \A i \in Index : status'[i] = "ok" =>
                                           age'[i] = 0 \/ (status[i] = "ok" /\ age'[i] = age[i])
            \/ readLimit' = ReadLimit /\ \A i \in Index : status'[i] = "ok" => age'[i] = 0
<1>1. CASE first_read /\ readLimit > 0
  BY <1>1 DEF sensorsRead
<1>2. CASE ~(first_read /\ readLimit > 0)
  <2> DEFINE read == ReadNow(first_read)
             before == Reset(first_read)
  <2>1. ReadAll(first_read, return) /\ readLimit' = IF first_read THEN ReadLimit ELSE readLimit
    BY <1>2 DEF sensorsRead
  <2>2. PICK got \in [read -> Returns] :
          /\ status' = [i \in Index |-> IF i \in read THEN got[i] ELSE before[i]]
          /\ age' = [i \in Index |-> IF i \in read \/ before[i] # "ok" THEN 0 ELSE age[i]]
    BY <2>1, ReadAllGives
  <2>3. \A i \in Index : age'[i] = 0 \/ age'[i] = age[i]
    BY <2>2
  <2>4. \A i \in Index : status'[i] = "ok" => i \in read \/ before[i] = "ok"
    BY <2>2
  <2>5. \A i \in Index : before[i] = "ok" => status[i] = "ok" /\ ~first_read
    BY DEF Reset
  <2>6. \A i \in Index : status'[i] = "ok" =>
          age'[i] = 0 \/ (status[i] = "ok" /\ age'[i] = age[i] /\ ~first_read)
    BY <2>2, <2>4, <2>5
  <2> QED
    BY <2>1, <2>3, <2>6
<1> QED
  BY <1>1, <1>2

LEMMA AgesStep ==
  ASSUME IInv, AgesOK, [Next]_vars
  PROVE  AgesOK'
<1> USE TicksAssumption
<1>1. /\ readLimit \in Nat /\ reading \in Nat /\ pushDue \in BOOLEAN
      /\ \A i \in Index : age[i] \in Nat
  BY DEF IInv, TypeOK, AgeMax
<1>2. ASSUME NEW first_read \in BOOLEAN, NEW return, sensorsRead(first_read, return)
      PROVE  /\ readLimit' > 0 =>
                  \A i \in Index : status'[i] = "ok" => age'[i] + readLimit' <= ReadLimit
             /\ pushState = "read" => \A i \in Index : age'[i] <= reading + Due
  <2>1. \A i \in Index : age'[i] = 0 \/ age'[i] = age[i]
    BY <1>2, ReadMakesYounger
  <2>2. CASE readLimit' = ReadLimit /\ \A i \in Index : status'[i] = "ok" => age'[i] = 0
    BY <1>1, <2>1, <2>2 DEF AgesOK, Due
  <2>3. CASE readLimit' = readLimit /\ \A i \in Index : status'[i] = "ok" =>
               age'[i] = 0 \/ (status[i] = "ok" /\ age'[i] = age[i])
    <3>1. readLimit <= ReadLimit
      BY DEF IInv, TypeOK
    <3> QED
      BY <1>1, <2>1, <2>3, <3>1 DEF AgesOK, Due
  <2> QED
    BY <1>2, <2>2, <2>3, ReadMakesYounger
<1>3. CASE TickRead
  <2>1. /\ \E first_read \in BOOLEAN : \E return : sensorsRead(first_read, return)
        /\ pushState = "read" /\ pushDue /\ pushDue' = FALSE /\ reading' = reading + 1
    BY <1>3 DEF TickRead
  <2> QED
    BY <1>1, <1>2, <2>1 DEF AgesOK, Due
<1>4. CASE cgiSensor
  BY <1>2, <1>4 DEF cgiSensor, AgesOK, Due
<1>5. CASE Tick
  <2>1. /\ ~pushDue /\ pushDue' = (pushState = "read")
        /\ readLimit' = IF readLimit > 0 THEN readLimit - 1 ELSE 0
        /\ UNCHANGED <<status, pushState, reading>>
    BY <1>5 DEF Tick
  <2>2. \A i \in Index : /\ age'[i] = age[i] \/ age'[i] = age[i] + 1
    BY <1>5 DEF Tick
  <2>3. readLimit' > 0 => readLimit > 0
    BY <1>1, <2>1
  <2>4. readLimit' > 0 =>
          \A i \in Index : status'[i] = "ok" => age'[i] + readLimit' <= ReadLimit
    BY <1>1, <2>1, <2>2, <2>3 DEF AgesOK
  <2>5. pushState = "read" => \A i \in Index : age'[i] <= reading + 1
    BY <1>1, <2>1, <2>2 DEF AgesOK, Due
  <2> QED
    BY <2>1, <2>4, <2>5 DEF AgesOK, Due
<1>6. CASE UNCHANGED vars
  BY <1>6 DEF vars, AgesOK, Due
<1> QED
  BY <1>3, <1>4, <1>5, <1>6 DEF Next

\* What the page shows without a new reading is at most as old as the five seconds
\* of readLimitCb allow, and what the cycle leaves READ with at most as old as its
\* readings and that, whoever else reads the sensors meanwhile.
THEOREM ValuesAreRecent == Spec => RecentValues
<1> DEFINE A == \A v \in Values : Shown(v)' # 0 =>
       /\ readLimit' > 0 => age'[Shown(v)'] + readLimit' <= ReadLimit
       /\ pushState = "read" /\ pushState' = "done" => age'[Shown(v)'] < ReadLimit + reading'
<1>1. Init => AgesOK
  BY TicksAssumption DEF Init, AgesOK, Due
<1>2. ASSUME IInv, AgesOK, IInv', AgesOK', Next PROVE A
  <2> SUFFICES ASSUME NEW v \in Values, Shown(v)' # 0
               PROVE  /\ readLimit' > 0 => age'[Shown(v)'] + readLimit' <= ReadLimit
                      /\ pushState = "read" /\ pushState' = "done" =>
                           age'[Shown(v)'] < ReadLimit + reading'
    OBVIOUS
  <2> DEFINE answered == {i \in Useable(v)' : status'[i] = "ok"}
  <2>1. Shown(v)' = FirstOf(answered)
    BY DEF Shown, FirstOf
  <2>2. answered \subseteq Index /\ answered # {}
    BY <2>1 DEF Useable, FirstOf
  <2>3. Shown(v)' \in answered /\ Shown(v)' \in Index
    BY <2>1, <2>2, FirstOfIsLeast
  <2>4. readLimit' > 0 => age'[Shown(v)'] + readLimit' <= ReadLimit
    BY <1>2, <2>3 DEF AgesOK
  <2>5. ASSUME pushState = "read", pushState' = "done"
        PROVE  age'[Shown(v)'] < ReadLimit + reading'
    <3>1. TickRead
      BY <1>2, <2>5 DEF Next, cgiSensor, Tick
    <3>2. /\ \E first_read \in BOOLEAN : \E return : sensorsRead(first_read, return)
          /\ pushDue /\ reading' = reading + 1
      BY <3>1 DEF TickRead
    <3>3. age'[Shown(v)'] = 0 \/ age'[Shown(v)'] = age[Shown(v)']
      BY <1>2, <2>3, <3>2, ReadMakesYounger
    <3>4. age[Shown(v)'] \in Nat /\ age[Shown(v)'] <= reading + 1 /\ reading \in Nat
      BY <1>2, <2>3, <2>5, <3>2 DEF AgesOK, Due, IInv, TypeOK, AgeMax
    <3> QED
      BY <3>2, <3>3, <3>4, TicksAssumption
  <2> QED
    BY <2>4, <2>5
<1>3. IInv /\ AgesOK /\ IInv' /\ AgesOK' /\ [Next]_vars => [A]_vars
  BY <1>2
<1>4. IInv /\ AgesOK /\ [Next]_vars => AgesOK'
  BY AgesStep
<1> QED
  BY <1>1, <1>3, <1>4, Invariance, PTL DEF Spec, RecentValues
=============================================================================
