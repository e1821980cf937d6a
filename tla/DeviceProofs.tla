---------------------------- MODULE DeviceProofs ----------------------------
(***************************************************************************)
(* Proofs about Device for every set of settings, every set of WiFi modes  *)
(* and all poll counts of the button.                                      *)
(***************************************************************************)
EXTENDS Device, TLAPS

\* No cycle runs before init_done: what was loaded is still what is in use.
StartsIdle == power = "starting" => push = "none"

IInv == TypeOK /\ RadioMatchesMode /\ ConfigStored /\ StartsIdle

LEMMA DefaultIsConfig == Default \in Configs
  BY SettingsAssumption DEF Default, Configs

LEMMA RequiredIsMode == \A m : Required(m) \in OpModes
  BY OpModesAssumption DEF Required

LEMMA ZeroIsCount == 0 \in 0 .. ResetTicks
  BY TicksAssumption

LEMMA InitIInv == Init => IInv
<1> SUFFICES ASSUME Init
             PROVE  IInv
  OBVIOUS
<1>1. TypeOK
  BY DefaultIsConfig, ZeroIsCount, Zenon DEF Init, TypeOK
<1>2. ~Running
  BY DEF Init, Running
<1> QED
  BY <1>1, <1>2 DEF IInv, RadioMatchesMode, ConfigStored, SettingsStored, IntervalStored,
     LostMeansFactory, StartsIdle, Running

\* A device that is off, about to boot or asleep owes nothing but its types.
LEMMA NotRunning ==
  ASSUME TypeOK', ~Running'
  PROVE  IInv'
BY DEF IInv, RadioMatchesMode, ConfigStored, SettingsStored, IntervalStored, LostMeansFactory,
   StartsIdle, Running

LEMMA PowerStep ==
  ASSUME IInv, PowerOn \/ PowerLoss \/ WakeUp \/ configRestartCb
  PROVE  IInv'
<1>1. TypeOK'
  BY DEF IInv, TypeOK, PowerOn, PowerLoss, WakeUp, configRestartCb, CutPower, stored, volatile
<1>2. ~Running'
  BY DEF PowerOn, PowerLoss, WakeUp, configRestartCb, CutPower, Running
<1> QED
  BY <1>1, <1>2, NotRunning

LEMMA BootStep ==
  ASSUME IInv, user_init
  PROVE  IInv'
<1>1. myConfig' = Loaded /\ Loaded' = Loaded /\ Loaded \in Configs
  BY DefaultIsConfig DEF IInv, TypeOK, user_init, configLoad, Loaded
<1>2. TypeOK'
  BY <1>1, RequiredIsMode, ZeroIsCount DEF IInv, TypeOK, user_init, configLoad, configCheckWifiMode
<1>3. RadioMatchesMode'
  BY DEF user_init, configCheckWifiMode, RadioMatchesMode
<1>4. SettingsStored' /\ IntervalStored'
  BY <1>1 DEF SettingsStored, IntervalStored, Configs
<1>5. LostMeansFactory' /\ StartsIdle'
  BY DEF user_init, configLoad, LostMeansFactory, StartsIdle
<1> QED
  BY <1>2, <1>3, <1>4, <1>5 DEF IInv, ConfigStored

LEMMA InitDoneStep ==
  ASSUME IInv, init_done
  PROVE  IInv'
<1>1. TypeOK'
  BY DEF IInv, TypeOK, init_done, stored
<1>2. RadioMatchesMode' /\ ConfigStored' /\ StartsIdle'
  BY DEF IInv, RadioMatchesMode, ConfigStored, SettingsStored, IntervalStored, LostMeansFactory, Loaded, StartsIdle,
     Running, init_done, stored
<1> QED
  BY <1>1, <1>2 DEF IInv

\* Wherever power fails during a save, the sector holds the old contents, the
\* new ones, or none.
LEMMA InterruptedStep ==
  ASSUME IInv, NEW c \in Configs, SaveInterrupted(c), station' \in BOOLEAN,
         UNCHANGED <<opmode, volatile>>
  PROVE  IInv'
<1>1. TypeOK'
  BY DEF IInv, TypeOK, SaveInterrupted, CutPower, volatile
<1>2. ~Running'
  BY DEF SaveInterrupted, CutPower, Running
<1> QED
  BY <1>1, <1>2, NotRunning

LEMMA ButtonStep ==
  ASSUME IInv, configBtnTimerCb
  PROVE  IInv'
<1>1. CASE BtnPressed \/ BtnReleased
  <2>1. resetCnt \in 0 .. ResetTicks => resetCnt' \in 0 .. ResetTicks
    BY <1>1, TicksAssumption DEF BtnPressed, BtnReleased
  <2>2. UNCHANGED <<power, stored, myConfig, firstStart, configBtnTimer, configWifiTimer, push>>
    BY <1>1 DEF BtnPressed, BtnReleased
  <2>3. TypeOK'
    BY <2>1, <2>2, Zenon DEF IInv, TypeOK, stored
  <2>4. RadioMatchesMode' /\ ConfigStored' /\ StartsIdle'
    BY <2>2 DEF IInv, RadioMatchesMode, ConfigStored, SettingsStored, IntervalStored,
       LostMeansFactory, Loaded, StartsIdle, Running, stored
  <2> QED
    BY <2>3, <2>4 DEF IInv
<1>2. CASE ResetConfig
  <2> DEFINE c == [Default EXCEPT !.mode = "config"]
  <2>1. c \in Configs
    BY DefaultIsConfig DEF Configs
  <2>2. CASE SaveInterrupted(c) /\ UNCHANGED <<opmode, volatile>>
    BY <1>2, <2>1, <2>2, InterruptedStep DEF ResetConfig
  <2>3. CASE ~(SaveInterrupted(c) /\ UNCHANGED <<opmode, volatile>>)
    <3>1. /\ myConfig' = c /\ flash' = c /\ station' = FALSE
          /\ configBtnTimer' = FALSE /\ configWifiTimer' = TRUE /\ resetCnt' = 0
          /\ UNCHANGED <<power, opmode, rtcMagic, firstStart, push>>
      BY <1>2, <2>3 DEF ResetConfig
    <3>2. TypeOK'
      BY <2>1, <3>1, ZeroIsCount DEF IInv, TypeOK
    <3>3. myConfig'.mode = myConfig.mode
      BY <1>2, <3>1 DEF ResetConfig
    <3>4. RadioMatchesMode'
      BY <3>1, <3>3 DEF IInv, RadioMatchesMode, Running, Required
    <3>5. flash' # Erased
      BY <2>1, <3>1, SettingsAssumption
    <3>6. ConfigStored' /\ StartsIdle'
      BY <3>1, <3>5 DEF IInv, ConfigStored, SettingsStored, IntervalStored, LostMeansFactory, Loaded, StartsIdle
    <3> QED
      BY <3>2, <3>4, <3>6 DEF IInv
  <2> QED
    BY <2>2, <2>3
<1>3. CASE SwitchMode
  <2> DEFINE c == [myConfig EXCEPT !.mode = IF @ = "normal" THEN "config" ELSE "normal"]
  <2>1. c \in Configs
    BY DEF IInv, TypeOK, Configs
  <2>2. CASE SaveInterrupted(c) /\ UNCHANGED <<opmode, volatile>>
    BY <1>3, <2>1, <2>2, InterruptedStep DEF SwitchMode, IInv, TypeOK
  <2>3. CASE ~(SaveInterrupted(c) /\ UNCHANGED <<opmode, volatile>>)
    <3>1. /\ myConfig' = c /\ flash' = c /\ configCheckWifiMode(c.mode) /\ resetCnt' = 0
          /\ UNCHANGED <<power, rtcMagic, firstStart, push, station>>
      BY <1>3, <2>3 DEF SwitchMode
    <3>2. TypeOK'
      BY <2>1, <3>1, RequiredIsMode, ZeroIsCount DEF IInv, TypeOK, configCheckWifiMode
    <3>3. RadioMatchesMode'
      BY <3>1 DEF RadioMatchesMode, configCheckWifiMode
    <3>4. flash' # Erased
      BY <2>1, <3>1, SettingsAssumption
    <3>5. ConfigStored' /\ StartsIdle'
      BY <3>1, <3>4 DEF IInv, ConfigStored, SettingsStored, IntervalStored, LostMeansFactory, Loaded, StartsIdle
    <3> QED
      BY <3>2, <3>3, <3>5 DEF IInv
  <2> QED
    BY <2>2, <2>3
<1> QED
  BY <1>1, <1>2, <1>3 DEF configBtnTimerCb

LEMMA FormStep ==
  ASSUME IInv, SaveForm
  PROVE  IInv'
<1>1. PICK s \in Settings, i \in Intervals \cup {myConfig.interval} :
        LET c == [myConfig EXCEPT !.settings = s, !.interval = i] IN
        \/ /\ myConfig' = c
           /\ flash' = c
           /\ station' \in BOOLEAN
           /\ UNCHANGED <<power, opmode, rtcMagic, firstStart, resetCnt, configBtnTimer,
                          configWifiTimer, push>>
        \/ /\ SaveInterrupted(c)
           /\ UNCHANGED <<opmode, station, volatile>>
  BY DEF SaveForm
<1> DEFINE c == [myConfig EXCEPT !.settings = s, !.interval = i]
<1>2. c \in Configs /\ c.mode = myConfig.mode
  BY DEF IInv, TypeOK, Configs
<1>3. CASE SaveInterrupted(c) /\ UNCHANGED <<opmode, station, volatile>>
  BY <1>2, <1>3, InterruptedStep DEF IInv, TypeOK
<1>4. CASE /\ myConfig' = c /\ flash' = c /\ station' \in BOOLEAN
           /\ UNCHANGED <<power, opmode, rtcMagic, firstStart, resetCnt, configBtnTimer,
                          configWifiTimer, push>>
  <2>1. TypeOK'
    BY <1>2, <1>4 DEF IInv, TypeOK
  <2>2. RadioMatchesMode'
    BY <1>2, <1>4 DEF IInv, RadioMatchesMode, Running
  <2>3. flash' # Erased
    BY <1>2, <1>4, SettingsAssumption
  <2>4. ConfigStored' /\ StartsIdle'
    BY <1>4, <2>3 DEF IInv, ConfigStored, SettingsStored, IntervalStored, LostMeansFactory, Loaded, StartsIdle
  <2> QED
    BY <2>1, <2>2, <2>4 DEF IInv
<1> QED
  BY <1>1, <1>3, <1>4

LEMMA PushStep ==
  ASSUME IInv, httpPushCb \/ PushFinish \/ pushTimeoutCb
  PROVE  IInv'
<1>1. CASE sleepmode
  <2>1. TypeOK' /\ ~Running'
    BY <1>1 DEF IInv, TypeOK, sleepmode, stored, volatile, Running
  <2> QED
    BY <2>1, NotRunning
<1>2. CASE PushFinish /\ firstStart
  <2>1. TypeOK'
    BY <1>2 DEF IInv, TypeOK, PushFinish, stored
  <2>2. RadioMatchesMode' /\ ConfigStored' /\ StartsIdle'
    BY <1>2 DEF IInv, RadioMatchesMode, ConfigStored, SettingsStored, IntervalStored,
       LostMeansFactory, Loaded, StartsIdle, Running, PushFinish, stored
  <2> QED
    BY <2>1, <2>2 DEF IInv
<1>3. CASE httpPushCb
  <2>1. PICK i \in Overrides : myConfig' = [myConfig EXCEPT !.interval = i]
    BY <1>3 DEF httpPushCb
  <2>2. UNCHANGED <<power, stored, firstStart, resetCnt, configBtnTimer, configWifiTimer, push>>
    BY <1>3 DEF httpPushCb
  <2>3. myConfig \in Configs /\ Loaded \in Configs
    BY DefaultIsConfig DEF IInv, TypeOK, Loaded
  <2>4. myConfig' \in Configs
    BY <2>1, <2>3 DEF Configs
  <2>5. TypeOK'
    BY <2>2, <2>4, Zenon DEF IInv, TypeOK, stored
  <2>6. myConfig'.mode = myConfig.mode /\ myConfig'.interval = i
    BY <2>1, <2>3 DEF Configs
  <2>7. RadioMatchesMode'
    BY <2>2, <2>6 DEF IInv, RadioMatchesMode, Running, stored
  <2>8. Loaded' = Loaded
    BY <2>2 DEF Loaded, stored
  <2>9. SettingsStored'
    BY <2>1, <2>2, <2>3, <2>8 DEF IInv, ConfigStored, SettingsStored, Running, Configs
  <2>10. IntervalStored' /\ LostMeansFactory' /\ StartsIdle'
    BY <1>3, <2>2, <2>6 DEF IInv, ConfigStored, IntervalStored, LostMeansFactory, StartsIdle,
       Running, stored, httpPushCb
  <2> QED
    BY <2>5, <2>7, <2>9, <2>10 DEF IInv, ConfigStored
<1> QED
  BY <1>1, <1>2, <1>3 DEF PushFinish, pushTimeoutCb

LEMMA StepIInv == IInv /\ [Next]_vars => IInv'
<1> SUFFICES ASSUME IInv, [Next]_vars
             PROVE  IInv'
  OBVIOUS
<1>1. CASE UNCHANGED vars
  <2>1. TypeOK'
    BY <1>1 DEF IInv, TypeOK, vars, stored, volatile
  <2>2. RadioMatchesMode' /\ ConfigStored' /\ StartsIdle'
    BY <1>1 DEF IInv, RadioMatchesMode, ConfigStored, SettingsStored, IntervalStored,
       LostMeansFactory, Loaded, StartsIdle, Running, vars, stored, volatile
  <2> QED
    BY <2>1, <2>2 DEF IInv
<1> QED
  BY <1>1, PowerStep, BootStep, InitDoneStep, ButtonStep, FormStep, PushStep DEF Next

LEMMA Inductive == Spec => []IInv
  BY InitIInv, StepIInv, PTL DEF Spec

\* Every variable keeps its type, wherever power fails.
THEOREM TypeCorrect == Spec => []TypeOK
<1>1. IInv => TypeOK
  BY DEF IInv
<1> QED
  BY Inductive, <1>1, PTL

\* A device that stays on runs its radio the way its mode needs, or is about to
\* restart: power failures between the stores do no lasting harm.
THEOREM RadioAlwaysMatches == Spec => []RadioMatchesMode
<1>1. IInv => RadioMatchesMode
  BY DEF IInv
<1> QED
  BY Inductive, <1>1, PTL

\* A running device uses what it would load after a reset, but for an interval that
\* a server set during its cycle; if its sector is lost, that is the factory
\* configuration without credentials.
THEOREM ConfigIsStored == Spec => []ConfigStored
<1>1. IInv => ConfigStored
  BY DEF IInv
<1> QED
  BY Inductive, <1>1, PTL
=============================================================================
