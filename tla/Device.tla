------------------------------- MODULE Device -------------------------------
(***************************************************************************)
(* The life of the sensor between battery changes: booting (user_main.c),  *)
(* the two operating modes, the configuration in flash (config.c), the     *)
(* button that switches modes or resets, the web forms that save           *)
(* (cgiconfig.c, cgiwifi.c), and deep sleep.                               *)
(*                                                                         *)
(* Three stores outlive a reset: the parameter sector (flash), what the    *)
(* SDK keeps in its own sectors (opmode, station), and RTC memory, which   *)
(* a missing battery clears.  Power may fail at any moment, also between   *)
(* the writes of one handler.  The push cycle of Push appears as something *)
(* that may be given an interval by a server (in RAM only), and finishes   *)
(* or runs into its timeout.                                               *)
(***************************************************************************)
EXTENDS Naturals

CONSTANTS
  Settings,     \* contents of MyConfig besides the mode and the interval
  Factory,      \* the one configReset writes
  Intervals,    \* values of sensor_interval the user may save
  IntDefault,   \* INT_DEFAULT, the one configReset writes
  Overrides,    \* values servers send in X-Interval-Override, within its limits
  Erased,       \* the parameter sector when its checksum is wrong
  OpModes,      \* WiFi modes the SDK may start with: 1 station, 2 AP, 3 both
  ToggleTicks,  \* 500 ms polls of the button that switch the mode
  ResetTicks    \* and that reset the configuration

ASSUME OpModesAssumption == {1, 3} \subseteq OpModes

ASSUME TicksAssumption ==
  ToggleTicks \in Nat /\ ResetTicks \in Nat /\ 0 < ToggleTicks /\ ToggleTicks < ResetTicks

VARIABLES
  power,         \* "off", "reset" (about to boot), "starting" (user_init done), "awake", "asleep"
  flash,         \* the parameter sector: a configuration, or Erased
  opmode,        \* wifi_get_opmode()
  station,       \* an access point's credentials are stored
  rtcMagic,      \* RTC memory holds RTC_MAGIC
  myConfig,      \* the configuration in RAM
  firstStart,
  resetCnt,      \* polls that found the button pressed
  configBtnTimer, configWifiTimer,  \* armed: the button poll, the delayed restart
  push           \* "none", "running" (timeout armed), "waiting" (finished, timeout armed)

stored   == <<flash, opmode, station, rtcMagic>>
volatile == <<myConfig, firstStart, resetCnt, configBtnTimer, configWifiTimer, push>>
vars     == <<power, stored, volatile>>

Configs == [mode : {"normal", "config"}, settings : Settings, interval : Intervals \cup Overrides]
Default == [mode |-> "normal", settings |-> Factory, interval |-> IntDefault]

ASSUME SettingsAssumption ==
  Factory \in Settings /\ IntDefault \in Intervals /\ Erased \notin Configs

Required(mode) == IF mode = "normal" THEN 1 ELSE 3

Running == power \in {"starting", "awake"}

\* A device as flashed: its parameter sector was never written.
Init ==
  /\ power = "off"
  /\ flash = Erased
  /\ opmode \in OpModes
  /\ station = FALSE
  /\ rtcMagic = FALSE
  /\ myConfig = Default
  /\ firstStart = FALSE
  /\ resetCnt = 0
  /\ configBtnTimer = FALSE /\ configWifiTimer = FALSE
  /\ push = "none"

-----------------------------------------------------------------------------
(* Power *)

PowerOn ==
  /\ power = "off"
  /\ power' = "reset"
  /\ UNCHANGED <<stored, volatile>>

\* The battery is taken out or runs empty.
CutPower == power' = "off" /\ rtcMagic' = FALSE

PowerLoss ==
  /\ power # "off"
  /\ CutPower
  /\ UNCHANGED <<flash, opmode, station, volatile>>

\* The wake-up timer pulls the reset line.
WakeUp ==
  /\ power = "asleep"
  /\ power' = "reset"
  /\ UNCHANGED <<stored, volatile>>

\* configSave erases the sector and writes it: power may fail before, in between,
\* or after it and before the handler goes on.
SaveInterrupted(c) == flash' \in {flash, Erased, c} /\ CutPower

-----------------------------------------------------------------------------
(* Booting *)

configCheckWifiMode_KeepsMode(mode) ==
  /\ opmode' = opmode
  /\ configWifiTimer' = (opmode # Required(mode))
  /\ configBtnTimer' = (opmode = Required(mode))

\* Sets the WiFi mode and restarts if it is not the one the mode needs.
configCheckWifiMode(mode) ==
  /\ opmode' = Required(mode)
  /\ configWifiTimer' = (opmode # Required(mode))
  /\ configBtnTimer' = (opmode = Required(mode))

\* What configLoad makes of the sector.
Loaded == IF flash = Erased THEN Default ELSE flash

\* configReset clears the credentials too, and saves nothing.
configLoad ==
  /\ myConfig' = Loaded
  /\ station' = (station /\ flash # Erased)

\* A low battery sends the device to sleep at the end.
user_init ==
  /\ power = "reset"
  /\ firstStart' = ~rtcMagic
  /\ rtcMagic' = TRUE
  /\ resetCnt' = 0
  /\ configLoad
  /\ configCheckWifiMode(myConfig'.mode)
  /\ push' = "none"
  /\ power' \in {"starting", "asleep"}
  /\ UNCHANGED flash

init_done ==
  /\ power = "starting"
  /\ power' = "awake"
  /\ push' = IF myConfig.mode = "normal" THEN "running" ELSE "none"
  /\ UNCHANGED <<stored, myConfig, firstStart, resetCnt, configBtnTimer, configWifiTimer>>

configRestartCb ==
  /\ Running
  /\ configWifiTimer
  /\ power' = "reset"
  /\ UNCHANGED <<stored, volatile>>

-----------------------------------------------------------------------------
(* The button *)

BtnPressed ==
  /\ resetCnt' = IF resetCnt < ResetTicks THEN resetCnt + 1 ELSE resetCnt   \* bounded
  /\ UNCHANGED <<power, stored, myConfig, firstStart, configBtnTimer, configWifiTimer, push>>

ResetConfig_NotSaved ==
  /\ resetCnt >= ResetTicks
  /\ myConfig.mode = "config"
  /\ station' = FALSE
  /\ myConfig' = [Default EXCEPT !.mode = "config"]
  /\ configBtnTimer' = FALSE /\ configWifiTimer' = TRUE
  /\ resetCnt' = 0
  /\ UNCHANGED <<power, flash, opmode, rtcMagic, firstStart, push>>

\* Held for 10 s in configuration mode.
ResetConfig ==
  LET c == [Default EXCEPT !.mode = "config"] IN
  /\ resetCnt >= ResetTicks
  /\ myConfig.mode = "config"
  /\ station' = FALSE
  /\ \/ /\ myConfig' = c
        /\ flash' = c
        /\ configBtnTimer' = FALSE /\ configWifiTimer' = TRUE
        /\ resetCnt' = 0
        /\ UNCHANGED <<power, opmode, rtcMagic, firstStart, push>>
     \/ /\ SaveInterrupted(c)
        /\ UNCHANGED <<opmode, volatile>>

SwitchMode_NoRestart ==
  LET c == [myConfig EXCEPT !.mode = IF @ = "normal" THEN "config" ELSE "normal"] IN
  /\ resetCnt >= ToggleTicks
  /\ ~(resetCnt >= ResetTicks /\ myConfig.mode = "config")
  /\ myConfig' = c
  /\ flash' = c
  /\ resetCnt' = 0
  /\ UNCHANGED <<power, opmode, station, rtcMagic, firstStart, configBtnTimer,
                 configWifiTimer, push>>

\* Held for 3 s.
SwitchMode ==
  LET c == [myConfig EXCEPT !.mode = IF @ = "normal" THEN "config" ELSE "normal"] IN
  /\ resetCnt >= ToggleTicks
  /\ ~(resetCnt >= ResetTicks /\ myConfig.mode = "config")
  /\ UNCHANGED station
  /\ \/ /\ myConfig' = c
        /\ flash' = c
        /\ configCheckWifiMode(c.mode)
        /\ resetCnt' = 0
        /\ UNCHANGED <<power, rtcMagic, firstStart, push>>
     \/ /\ SaveInterrupted(c)
        /\ UNCHANGED <<opmode, volatile>>

BtnReleased ==
  /\ resetCnt < ToggleTicks
  /\ resetCnt' = 0
  /\ UNCHANGED <<power, stored, myConfig, firstStart, configBtnTimer, configWifiTimer, push>>

configBtnTimerCb ==
  /\ Running
  /\ configBtnTimer
  /\ BtnPressed \/ ResetConfig \/ SwitchMode \/ BtnReleased

-----------------------------------------------------------------------------
(* The web forms *)

\* All of RAM is saved, whichever form it is.  cgiSensorConfig sets the interval,
\* cgiUserConfig and cgiWiFiSettings leave it; the last one then stores the
\* credentials with the SDK.
SaveForm ==
  /\ power = "awake"
  /\ \E s \in Settings, i \in Intervals \cup {myConfig.interval} :
       LET c == [myConfig EXCEPT !.settings = s, !.interval = i] IN
       \/ /\ myConfig' = c
          /\ flash' = c
          /\ station' \in BOOLEAN
          /\ UNCHANGED <<power, opmode, rtcMagic, firstStart, resetCnt, configBtnTimer,
                         configWifiTimer, push>>
       \/ /\ SaveInterrupted(c)
          /\ UNCHANGED <<opmode, station, volatile>>

-----------------------------------------------------------------------------
(* The push cycle and sleep *)

sleepmode == power' = "asleep" /\ UNCHANGED <<stored, volatile>>

\* A server answers with X-Interval-Override, to the last attempt perhaps when the
\* cycle is over: the interval is set in RAM and not saved.
httpPushCb ==
  /\ power = "awake"
  /\ push # "none"
  /\ \E i \in Overrides : myConfig' = [myConfig EXCEPT !.interval = i]
  /\ UNCHANGED <<power, stored, firstStart, resetCnt, configBtnTimer, configWifiTimer, push>>

\* PUSH_FINISH: the first start leaves the device on for the button.
PushFinish ==
  /\ power = "awake"
  /\ push = "running"
  /\ IF firstStart
       THEN /\ push' = "waiting"
            /\ UNCHANGED <<power, stored, myConfig, firstStart, resetCnt, configBtnTimer,
                           configWifiTimer>>
       ELSE sleepmode

pushTimeoutCb ==
  /\ power = "awake"
  /\ push # "none"
  /\ sleepmode

-----------------------------------------------------------------------------
Next ==
  \/ PowerOn \/ PowerLoss \/ WakeUp
  \/ user_init \/ init_done \/ configRestartCb
  \/ configBtnTimerCb \/ SaveForm
  \/ httpPushCb \/ PushFinish \/ pushTimeoutCb

Spec == Init /\ [][Next]_vars

(* Timers fire, the SDK calls back after user_init, and the wake-up line   *)
(* works.  Nobody has to press the button or change the battery.           *)
FairSpec ==
  /\ Spec
  /\ WF_vars(WakeUp) /\ WF_vars(user_init) /\ WF_vars(init_done)
  /\ WF_vars(configRestartCb) /\ WF_vars(pushTimeoutCb)

-----------------------------------------------------------------------------
(* Properties *)

TypeOK ==
  /\ power \in {"off", "reset", "starting", "awake", "asleep"}
  /\ flash \in Configs \cup {Erased}
  /\ opmode \in OpModes
  /\ station \in BOOLEAN /\ rtcMagic \in BOOLEAN /\ firstStart \in BOOLEAN
  /\ myConfig \in Configs
  /\ resetCnt \in 0 .. ResetTicks
  /\ configBtnTimer \in BOOLEAN /\ configWifiTimer \in BOOLEAN
  /\ push \in {"none", "running", "waiting"}

\* A device that stays on runs its radio the way its mode needs, wherever power
\* failed before: between configSave and wifi_set_opmode, or half way through
\* the sector.  Otherwise a restart is due.
RadioMatchesMode ==
  Running => opmode = Required(myConfig.mode) /\ (configBtnTimer \/ configWifiTimer)

\* What the device works with is what it would load after a reset, the interval
\* aside: no handler leaves another change unsaved, none saves what it does not use.
SettingsStored == Running => [myConfig EXCEPT !.interval = Loaded.interval] = Loaded

\* The interval may differ from the stored one only where a server set it, in a
\* boot that started a cycle: the next boot does not know it.
IntervalStored ==
  Running /\ myConfig.interval # Loaded.interval =>
    push # "none" /\ myConfig.interval \in Overrides

\* A lost parameter sector means that the credentials of the old access point
\* are gone as well.
LostMeansFactory == Running /\ flash = Erased => ~station

\* No endless restarts: a device comes to sleep again and again, unless it is
\* in configuration mode or has no battery.
NoBootLoop == []<>(power \in {"asleep", "off"} \/ (Running /\ myConfig.mode = "config"))

\* Power may fail between any two steps of a save, and a server may set an
\* interval at any time of a cycle: what the device works with is what it finds at
\* its next boot, but for a server's interval, and half a save is none (configSave,
\* configLoad, httpPushCb).
ConfigStored == SettingsStored /\ IntervalStored /\ LostMeansFactory
=============================================================================
