SPECIFICATION HCycleSpec
CONSTANTS
  HttpModes = {"off", "on", "badurl"}
  MqttModes = {"off", "on"}
  UserIntervals = {2147}
  Overrides = {30}
  ErrorDelay = 5
  ReadMax = 5
  RetriesMax = 5
  RedirectMax = 5
INVARIANTS MqttWaitCovered ServersTried
PROPERTIES ClientNotClobbered HttpRetryHappens MqttRetryHappens SleepsForInterval AlwaysSleepsAgain
