SPECIFICATION Spec
CONSTANTS
  HttpModes = {"on"}
  MqttModes = {"off"}
  UserIntervals = {300}
  Overrides = {7200}
  ErrorDelay = 5
  ReadMax = 5
  RetriesMax = 5
  RedirectMax = 5
PROPERTIES SleepsForInterval
