SPECIFICATION TSpec
CONSTANTS
  HttpModes = {"off", "on", "badurl"}
  MqttModes = {"off", "on"}
  UserIntervals = {300}
  Overrides = {}
  ErrorDelay = 5
  ReadMax = 5
  RetriesMax = 5
  RedirectMax = 5
  TimeoutTicks = 90
  ReadTicks = 9
  IpTicks = 9
  HttpTicks = 2
  MqttTicks = 2
  ReconnectTicks = 12
INVARIANTS HttpWaitCovered
PROPERTIES RefinesCycle TimeoutLeavesTime
