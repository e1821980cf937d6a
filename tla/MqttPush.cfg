SPECIFICATION FairSpec
CONSTANTS
  Values = 5
  Hosts = {"ip", "lookup", "cached"}
  Sessions = {"push", "long"}
  SendTimeout = 5
  ReconnectTimeout = 5
  KeepAliveTicks = 60
  ShortKeepAlive = 5
  Life = 18
INVARIANTS ConnectionOwned WaitingIsServed
PROPERTIES RefinesSession FailureReported
CHECK_DEADLOCK FALSE
