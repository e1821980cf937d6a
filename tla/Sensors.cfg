SPECIFICATION Spec
CONSTANTS
  DhtDelay = 4
  ReadLimit = 10
  ReadMax = 5
INVARIANTS ReadTimely
PROPERTIES OkMeansAllRead RecentValues
