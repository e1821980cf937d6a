SPECIFICATION FairSpec
CONSTANTS
  Factory = factory
  Settings = {factory, mine}
  IntDefault = 300
  Intervals = {300, 600}
  Overrides = {30}
  Erased = erased
  OpModes = {1, 2, 3}
  ToggleTicks = 6
  ResetTicks = 20
INVARIANTS RadioMatchesMode ConfigStored
PROPERTIES NoBootLoop
