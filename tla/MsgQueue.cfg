SPECIFICATION FairSpec
CONSTANTS
  Size = 7
  MaxLen = 3
  Bytes <- MCBytes
  Messages <- MCMessages
INVARIANTS QueueConsistent
PROPERTIES UsesRing RefinesFifo RefinesMsgFifo EvictsOnlyWhenFull PublishReturns
