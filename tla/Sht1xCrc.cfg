SPECIFICATION Spec
CONSTANTS
  BufferLength = 200
  Inputs <- OnlySht
INVARIANTS ShtGoodReadingsAccepted
