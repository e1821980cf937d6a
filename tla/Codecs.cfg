SPECIFICATION Spec
CONSTANTS
  BufferLength = 200
  Inputs <- AllInputs
INVARIANTS PacketsReadBack BusShared ReadingsTrusted FilesComeBack FormsReadBack TextsReadBack
