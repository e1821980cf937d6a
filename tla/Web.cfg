SPECIFICATION Spec
CONSTANTS
  Conns = {c1, c2, c3}
  NoConn = NoConn
  MaxConn = 2
  MaxHead = 2
  MaxPost = 1
  Files <- MCFiles
  PieceLen = 2
  Requests <- MCRequests
  Logins = {"a", "b"}
  ApCounts = {2}
INVARIANTS PoolMatches SlotsConsistent ResponseInOrder AnswerNeverStalls
PROPERTIES AdminOnlyByLogin
CHECK_DEADLOCK FALSE
SYMMETRY Symmetry
