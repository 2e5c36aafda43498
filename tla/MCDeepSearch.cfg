SPECIFICATION Spec
CONSTANTS
  Rows <- MCRows
  TopK = 2
  maxRerankCandidates = 60
  Ages <- MCAges
  MaxNumbers = 2
CHECK_DEADLOCK FALSE
INVARIANTS
  RankedFirstIsRead
