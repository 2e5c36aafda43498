SPECIFICATION Spec
CONSTANTS
  MaxRetries = 1
  MaxChain = 2
  MaxPieces = 1
CHECK_DEADLOCK FALSE
INVARIANTS
  TypeOK
  ShownIsAnswer
  QuietWriters
PROPERTIES
  TurnEnds
