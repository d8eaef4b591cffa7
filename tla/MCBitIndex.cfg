CONSTANTS
  UnitSize = 2
  NearBlocks = 2
  Vectors <- MCVectors
SPECIFICATION Spec
INVARIANTS
  TypeOK
  RanksAnswer
  SelectsAnswer
CHECK_DEADLOCK FALSE
