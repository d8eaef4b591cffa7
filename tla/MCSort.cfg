CONSTANTS
  Texts <- MCTexts
  MaxKeys = 6
  Threshold = 2
SPECIFICATION Spec
CHECK_DEADLOCK FALSE
INVARIANTS
  SortsAndCounts
  SegmentsAlike
  Partitioned
  CallsHalve
PROPERTY Terminates
