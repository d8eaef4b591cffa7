CONSTANTS
  Null = Null
  Arguments <- MCArguments
  MaxArguments = 4
  ShortOptions <- MCShortOptions
  LongOptions <- MCLongOptions
  Refused <- MCRefused
SPECIFICATION Spec
CHECK_DEADLOCK FALSE
INVARIANTS
  ReadsAsMeant
  ArgvInOrder
