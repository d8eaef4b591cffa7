CONSTANTS
  Lists <- MCLists
  Builds <- MCBuilds
SPECIFICATION Spec
INVARIANTS
  ValuesKept
  NothingLeftUnset
  UnitsFit
CHECK_DEADLOCK FALSE
