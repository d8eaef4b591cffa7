CONSTANTS
  Base = 4
  Keysets <- MCKeysets
  Settings <- MCSettings
  CacheId <- MCCacheId
SPECIFICATION FairSpec
INVARIANTS
  TypeOK
  Balanced
  ParentsFound
  ChildrenFound
  KeysRestored
  IdsDense
  LinksFit
  SiblingsInOrder
  CacheTruthful
PROPERTY Terminates
CHECK_DEADLOCK FALSE
