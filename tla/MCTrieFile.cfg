CONSTANTS
  t1 = t1
  t2 = t2
  f1 = f1
  Base = 4
  Keysets <- MCKeysets
  Settings <- MCSettings
  CacheId <- MCCacheId
  Tries <- MCTries
  Files <- MCFiles
  Page = 512
  MaxImages = 2
SYMMETRY Symmetry
VIEW View
SPECIFICATION FileSpec
INVARIANTS
  WholeTries
  MappedAligned
  IoSizeExact
PROPERTY ReadsTell
