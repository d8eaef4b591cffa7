CONSTANTS
  t1 = t1
  t2 = t2
  f1 = f1
  Base = 4
  Keysets <- MCKeysets
  Settings <- MCOneSetting
  CacheId <- MCCacheId
  Tries <- MCOneTrie
  Files <- MCFiles
  Page = 4096
  MaxImages = 0
SPECIFICATION FileSpec
INVARIANT SaveDumps
