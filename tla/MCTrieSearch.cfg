CONSTANTS
  Base = 4
  Keysets <- MCKeysets
  Settings <- MCSettings
  CacheId <- MCCacheId
  Queries <- MCQueries
  QueryIds <- MCQueryIds
SPECIFICATION SearchSpec
INVARIANTS
  SearchTypeOK
  HistoryIsPath
  LevelsAligned
  CursorOnQuery
PROPERTIES
  KeepsPromise
