CONSTANTS
  Base = 4
  Keysets <- FewKeysets
  Settings <- FewSettings
  CacheId <- MCCacheId
  Queries <- FewQueries
  QueryIds <- FewQueryIds
SPECIFICATION SearchSpec
PROPERTY CallReturns
