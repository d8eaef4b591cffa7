CONSTANTS
  w1 = w1
  w2 = w2
  Wrappers <- MCWrappers
  Texts <- MCTexts
  Lengths <- MCLengths
  Ids <- MCIds
  IdRange = 8
SPECIFICATION Spec
INVARIANTS
  QueryFresh
  SearchOnOwnQuery
