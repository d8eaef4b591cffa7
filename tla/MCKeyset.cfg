CONSTANTS
  s1 = s1
  s2 = s2
  Owners <- MCOwners
  BaseSize = 3
  ExtraSize = 2
  KeyBlockSize = 2
  Texts <- MCTexts
  Words <- MCWords
  Lengths <- MCLengths
  MaxSize = 3
SPECIFICATION BoundedSpec
INVARIANTS
  TypeOK
  SpaceAccounted
  KeysApart
PROPERTIES
  KeysStay
  KeepsKeys
