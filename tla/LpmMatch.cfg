SPECIFICATION Spec
CONSTANTS
  Width = 2
  Kinds <- MCKinds
  KeySets <- MCKeySets
  NoConst = NoConst
  MaxConst = 1
  MaxEntries = 4
INVARIANT LpmPrefixFound
