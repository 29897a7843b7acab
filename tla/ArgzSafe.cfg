SPECIFICATION Spec
CONSTANTS
  Strings <- MCStrings  Vectors <- MCVectors  Patterns <- MCPatterns  Sep <- MCSep
  MaxLen = 5
PROPERTY ImplementsVector
INVARIANTS ContractsMet BuiltinsSound
