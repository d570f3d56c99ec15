SPECIFICATION Spec
CONSTANTS
  MaxLines = 4
  MaxOld = 4
  MaxId = 8
  Estates <- SmallEstates
  Sessions <- MCSessions
  Unsafe = {"a/b"}
  Hyphened <- MCHyphened
INVARIANTS NoDoubleWrite
CHECK_DEADLOCK FALSE
