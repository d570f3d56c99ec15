SPECIFICATION Spec
CONSTANTS
  MaxLines = 4
  MaxOld = 4
  MaxId = 8
  Estates <- SmallEstates
  Sessions <- MCSessions
  Unsafe = {"a/b"}
  Hyphened <- MCHyphened
INVARIANTS TypeOK CompleteWhenStamped HeadsSurvive BreaksReported CopiesHeads LegacyKept
CHECK_DEADLOCK FALSE
