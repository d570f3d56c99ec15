SPECIFICATION Spec
CONSTANTS
  Writer = {w1}
  Line = {a, b, c}
  Inode = {1, 2, 3, 4, 5, 6}
  NoFile = NoFile
  Hole = Hole
INVARIANTS TypeOK
PROPERTIES AbstractSpec
CHECK_DEADLOCK FALSE
