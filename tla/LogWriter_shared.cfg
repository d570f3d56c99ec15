SPECIFICATION Spec
CONSTANTS
  Writer = {w1, w2}
  Line = {a, b, c}
  Inode = {1, 2, 3, 4, 5, 6, 7}
  NoFile = NoFile
  Hole = Hole
INVARIANTS AckedLinesKept
CHECK_DEADLOCK FALSE
