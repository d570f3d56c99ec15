SPECIFICATION MCSpec
CONSTANTS
  t1 = t1
  t2 = t2
  t3 = t3
  s1 = s1
  r1 = r1
  Clone = {a, b}
  Task = {t1, t2}
  Plan = {s1}
  Tree = {r1}
  Id = {1, 2, 3, 4, 5}
  MaxDeps = 1
  Adder = a
  Room <- MCRoom
  NewStatus = {"done"}
  Node = {t1, t2, t3}
  Key <- MCKey
  Type <- MCType
  Time <- MCTime
  Body <- MCBody
SYMMETRY TaskSymmetry
INVARIANTS TypeOK NoDangling NoStarvation SearchExact
PROPERTIES UpdateKeepsAcyclic RevisionsFlagged
CHECK_DEADLOCK FALSE
