SPECIFICATION Spec
CONSTANTS
  p1 = p1
  p2 = p2
  s1 = s1
  s2 = s2
  t1 = t1
  t2 = t2
  Proc = {p1, p2}
  Session = {s1, s2}
  Task = {t1, t2}
  NoTask = NoTask
  NoArg = NoArg
  NoProc = NoProc
  CommandsOf <- AnyCommand
  MaxClaims = 5
INVARIANTS TypeOK OneHead HeldIsCurrent
PROPERTIES TaskClaimAtomic PhaseSteps BulkResetSpares
CHECK_DEADLOCK FALSE
