SPECIFICATION FairSpec
CONSTANTS
  p1 = p1
  p2 = p2
  Proc = {p1, p2}
  Dir = {1, 2}
  Home <- OwnHomes
  Line = {a}
  MaxLen = 3
  NoProc = {p1, p2}
  NeverBuilt = NeverBuilt
INVARIANTS SyncInv IndexMatchesHeads FreshSnapshot
PROPERTIES IndexGrows OpenTerminates
CHECK_DEADLOCK FALSE
