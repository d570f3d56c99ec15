SPECIFICATION MCSpec
CONSTANTS
  p1 = p1
  p2 = p2
  s1 = s1
  s2 = s2
  none = none
  Process = {p1, p2}
  Path = {"own"}
  NoRef = "no reference"
  NoSession = none
  Invocation <- MCInvocation
  TextArg = {"", "y"}
  Foreign <- MCForeign
  Edited <- MCEdited
  MaxLog = 2
  Shell = {s1, s2}
  NoDir = NoDir
  Name = {"a", "b"}
  Dir <- MCDir
  Call <- MCCall
  MaxRuns = 1
INVARIANTS CliTypeOK WrittenPassCheck CheckedAreUsable ShownIsKept  ShapesFollowSchema Confined Recoverable NotShadowed OneEstate RunsShown
PROPERTIES Attributed
CHECK_DEADLOCK FALSE
