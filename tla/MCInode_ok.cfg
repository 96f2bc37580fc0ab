SPECIFICATION Spec
CONSTANTS
  p1 = p1
  p2 = p2
  Proc = {p1, p2}
  None = None
  Name <- MCName
  NInodes = 5
  Calls <- MCCalls
  MaxCalls = 3
  LOGBLOCKS = 3
  Tree <- MCTree
  ImageDirs <- MCRoot
  Fails = {"name"}
SYMMETRY Symmetry
INVARIANTS TypeOK RefExact NamesLive LinksExact PutNeverWaits NoDeadlock
CHECK_DEADLOCK FALSE
