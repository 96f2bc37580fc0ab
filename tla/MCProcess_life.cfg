SPECIFICATION FairSpec
CONSTANTS
  Proc = {p1, p2, p3}
  Pid1 = p1
  Irq = Irq
  Killed = {p3}
  MaxStrikes = 1
  None = None
CHECK_DEADLOCK FALSE
INVARIANTS OneReaperUntilKill ParentAliveUntilKill ZombieHasParentUntilKill FreedNotRunning
PROPERTIES WaitNotices
