SPECIFICATION Spec
CONSTANTS
  Task = {t1, t2, t3}
  Creator = t1
  PIPE_BUF_SIZE = 2
  FS_WAITQ_MAX = 3
  MaxSent = 3
  Timeouts = {FALSE}
  BigKernelLock = TRUE
  None = None
CHECK_DEADLOCK FALSE
SYMMETRY Children
INVARIANTS TypeOK StreamIntact WakePending RefExact
