SPECIFICATION FairSpec
CONSTANTS
  Task = {t1, t2}
  Creator = t1
  PIPE_BUF_SIZE = 2
  FS_WAITQ_MAX = 2
  MaxSent = 3
  Timeouts = {TRUE, FALSE}
  BigKernelLock = TRUE
  None = None
CHECK_DEADLOCK FALSE
PROPERTIES EndReaches
