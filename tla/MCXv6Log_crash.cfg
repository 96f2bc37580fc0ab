SPECIFICATION Spec
CONSTANTS
  Proc = {p1, p2}
  Block = {1, 2}
  Val = {a, b}
  NoVal = NoVal
  LOGBLOCKS = 4
  MaxBlocks = {2, 5}
  Slack = 1
  HaveStage = TRUE
  RunMayFail = TRUE
  EvictUnwritten = FALSE
SYMMETRY Symmetric
INVARIANT CacheAgrees
PROPERTY CrashAtomic
