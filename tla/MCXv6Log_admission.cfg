SPECIFICATION LiveSpec
CONSTANTS
  Proc = {p1, p2}
  Block = {1, 2, 3, 4}
  Val = {a}
  NoVal = NoVal
  LOGBLOCKS = 4
  MaxBlocks = {0, 2, 5}
  Slack = 1
  HaveStage = TRUE
  RunMayFail = FALSE
  EvictUnwritten = FALSE
INVARIANTS TypeOK LogHasRoom CommitIsAlone ReservationExact
PROPERTY BeginReturns
