SPECIFICATION LiveSpec
CONSTANTS
  Task = {t1, t2}
  g_vblk_request_count = 1
  BOTTOM_HALF_QUEUE_CAP = 1
  MaxCalls = 1
  MaxChunks = 2
  idle = idle
  intr = intr
  None = None
CHECK_DEADLOCK FALSE
INVARIANTS TypeOK OneQueue SuccessServedWhileReady
PROPERTY RequestReturns
