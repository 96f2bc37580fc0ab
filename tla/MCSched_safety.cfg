SPECIFICATION Spec
CONSTANTS
  i1 = i1
  i2 = i2
  c1 = c1
  c2 = c2
  t1 = t1
  t2 = t2
  t3 = t3
  None = None
  CPU <- MCCpu2
  Task <- MCTask3
  idle_task <- MCIdle2
  BootTask = t1
  BootCpu = c1
  Killable <- MCKillable3
  MaxStale = 1
INVARIANTS RunqExact NoTaskLost OneStack FreshContext ReapedIsUnused
