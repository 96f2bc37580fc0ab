SPECIFICATION Spec
CONSTANTS
  p1 = p1
  p2 = p2
  Proc = {p1, p2}
  Hole = Hole
  Image = 1
  MmapBase = 3
  MmapTop = 5
  MaxPages = 2
  MmapProt = {TRUE}
  Kstack = 2
  ExecCopy = 3
  Reserved = {0, 3}
  MaxOps = 4
  g_pages = 13
  PMM_BIG_PAGES = 3
  RefMax = 9
SYMMETRY Symmetry
INVARIANTS Private RefExact BitmapExact ClaimFindsRun
PROPERTY SharedNeverWritten
CHECK_DEADLOCK FALSE
