SPECIFICATION Spec
CONSTANTS
  t1 = t1  t2 = t2  d1 = d1  d2 = d2  d3 = d3
  NoDir = NoDir  NoThread = NoThread
  Threads = {t1, t2}
  SnapDirs = {d1, d2, d3}
  TTL = 1
  Grace = 2
  MaxNow = 5
SYMMETRY Symmetry
CHECK_DEADLOCK FALSE
INVARIANTS
  GraceIsKept
  FreshEnough
