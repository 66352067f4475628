CONSTANTS
  Procs = {p1}
  NVA = 3
  Frames = {f1, f2}
  NSlots = 3
  Vals = {2}
  NULL = NULL
  SwapPpnShift = 12
  Unborn = {}
  FirstProc = p1
  NegativeSbrk = FALSE
SPECIFICATION Spec
SYMMETRY Symmetry
CHECK_DEADLOCK FALSE
INVARIANT LruLockHeldByScanner
CONSTRAINT LruCountBounded
