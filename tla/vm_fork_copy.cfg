CONSTANTS
  Procs = {p1, p2}
  NVA = 2
  Frames = {f1, f2}
  NSlots = 2
  Vals = {2}
  NULL = NULL
  SwapPpnShift = 12
  Unborn = {p2}
  FirstProc = NULL
  NegativeSbrk = FALSE
SPECIFICATION Spec
SYMMETRY FrameSymmetry
CHECK_DEADLOCK FALSE
PROPERTY UvmcopyCopiesPage
CONSTRAINT LruCountBounded
