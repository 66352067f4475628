CONSTANTS
  Procs = {p1, p2}
  NVA = 2
  Frames = {f1, f2}
  NSlots = 1
  Vals = {}
  NULL = NULL
  SwapPpnShift = 12
  Unborn = {p2}
  FirstProc = NULL
  NegativeSbrk = FALSE
SPECIFICATION Spec
SYMMETRY FrameSymmetry
CHECK_DEADLOCK FALSE
INVARIANT TypeOK
PROPERTY ForkFailureRollsBack
CONSTRAINT LruCountBounded
