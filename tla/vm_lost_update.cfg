CONSTANTS
  Procs = {p1, p2}
  NVA = 2
  Frames = {f1, f2}
  NSlots = 3
  Vals = {2}
  NULL = NULL
  SwapPpnShift = 12
  Unborn = {}
  FirstProc = NULL
  NegativeSbrk = FALSE
SPECIFICATION Spec
SYMMETRY Symmetry
CHECK_DEADLOCK FALSE
INVARIANT DataIntegrity
CONSTRAINT LruCountBounded
