CONSTANTS
  Procs = {p1}
  NVA = 3
  Frames = {f1, f2}
  NSlots = 2
  Vals = {2}
  NULL = NULL
  SwapPpnShift = 12
  Unborn = {}
  FirstProc = NULL
  NegativeSbrk = TRUE
SPECIFICATION Spec
CHECK_DEADLOCK FALSE
PROPERTY MemSpec
INVARIANT FrameExclusive
INVARIANT SwapAccounting
INVARIANT UnmapReleasesPages
PROPERTY KernelReturns
CONSTRAINT LruCountBounded
