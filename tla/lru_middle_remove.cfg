\* lru_remove of a frame in the middle of the list.
CONSTANTS
  Frames = {f1, f2, f3}
  NULL = NULL
  Tables = {pt1}
  VAs = {0}
SPECIFICATION Spec
SYMMETRY FrameSymmetry
INVARIANT ListWellFormed
