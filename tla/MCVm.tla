--------------------------------- MODULE MCVm --------------------------------
(* Vm instantiated for TLC: processes and frames are model values.         *)
EXTENDS Vm, TLC

\* Frames are interchangeable, and so are processes.
Symmetry == Permutations(Frames) \cup Permutations(Procs)

\* With an Unborn slot the processes are not interchangeable; frames are.
FrameSymmetry == Permutations(Frames)

(* num_lru_pages drifts once the list is damaged (a frame cleared by       *)
(* evictpage while still linked is counted again by the next lru_add), so  *)
(* it is unbounded; the search stops at this distance from the frame count. *)
MaxLruCount == Cardinality(Frames) + 1

LruCountBounded == lru.num \in -MaxLruCount..MaxLruCount
==============================================================================
