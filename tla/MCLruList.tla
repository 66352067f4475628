----------------------------- MODULE MCLruList -----------------------------
(* The LRU list on its own, with three frames and one page table.          *)
EXTENDS LruList, TLC

\* Frames are interchangeable.
FrameSymmetry == Permutations(Frames)
=============================================================================
