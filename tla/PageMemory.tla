----------------------------- MODULE PageMemory -----------------------------
(***************************************************************************)
(* What the paging system promises a user program (spec.md 1 and 8):     *)
(* each process has an address space of size pages, and each page holds   *)
(* the last value the process stored into it.  Eviction to swap and       *)
(* swap-in are invisible: they are not steps of this specification.  A    *)
(* process grows by one zero-filled page or shrinks by its top page       *)
(* (sbrk), a fork gives an unused slot a copy of its parent's pages, and  *)
(* exit releases every page.                                              *)
(*                                                                         *)
(* Vm implements this specification under the mapping MemSpec of Vm.      *)
(***************************************************************************)
EXTENDS Naturals

CONSTANTS
  Procs,   \* processes
  NVA,     \* the most pages a process may have
  Vals,    \* values a program stores
  Zero     \* the contents of a fresh page

VARIABLES
  size,    \* size[p]: the number of pages of p
  val      \* val[p][va]: what page va of p holds (Zero beyond size[p])

vars == <<size, val>>

VAs == 0..(NVA - 1)

Blank == [va \in VAs |-> Zero]

Init ==
  /\ size = [p \in Procs |-> 0]
  /\ val = [p \in Procs |-> Blank]

\* A store by p into one of its pages.
Write(p, va, v) ==
  /\ va < size[p]
  /\ val' = [val EXCEPT ![p][va] = v]
  /\ UNCHANGED size

\* sbrk(PGSIZE): one more page, zero-filled.
Grow(p) ==
  /\ size[p] < NVA
  /\ size' = [size EXCEPT ![p] = size[p] + 1]
  /\ UNCHANGED val

\* fork into c, which has no pages: c gets p's size and contents.
Fork(p, c) ==
  /\ size[c] = 0
  /\ size' = [size EXCEPT ![c] = size[p]]
  /\ val' = [val EXCEPT ![c] = val[p]]

\* sbrk(-PGSIZE): the top page is gone.
Shrink(p) ==
  /\ size[p] > 0
  /\ size' = [size EXCEPT ![p] = size[p] - 1]
  /\ val' = [val EXCEPT ![p][size[p] - 1] = Zero]

\* exit: the address space is gone.
Release(p) ==
  /\ size[p] > 0
  /\ size' = [size EXCEPT ![p] = 0]
  /\ val' = [val EXCEPT ![p] = Blank]

Next ==
  \E p \in Procs :
    \/ \E va \in VAs, v \in Vals : Write(p, va, v)
    \/ Grow(p)
    \/ Shrink(p)
    \/ \E c \in Procs \ {p} : Fork(p, c)
    \/ Release(p)

Spec == Init /\ [][Next]_vars

=============================================================================
