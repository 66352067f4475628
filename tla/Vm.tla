--------------------------------- MODULE Vm ---------------------------------
(***************************************************************************)
(* The demand-paging core of the pa4 xv6 kernel: the frame allocator      *)
(* (kalloc.c), the page metadata and LRU list (vm.c, see LruList), the     *)
(* swap bitmap, the clock (select_victim), the evictor (evictpage), the    *)
(* swap-in path of the page-fault handler (trap.c usertrap), and growth    *)
(* of a process by one page (sbrk -> uvmalloc -> kalloc, mappages).        *)
(*                                                                         *)
(* Every process has a kernel thread whose position in that code is pc[p]. *)
(* A step is a stretch of code that runs under one spinlock or touches one *)
(* shared word; between steps any other thread may run, as on several      *)
(* harts or when a thread sleeps in swapwrite/swapread.  A page table is   *)
(* a function from user page index to a PTE record: kind "res" (V set,     *)
(* ppn a frame), "swap" (V clear, SWAP set, ppn the raw PPN field) or      *)
(* "none"; a is the hardware Access bit.  Page contents are small values:  *)
(* uval is a history variable holding what each user page last had        *)
(* written into it by its process.                                         *)
(***************************************************************************)
EXTENDS Naturals, FiniteSets, Sequences, SequencesExt

CONSTANTS
  Procs,         \* processes (and their page-table roots)
  NVA,           \* user pages a process may grow to
  Frames,        \* physical frames available to kalloc
  NSlots,        \* MAX_SWAP_PAGES = SWAPMAX / PGSIZE
  Vals,          \* values a user program stores
  NULL,
  SwapPpnShift,  \* bit at which PTE2PPN (riscv.h, not in the repository) reads the field
  Unborn,        \* process slots that are UNUSED until a fork fills them
  FirstProc,     \* the process userinit builds with uvmfirst, or NULL
  NegativeSbrk   \* whether programs call sbrk with a negative size

ASSUME NVA \in Nat \ {0} /\ NSlots \in Nat \ {0}
ASSUME Vals \subseteq Nat \ {0, 1, 5, 9}
ASSUME SwapPpnShift \in {10, 12}
ASSUME Unborn \subseteq Procs
ASSUME FirstProc \in (Procs \ Unborn) \cup {NULL}
ASSUME 3 \notin Vals
ASSUME NegativeSbrk \in BOOLEAN

VAs   == 0..(NVA - 1)
Slots == 0..(NSlots - 1)

\* Contents written by the kernel itself.
ZeroFill   == 0   \* memset(mem, 0, PGSIZE) in uvmalloc
FreeJunk   == 1   \* memset(pa, 1, PGSIZE) in kfree
AllocJunk  == 5   \* memset(r, 5, PGSIZE) in kalloc
BeyondSwap == 9   \* a block read past the end of the swap area
InitCode   == 3   \* the initcode bytes uvmfirst copies into page 0
Data == Vals \cup {ZeroFill, FreeJunk, AllocJunk, BeyondSwap}

VARIABLES
  pte,        \* pte[p][va]: the leaf PTE of page va of process p
  sz,         \* p->sz in pages
  mem,        \* contents of each frame
  disk,       \* contents of each swap slot
  swap_used,  \* the slots whose swap_bitmap entry is 1
  freelist,   \* kmem.freelist, head first
  lru,        \* pages[] metadata and the LRU list (LruList)
  clock_hand, \* the static clock_hand of select_victim
  pc,         \* where each process's kernel thread is
  kret,       \* where kalloc returns to
  eret,       \* where evictpage returns to
  lv,         \* the locals of each thread (mem, victim, pa, blkno, ...)
  uval,       \* history: the value each user page should hold
  halt,       \* "none", or why the kernel stopped (panic, fatal trap, hang)
  lru_lock    \* NULL, the thread scanning under lru_lock, or Leaked

vars == <<pte, sz, mem, disk, swap_used, freelist, lru, clock_hand,
          pc, kret, eret, lv, uval, halt, lru_lock>>

LL == INSTANCE LruList WITH Tables <- Procs

PteType == [kind : {"none", "res", "swap"}, ppn : Frames \cup Nat \cup {NULL},
            a : BOOLEAN]
NoPte == [kind |-> "none", ppn |-> NULL, a |-> FALSE]
ResPte(f) == [kind |-> "res", ppn |-> f, a |-> FALSE]

PCs == {"user", "ka", "ka_ev", "gr_map", "tr_k1", "tr_k2", "tr_ev",
        "tr_read", "tr_free", "tr_pte", "ev_select", "ev_scan", "ev_walk", "ev_alloc",
        "ev_write", "ev_lru", "ev_pte", "ev_kfree", "ev_meta", "killed",
        "wa_k", "wa_read", "wa_free", "wa_pte", "ex_unmap", "ex_clear", "dead",
        "unused", "fk_walk", "fk_copy", "fk_swap"}

Locals == [mem : Frames \cup {NULL}, victim : Frames \cup {NULL},
           vpt : Procs \cup {NULL}, vva : VAs, pa : Frames \cup {NULL},
           blk : Int, va : 0..NVA, ok : BOOLEAN, start : Frames \cup {NULL},
           pt : Procs \cup {NULL}, n : 0..NVA, src : Frames \cup {NULL},
           fa : BOOLEAN, caller : {"none", "exit", "fork", "dealloc"}]
NoLocals == [mem |-> NULL, victim |-> NULL, vpt |-> NULL, vva |-> 0,
             pa |-> NULL, blk |-> 0, va |-> 0, ok |-> FALSE, start |-> NULL,
             pt |-> NULL, n |-> 0, src |-> NULL, fa |-> FALSE, caller |-> "none"]

\* lru_lock left held for ever by check_lru_consistency.
Leaked == "leaked"

(***************************************************************************)
(* The swap PTE.  evictpage stores (blkno << 12) | flags | PTE_SWAP       *)
(* (vm.c:917); the PPN field starts at bit 10 (spec.md 6), so the field    *)
(* holds blkno * 4.  PTE2PPN reads the field back from bit SwapPpnShift.   *)
(***************************************************************************)
EncodeSlot(blkno) == blkno * 4
PTE2PPN(field) == field \div (2 ^ (SwapPpnShift - 10))

\* swapread of a block number: inside the swap area or past its end.
SwapRead(blkno) == IF blkno \in Slots THEN disk[blkno] ELSE BeyondSwap

----------------------------------------------------------------------------
\* The orders in which kinit's kfree calls can leave the free list.
KinitOrders == {s \in [1..Cardinality(Frames) -> Frames] : ToSet(s) = Frames}

\* The LRU list after uvmfirst maps frame f: mappages' lru_add, then
\* uvmfirst's own lru_add of the page it has just listed.
UvmfirstLru(f) == LL!LruAdd(LL!LruAdd(LL!EmptyLru, f, FirstProc, 0), f, FirstProc, 0)

(***************************************************************************)
(* The boot state.  Every process but FirstProc starts with no pages.  For *)
(* FirstProc, uvmfirst (vm.c:502-518): kalloc pops the first free frame,   *)
(* mappages maps it at va 0 and, the page being off the list, lru_adds it  *)
(* (vm.c:425-430); uvmfirst then calls lru_add(pg, pagetable, 0, 0) on the *)
(* page again, and memmove copies initcode in.  userinit's p->sz = PGSIZE  *)
(* is in proc.c, which is not in the repository.                          *)
(***************************************************************************)
Init ==
  \E fl \in KinitOrders :
    LET f == Head(fl)
        First(p, va) == p = FirstProc /\ va = 0
    IN
    /\ pte = [p \in Procs |-> [va \in VAs |-> IF First(p, va) THEN ResPte(f) ELSE NoPte]]
    /\ sz = [p \in Procs |-> IF p = FirstProc THEN 1 ELSE 0]
    /\ mem = [g \in Frames |-> IF FirstProc # NULL /\ g = f THEN InitCode ELSE FreeJunk]
    /\ disk = [s \in Slots |-> ZeroFill]
    /\ swap_used = {}
    /\ freelist = IF FirstProc # NULL THEN Tail(fl) ELSE fl
    /\ lru = IF FirstProc # NULL THEN UvmfirstLru(f) ELSE LL!EmptyLru
    /\ clock_hand = NULL
    /\ pc = [p \in Procs |-> IF p \in Unborn THEN "unused" ELSE "user"]
    /\ kret = [p \in Procs |-> "user"]
    /\ eret = [p \in Procs |-> "user"]
    /\ lv = [p \in Procs |-> NoLocals]
    /\ uval = [p \in Procs |-> [va \in VAs |-> IF First(p, va) THEN InitCode ELSE ZeroFill]]
    /\ halt = "none"
    /\ lru_lock = NULL

(***************************************************************************)
(* check_lru_consistency (vm.c:33-62), run after every lru_add and        *)
(* lru_remove called with use_lock = 1.  With the list empty, the release *)
(* of lru_lock is the body of "if (num_lru_pages != 0)", whose printf is   *)
(* commented out: when the count is 0 the lock stays held.                *)
(***************************************************************************)
LeaksLruLock(L) == L.head = NULL /\ L.num = 0

\* The frame uvmunmap is at: the one mapped at page lv[p].va of table lv[p].pt.
UnmapFrame(p) == pte[lv[p].pt][lv[p].va].ppn

\* The thread's next step acquires lru_lock: select_victim, evictpage's
\* lru_remove, the lru_add of mappages, of the fault handler or of
\* walkaddr or of uvmcopy, and the lru_remove of uvmunmap.
AcquiresLru(p) ==
  \/ pc[p] \in {"ev_select", "ev_lru"}
  \/ pc[p] = "tr_pte" /\ ~lru.in_lru[lv[p].mem]
  \/ pc[p] = "wa_pte" /\ ~lru.in_lru[lv[p].mem] /\ lv[p].va # 0
  \/ pc[p] = "gr_map" /\ lv[p].mem # NULL /\ ~lru.in_lru[lv[p].mem]
  \/ pc[p] \in {"fk_copy", "fk_swap"} /\ lv[p].mem # NULL /\ ~lru.in_lru[lv[p].mem]
  \/ pc[p] = "ex_unmap" /\ pte[lv[p].pt][lv[p].va].kind = "res"
       /\ lru.in_lru[UnmapFrame(p)]

\* The kernel has not stopped.
Running == halt = "none"

\* What devintr (trap.c:244-277) makes of a trap cause: 1 for a PLIC
\* external interrupt (after uartintr or virtio_disk_intr), 2 for the
\* timer (after clockintr), 0 for anything else, a page fault included.
Causes == {"external", "timer", "page fault", "illegal"}
Devintr(cause) == CASE cause = "external" -> 1
                    [] cause = "timer"    -> 2
                    [] OTHER              -> 0

\* A trap taken in the kernel goes to kerneltrap (trap.c:194-221): devintr
\* returns 0 for a page fault (a load through a NULL pointer), and
\* kerneltrap panics.
KernelTrap(cause) == halt' = IF Devintr(cause) = 0 THEN "panic: kerneltrap" ELSE halt

\* Thread p is at label l and may take its next step: a thread about to
\* acquire lru_lock waits while another thread holds it.
At(p, l) == Running /\ pc[p] = l /\ (AcquiresLru(p) => lru_lock = NULL)

Goto(p, from, to) == At(p, from) /\ pc' = [pc EXCEPT ![p] = to]

\* Leave the kernel (to user mode, or dead): the kernel stack with its
\* locals and return addresses is gone.
LeaveKernel(p, to) ==
  /\ pc' = [pc EXCEPT ![p] = to]
  /\ lv' = [lv EXCEPT ![p] = NoLocals]
  /\ kret' = [kret EXCEPT ![p] = "user"]
  /\ eret' = [eret EXCEPT ![p] = "user"]
SetLv(p, field, v) == lv' = [lv EXCEPT ![p][field] = v]

----------------------------------------------------------------------------
(* User mode.                                                              *)

\* A store to a resident page: the hardware sets A and the byte changes.
Store(p, va, v) ==
  /\ At(p, "user") /\ va < sz[p] /\ pte[p][va].kind = "res"
  /\ pte' = [pte EXCEPT ![p][va].a = TRUE]
  /\ mem' = [mem EXCEPT ![pte[p][va].ppn] = v]
  /\ uval' = [uval EXCEPT ![p][va] = v]
  /\ UNCHANGED <<sz, disk, swap_used, freelist, lru, clock_hand, pc, kret, eret, lv, halt, lru_lock>>

\* A load from a resident page sets A.
Load(p, va) ==
  /\ At(p, "user") /\ va < sz[p] /\ pte[p][va].kind = "res"
  /\ pte' = [pte EXCEPT ![p][va].a = TRUE]
  /\ UNCHANGED <<sz, mem, disk, swap_used, freelist, lru, clock_hand, pc, kret, eret, lv, uval, halt, lru_lock>>

\* usertrap, scause 13/15 (trap.c:70-87): the PTE has PTE_SWAP; kalloc.
Fault(p, va) ==
  /\ At(p, "user") /\ va < sz[p] /\ pte[p][va].kind = "swap"
  /\ pc' = [pc EXCEPT ![p] = "ka"]
  /\ kret' = [kret EXCEPT ![p] = "tr_k1"]
  /\ lv' = [lv EXCEPT ![p] = [NoLocals EXCEPT !.va = va]]
  /\ UNCHANGED <<pte, sz, mem, disk, swap_used, freelist, lru, clock_hand, eret, uval, halt, lru_lock>>

\* Any other page fault (trap.c:122-126): no PTE, or not PTE_SWAP; kill.
FaultKill(p, va) ==
  /\ At(p, "user") /\ pte[p][va].kind = "none"
  /\ pc' = [pc EXCEPT ![p] = "killed"]
  /\ UNCHANGED <<pte, sz, mem, disk, swap_used, freelist, lru, clock_hand, kret, eret, lv, uval, halt, lru_lock>>

(***************************************************************************)
(* usertrap for any other cause (trap.c:127-133): devintr handles a       *)
(* device or timer interrupt and the process goes back to user mode (with *)
(* a yield for the timer), which changes nothing modelled here; an        *)
(* unknown cause (an illegal instruction) sets p->killed and exit(-1)    *)
(* follows at label end.                                                   *)
(***************************************************************************)
UserTrapOther(p, cause) ==
  /\ At(p, "user") /\ Devintr(cause) = 0 /\ cause # "page fault"
  /\ pc' = [pc EXCEPT ![p] = "killed"]
  /\ UNCHANGED <<pte, sz, mem, disk, swap_used, freelist, lru, clock_hand, kret, eret, lv, uval, halt, lru_lock>>

(***************************************************************************)
(* A system call whose copyin (vm.c:716-735) reads user page va: walkaddr *)
(* (vm.c:342-373).  Only a swapped page changes state: walkaddr reads     *)
(* blkno and calls kalloc; a resident page is read through its physical   *)
(* address (no A bit) and an unmapped one makes copyin return -1.          *)
(***************************************************************************)
CopyIn(p, va) ==
  /\ At(p, "user") /\ pte[p][va].kind = "swap"
  /\ pc' = [pc EXCEPT ![p] = "ka"]
  /\ kret' = [kret EXCEPT ![p] = "wa_k"]
  /\ lv' = [lv EXCEPT ![p] = [NoLocals EXCEPT !.va = va]]
  /\ UNCHANGED <<pte, sz, mem, disk, swap_used, freelist, lru, clock_hand, eret, uval, halt, lru_lock>>

(***************************************************************************)
(* A system call's copyout (vm.c:686-710) into user page va: walk, then   *)
(* for a PTE with V, U and W set, memmove through the physical address.   *)
(* The kernel's write leaves PTE_A as it was.  A swapped or absent page    *)
(* makes copyout return -1 with nothing written, which changes no state.  *)
(***************************************************************************)
CopyOut(p, va, v) ==
  /\ At(p, "user") /\ pte[p][va].kind = "res"
  /\ mem' = [mem EXCEPT ![pte[p][va].ppn] = v]
  /\ uval' = [uval EXCEPT ![p][va] = v]
  /\ UNCHANGED <<pte, sz, disk, swap_used, freelist, lru, clock_hand, pc, kret, eret, lv, halt, lru_lock>>

\* sbrk(PGSIZE): growproc -> uvmalloc(sz, sz + PGSIZE) -> kalloc.
Sbrk(p) ==
  /\ At(p, "user") /\ sz[p] < NVA
  /\ pc' = [pc EXCEPT ![p] = "ka"]
  /\ kret' = [kret EXCEPT ![p] = "gr_map"]
  /\ lv' = [lv EXCEPT ![p] = NoLocals]
  /\ UNCHANGED <<pte, sz, mem, disk, swap_used, freelist, lru, clock_hand, eret, uval, halt, lru_lock>>

(***************************************************************************)
(* sbrk(-PGSIZE): growproc (proc.c, not in the repository) calls          *)
(* uvmdealloc(pagetable, sz, sz - PGSIZE) (vm.c:554-565), which runs      *)
(* uvmunmap(pagetable, sz - PGSIZE, 1, 1) on the top page, and then sets  *)
(* p->sz to what uvmdealloc returns.                                       *)
(***************************************************************************)
SbrkShrink(p) ==
  /\ NegativeSbrk /\ At(p, "user") /\ sz[p] > 0
  /\ pc' = [pc EXCEPT ![p] = "ex_unmap"]
  /\ lv' = [lv EXCEPT ![p] = [NoLocals EXCEPT !.pt = p, !.va = sz[p] - 1,
                                              !.n = sz[p], !.caller = "dealloc"]]
  /\ UNCHANGED <<pte, sz, mem, disk, swap_used, freelist, lru, clock_hand, kret, eret, uval, halt, lru_lock>>

----------------------------------------------------------------------------
(* kalloc (kalloc.c:95-120).                                               *)

\* Pop the free list under kmem.lock and fill the page with junk.
KallocPop(p) ==
  /\ At(p, "ka") /\ freelist # << >>
  /\ pc' = [pc EXCEPT ![p] = kret[p]]
  /\ freelist' = Tail(freelist)
  /\ mem' = [mem EXCEPT ![Head(freelist)] = AllocJunk]
  /\ SetLv(p, "mem", Head(freelist))
  /\ UNCHANGED <<pte, sz, disk, swap_used, lru, clock_hand, kret, eret, uval, halt, lru_lock>>

\* The free list is empty: release kmem.lock and call evictpage.
KallocEvict(p) ==
  /\ At(p, "ka") /\ freelist = << >>
  /\ pc' = [pc EXCEPT ![p] = "ev_select"]
  /\ eret' = [eret EXCEPT ![p] = "ka_ev"]
  /\ UNCHANGED <<pte, sz, mem, disk, swap_used, freelist, lru, clock_hand, kret, lv, uval, halt, lru_lock>>

\* Mutant: kalloc retries even when evictpage returned 0.
KallocRetryAlways(p) ==
  /\ Goto(p, "ka_ev", "ka")
  /\ SetLv(p, "mem", NULL)
  /\ UNCHANGED <<pte, sz, mem, disk, swap_used, freelist, lru, clock_hand, kret, eret, uval, halt, lru_lock>>

\* Back from evictpage: retry, or return 0.
KallocRetry(p) ==
  /\ At(p, "ka_ev")
  /\ pc' = [pc EXCEPT ![p] = IF lv[p].ok THEN "ka" ELSE kret[p]]
  /\ SetLv(p, "mem", NULL)
  /\ UNCHANGED <<pte, sz, mem, disk, swap_used, freelist, lru, clock_hand, kret, eret, uval, halt, lru_lock>>

----------------------------------------------------------------------------
(***************************************************************************)
(* uvmalloc after kalloc (vm.c:533-546), with mappages (vm.c:391-438).     *)
(* A failed kalloc makes uvmdealloc(a, oldsz) a no-op and sbrk fail.  The  *)
(* zeroing, the PTE store under pte_lock, lru_add (if the frame is not     *)
(* marked in_lru) and growproc's p->sz update are one step: the page is    *)
(* not on the list and its process is in the kernel, so no other thread    *)
(* can tell them apart.                                                    *)
(***************************************************************************)
GrowMap(p) ==
  /\ At(p, "gr_map")
  /\ LeaveKernel(p, "user")
  /\ LET f == lv[p].mem
         va == sz[p]
     IN IF f = NULL
        THEN UNCHANGED <<pte, sz, mem, lru, uval>>
        ELSE /\ mem' = [mem EXCEPT ![f] = ZeroFill]
             /\ pte' = [pte EXCEPT ![p][va] = ResPte(f)]
             /\ lru' = IF ~lru.in_lru[f] THEN LL!LruAdd(lru, f, p, va) ELSE lru
             /\ sz' = [sz EXCEPT ![p] = va + 1]
             /\ uval' = [uval EXCEPT ![p][va] = ZeroFill]
  /\ UNCHANGED <<disk, swap_used, freelist, clock_hand, halt, lru_lock>>

----------------------------------------------------------------------------
(* The swap-in path of usertrap (trap.c:87-119).                           *)

\* After kalloc (first or second): go on, call evictpage, or kill.
TrapAfterKalloc(p) ==
  /\ Running /\ pc[p] \in {"tr_k1", "tr_k2"}
  /\ CASE lv[p].mem # NULL -> /\ pc' = [pc EXCEPT ![p] = "tr_read"]
                              /\ UNCHANGED <<kret, eret, lv>>
       [] pc[p] = "tr_k1"   -> /\ pc' = [pc EXCEPT ![p] = "ev_select"]
                              /\ eret' = [eret EXCEPT ![p] = "tr_ev"]
                              /\ UNCHANGED <<kret, lv>>
       [] OTHER             -> LeaveKernel(p, "killed")
  /\ UNCHANGED <<pte, sz, mem, disk, swap_used, freelist, lru, clock_hand, uval, halt, lru_lock>>

\* Back from the direct evictpage call: kalloc again, or kill.
TrapAfterEvict(p) ==
  /\ At(p, "tr_ev")
  /\ IF lv[p].ok
     THEN /\ pc' = [pc EXCEPT ![p] = "ka"]
          /\ kret' = [kret EXCEPT ![p] = "tr_k2"]
          /\ UNCHANGED <<eret, lv>>
     ELSE LeaveKernel(p, "killed")
  /\ UNCHANGED <<pte, sz, mem, disk, swap_used, freelist, lru, clock_hand, uval, halt, lru_lock>>

\* blkno = PTE2PPN(*pte); swapread(mem, blkno); from label at to label to,
\* in usertrap and in walkaddr.
TrapSwapRead(p, at, to) ==
  LET blkno == PTE2PPN(pte[p][lv[p].va].ppn)
  IN /\ Goto(p, at, to)
     /\ mem' = [mem EXCEPT ![lv[p].mem] = SwapRead(blkno)]
     /\ SetLv(p, "blk", blkno)
     /\ UNCHANGED <<pte, sz, disk, swap_used, freelist, lru, clock_hand, kret, eret, uval, halt, lru_lock>>

\* Mutant: the fault handler never calls freeswap.
TrapFreeSwapSkipped(p, at, to) ==
  /\ Goto(p, at, to)
  /\ UNCHANGED <<pte, sz, mem, disk, swap_used, freelist, lru, clock_hand, kret, eret, lv, uval, halt, lru_lock>>

\* freeswap(blkno) (vm.c:218-226): panics on a block outside the area.
TrapFreeSwap(p, at, to) ==
  /\ At(p, at)
  /\ IF lv[p].blk \in Slots
     THEN /\ pc' = [pc EXCEPT ![p] = to]
          /\ swap_used' = swap_used \ {lv[p].blk}
          /\ UNCHANGED halt
     ELSE /\ halt' = "panic: freeswap: invalid blkno"
          /\ UNCHANGED <<pc, swap_used>>
  /\ UNCHANGED <<pte, sz, mem, disk, freelist, lru, clock_hand, kret, eret, lv, uval, lru_lock>>

\* The PTE store under pte_lock, then lru_add if the frame is not in_lru.
TrapMap(p) ==
  LET f == lv[p].mem
      va == lv[p].va
  IN /\ At(p, "tr_pte")
     /\ LeaveKernel(p, "user")
     /\ pte' = [pte EXCEPT ![p][va] = ResPte(f)]
     /\ lru' = IF ~lru.in_lru[f] THEN LL!LruAdd(lru, f, p, va) ELSE lru
     /\ UNCHANGED <<sz, mem, disk, swap_used, freelist, clock_hand, uval, halt, lru_lock>>

(* walkaddr's swap-in (vm.c:347-369), for copyin.                         *)

\* kalloc returned: 0 makes walkaddr, so copyin, fail (vm.c:350-351).
WalkaddrAfterKalloc(p) ==
  /\ At(p, "wa_k")
  /\ IF lv[p].mem = NULL
     THEN LeaveKernel(p, "user")
     ELSE /\ pc' = [pc EXCEPT ![p] = "wa_read"]
          /\ UNCHANGED <<kret, eret, lv>>
  /\ UNCHANGED <<pte, sz, mem, disk, swap_used, freelist, lru, clock_hand, uval, halt, lru_lock>>

\* The PTE store (no pte_lock), lru_add(pg, pagetable, va, 1) unless the
\* frame is in_lru or va is 0, then copyin's memmove and the return.
WalkaddrMap(p) ==
  LET f == lv[p].mem
      va == lv[p].va
  IN /\ At(p, "wa_pte")
     /\ LeaveKernel(p, "user")
     /\ pte' = [pte EXCEPT ![p][va] = ResPte(f)]
     /\ lru' = IF ~lru.in_lru[f] /\ va # 0 THEN LL!LruAdd(lru, f, p, va) ELSE lru
     /\ UNCHANGED <<sz, mem, disk, swap_used, freelist, clock_hand, uval, halt, lru_lock>>

----------------------------------------------------------------------------
(* evictpage (vm.c:868-934).                                               *)

\* Return from evictpage with result ok; its own locals are gone.
EvictReturn(p, ok) ==
  /\ pc' = [pc EXCEPT ![p] = eret[p]]
  /\ lv' = [lv EXCEPT ![p] = [NoLocals EXCEPT !.mem = lv[p].mem,
                                              !.va = lv[p].va, !.ok = ok,
                                              !.pt = lv[p].pt, !.n = lv[p].n,
                                              !.src = lv[p].src, !.fa = lv[p].fa]]

(***************************************************************************)
(* select_victim (vm.c:781-864).  It takes page_lock and lru_lock and     *)
(* holds them for the whole scan; PTEs are not under those locks, so user *)
(* stores (which set A) and PTE rewrites of other threads interleave with  *)
(* the iterations of the loop, each of which is one step.                 *)
(***************************************************************************)

\* Lock, return 0 on an empty list, else start at the hand (head if 0).
EvictSelect(p) ==
  /\ At(p, "ev_select")
  /\ IF lru.head = NULL
     THEN /\ EvictReturn(p, FALSE)
          /\ UNCHANGED <<clock_hand, lru_lock>>
     ELSE LET h == IF clock_hand = NULL THEN lru.head ELSE clock_hand
          IN /\ pc' = [pc EXCEPT ![p] = "ev_scan"]
             /\ clock_hand' = h
             /\ SetLv(p, "start", h)
             /\ lru_lock' = p
  /\ UNCHANGED <<pte, sz, mem, disk, swap_used, freelist, lru, kret, eret, uval, halt>>

\* The end of an iteration that did not pick a page: back at start, the
\* page under the hand is the victim and the hand moves past it.
ScanAdvance(p, L, h2) ==
  IF h2 = lv[p].start
  THEN /\ pc' = [pc EXCEPT ![p] = "ev_walk"]
       /\ SetLv(p, "victim", h2)
       /\ clock_hand' = L.next[h2]
       /\ lru_lock' = NULL
  ELSE /\ clock_hand' = h2
       /\ UNCHANGED <<pc, lv, lru_lock>>

\* walk(clock_hand->pagetable, ...) through a NULL hand or NULL table:
\* a load from near address 0 in the kernel, a fatal kerneltrap.
ScanFault(p) ==
  /\ At(p, "ev_scan")
  /\ clock_hand \in {NULL} \cup {f \in Frames : lru.pagetable[f] = NULL}
  /\ KernelTrap("page fault")
  /\ UNCHANGED <<pte, sz, mem, disk, swap_used, freelist, lru, clock_hand,
                 pc, kret, eret, lv, uval, lru_lock>>

\* The PTE of the page under the hand.
HandPte == pte[lru.pagetable[clock_hand]][lru.vaddr[clock_hand]]

ScanReady(p) ==
  At(p, "ev_scan") /\ clock_hand # NULL /\ lru.pagetable[clock_hand] # NULL

\* Rule 1: the PTE is not valid; advance.
ScanSkip(p) ==
  /\ ScanReady(p) /\ HandPte.kind # "res"
  /\ ScanAdvance(p, lru, lru.next[clock_hand])
  /\ UNCHANGED <<pte, sz, mem, disk, swap_used, freelist, lru, kret, eret, uval, halt>>

\* Rule 2: clear A, advance, and unless the page is the tail move it there
\* with lru_remove then lru_add(p, p->pagetable, p->vaddr), p->vaddr having
\* just been zeroed by lru_remove.
ScanRotate(p) ==
  LET h == clock_hand
      R == LL!LruRemove(lru, h)
      L2 == IF h # lru.tail THEN LL!LruAdd(R, h, R.pagetable[h], R.vaddr[h]) ELSE lru
  IN /\ ScanReady(p) /\ HandPte.kind = "res" /\ HandPte.a
     /\ pte' = [pte EXCEPT ![lru.pagetable[h]][lru.vaddr[h]].a = FALSE]
     /\ lru' = L2
     /\ ScanAdvance(p, L2, lru.next[h])
     /\ UNCHANGED <<sz, mem, disk, swap_used, freelist, kret, eret, uval, halt>>

\* Rule 3: A is clear; this page is the victim, the hand moves past it.
ScanTake(p) ==
  /\ ScanReady(p) /\ HandPte.kind = "res" /\ ~HandPte.a
  /\ pc' = [pc EXCEPT ![p] = "ev_walk"]
  /\ SetLv(p, "victim", clock_hand)
  /\ clock_hand' = lru.next[clock_hand]
  /\ lru_lock' = NULL
  /\ UNCHANGED <<pte, sz, mem, disk, swap_used, freelist, lru, kret, eret, uval, halt>>

\* Snapshot victim->pagetable and ->vaddr, walk, require PTE_V.
EvictWalk(p) ==
  LET v == lv[p].victim
      t == lru.pagetable[v]
      va == lru.vaddr[v]
  IN /\ At(p, "ev_walk")
     /\ IF t = NULL
        THEN /\ KernelTrap("page fault")
             /\ UNCHANGED <<pc, lv>>
        ELSE IF pte[t][va].kind # "res"
        THEN /\ EvictReturn(p, FALSE)
             /\ UNCHANGED halt
        ELSE /\ pc' = [pc EXCEPT ![p] = "ev_alloc"]
             /\ lv' = [lv EXCEPT ![p].vpt = t, ![p].vva = va,
                                 ![p].pa = pte[t][va].ppn]
             /\ UNCHANGED halt
     /\ UNCHANGED <<pte, sz, mem, disk, swap_used, freelist, lru, clock_hand, kret, eret, uval, lru_lock>>

\* Mutant: the bitmap loop runs to i <= MAX_SWAP_PAGES and hands out the
\* entry past the end when the area is full.
EvictAllocSwapPastEnd(p) ==
  /\ At(p, "ev_alloc")
  /\ LET b == Min((Slots \cup {NSlots}) \ swap_used)
     IN /\ pc' = [pc EXCEPT ![p] = "ev_write"]
        /\ swap_used' = swap_used \cup {b}
        /\ SetLv(p, "blk", b)
  /\ UNCHANGED <<pte, sz, mem, disk, freelist, lru, clock_hand, kret, eret, uval, halt, lru_lock>>

\* allocswap (vm.c:201-214): the first free slot, or panic.
EvictAllocSwap(p) ==
  /\ At(p, "ev_alloc")
  /\ IF swap_used = Slots
     THEN /\ halt' = "panic: allocswap: out of swap space"
          /\ UNCHANGED <<pc, lv, swap_used>>
     ELSE LET b == Min(Slots \ swap_used)
          IN /\ pc' = [pc EXCEPT ![p] = "ev_write"]
             /\ swap_used' = swap_used \cup {b}
             /\ SetLv(p, "blk", b)
             /\ UNCHANGED halt
  /\ UNCHANGED <<pte, sz, mem, disk, freelist, lru, clock_hand, kret, eret, uval, lru_lock>>

\* Mutant: the write-out is skipped.
EvictSwapWriteSkipped(p) ==
  /\ Goto(p, "ev_write", "ev_lru")
  /\ UNCHANGED <<pte, sz, mem, disk, swap_used, freelist, lru, clock_hand, kret, eret, lv, uval, halt, lru_lock>>

\* swapwrite(pa, blkno): the thread sleeps until the disk is done.
EvictSwapWrite(p) ==
  /\ Goto(p, "ev_write", "ev_lru")
  /\ disk' = [disk EXCEPT ![lv[p].blk] = mem[lv[p].pa]]
  /\ UNCHANGED <<pte, sz, mem, swap_used, freelist, lru, clock_hand, kret, eret, lv, uval, halt, lru_lock>>

\* lru_remove(victim, LRU_LOCKED), then check_lru_consistency.
EvictLruRemove(p) ==
  /\ Goto(p, "ev_lru", "ev_pte")
  /\ lru' = LL!LruRemove(lru, lv[p].victim)
  /\ lru_lock' = IF LeaksLruLock(lru') THEN Leaked ELSE NULL
  /\ UNCHANGED <<pte, sz, mem, disk, swap_used, freelist, clock_hand, kret, eret, lv, uval, halt>>

\* *pte = (blkno << 12) | flags | PTE_SWAP under pte_lock.
EvictRewritePte(p) ==
  /\ Goto(p, "ev_pte", "ev_kfree")
  /\ pte' = [pte EXCEPT ![lv[p].vpt][lv[p].vva] =
               [kind |-> "swap", ppn |-> EncodeSlot(lv[p].blk), a |-> FALSE]]
  /\ UNCHANGED <<sz, mem, disk, swap_used, freelist, lru, clock_hand, kret, eret, lv, uval, halt, lru_lock>>

\* Mutant: kfree junk-fills the page but does not push it on the free list.
EvictKfreeLost(p) ==
  /\ Goto(p, "ev_kfree", "ev_meta")
  /\ mem' = [mem EXCEPT ![lv[p].pa] = FreeJunk]
  /\ UNCHANGED <<pte, sz, disk, swap_used, freelist, lru, clock_hand, kret, eret, lv, uval, halt, lru_lock>>

\* kfree(pa) (kalloc.c:71-87).
EvictKfree(p) ==
  /\ Goto(p, "ev_kfree", "ev_meta")
  /\ mem' = [mem EXCEPT ![lv[p].pa] = FreeJunk]
  /\ freelist' = << lv[p].pa >> \o freelist
  /\ UNCHANGED <<pte, sz, disk, swap_used, lru, clock_hand, kret, eret, lv, uval, halt, lru_lock>>

\* Clear pages[pa]: pagetable, vaddr, in_lru (after the frame is free).
EvictClearMeta(p) ==
  LET f == lv[p].pa
  IN /\ At(p, "ev_meta")
     /\ lru' = [lru EXCEPT !.pagetable[f] = NULL, !.vaddr[f] = 0,
                           !.in_lru[f] = FALSE]
     /\ EvictReturn(p, TRUE)
     /\ UNCHANGED <<pte, sz, mem, disk, swap_used, freelist, clock_hand, kret, eret, uval, halt, lru_lock>>

----------------------------------------------------------------------------
(***************************************************************************)
(* Exit of a killed process (trap.c:135-137): exit(-1), and the teardown  *)
(* of its address space, proc_freepagetable -> uvmfree(pagetable, sz)     *)
(* (vm.c:594-599) -> uvmunmap(pagetable, 0, sz, 1) (vm.c:444-483), then   *)
(* freewalk.  proc.c is not in the repository; the thread of p stands for *)
(* the one that runs the teardown.  Page-table pages are not modelled, so *)
(* freewalk only ends the walk, and freeproc sets p->sz = 0.  exit() of   *)
(* the init process panics "init exiting" instead (proc.c).               *)
(***************************************************************************)
ExitBegin(p) ==
  /\ At(p, "killed")
  /\ IF p = FirstProc
     THEN /\ halt' = "panic: init exiting"
          /\ UNCHANGED <<pc, lv>>
     ELSE /\ pc' = [pc EXCEPT ![p] = IF sz[p] = 0 THEN "dead" ELSE "ex_unmap"]
          /\ lv' = [lv EXCEPT ![p].pt = p, ![p].n = sz[p], ![p].caller = "exit"]
          /\ UNCHANGED halt
  /\ UNCHANGED <<pte, sz, mem, disk, swap_used, freelist, lru, clock_hand, kret, eret, uval, lru_lock>>

\* Mutant: uvmunmap frees the frame without taking it off the LRU list.
UvmUnmapKeepsLru(p) ==
  LET f == UnmapFrame(p)
  IN /\ At(p, "ex_unmap")
     /\ IF pte[lv[p].pt][lv[p].va].kind # "res"
        THEN /\ halt' = "panic: uvmunmap: not mapped"
             /\ UNCHANGED <<mem, freelist, pc>>
        ELSE /\ mem' = [mem EXCEPT ![f] = FreeJunk]
             /\ freelist' = << f >> \o freelist
             /\ pc' = [pc EXCEPT ![p] = "ex_clear"]
             /\ UNCHANGED halt
     /\ UNCHANGED <<pte, sz, disk, swap_used, lru, clock_hand, kret, eret, lv, uval, lru_lock>>

\* One page a of table lv[p].pt: panic unless PTE_V; lru_remove(pg, 1) if
\* in_lru (with its check_lru_consistency) and pg->vaddr = 0; kfree(pa).
\* The swap branch at vm.c:473-477 is never reached: a swapped PTE has
\* PTE_V clear.
UvmUnmap(p) ==
  LET f == UnmapFrame(p)
      L2 == LL!LruRemove(lru, f)
  IN /\ At(p, "ex_unmap")
     /\ IF pte[lv[p].pt][lv[p].va].kind # "res"
        THEN /\ halt' = "panic: uvmunmap: not mapped"
             /\ UNCHANGED <<mem, freelist, pc, lru, lru_lock>>
        ELSE /\ lru' = IF lru.in_lru[f] THEN L2 ELSE lru
             /\ lru_lock' = IF lru.in_lru[f] /\ LeaksLruLock(L2) THEN Leaked ELSE lru_lock
             /\ mem' = [mem EXCEPT ![f] = FreeJunk]
             /\ freelist' = << f >> \o freelist
             /\ pc' = [pc EXCEPT ![p] = "ex_clear"]
             /\ UNCHANGED halt
     /\ UNCHANGED <<pte, sz, disk, swap_used, clock_hand, kret, eret, lv, uval>>

\* fork's failure path: uvmcopy returns -1, freeproc(np) makes the child
\* slot UNUSED again, and fork returns -1 to the parent.
ForkFail(p) ==
  /\ pc' = [pc EXCEPT ![p] = "user", ![lv[p].pt] = "unused"]
  /\ lv' = [lv EXCEPT ![p] = NoLocals]
  /\ kret' = [kret EXCEPT ![p] = "user"]
  /\ eret' = [eret EXCEPT ![p] = "user"]

\* *pte = 0 under pte_lock; the next page, or the end of uvmunmap: the
\* exiting process is gone (freeproc sets p->sz = 0), sbrk returns with
\* p->sz = newsz, or fork fails.
UvmUnmapClear(p) ==
  LET a == lv[p].va
  IN /\ At(p, "ex_clear")
     /\ pte' = [pte EXCEPT ![lv[p].pt][a] = NoPte]
     /\ CASE a + 1 < lv[p].n -> /\ pc' = [pc EXCEPT ![p] = "ex_unmap"]
                                /\ SetLv(p, "va", a + 1)
                                /\ UNCHANGED <<sz, kret, eret>>
          [] lv[p].caller = "exit"    -> /\ LeaveKernel(p, "dead")
                                        /\ sz' = [sz EXCEPT ![p] = 0]
          [] lv[p].caller = "dealloc" -> /\ LeaveKernel(p, "user")
                                        /\ sz' = [sz EXCEPT ![p] = a]
          [] OTHER                    -> /\ ForkFail(p)
                                        /\ UNCHANGED sz
     /\ UNCHANGED <<mem, disk, swap_used, freelist, lru, clock_hand, uval, halt, lru_lock>>

----------------------------------------------------------------------------
(***************************************************************************)
(* fork: uvmcopy(p->pagetable, np->pagetable, p->sz) (vm.c:607-666) into  *)
(* the UNUSED slot c, then np->sz = p->sz.  proc.c is not in the          *)
(* repository: allocproc's own kallocs (trapframe, page-table pages) are  *)
(* left out, and the child's expected contents (uval) are the parent's,   *)
(* which cannot change while the parent is in the kernel.  mappages       *)
(* cannot fail: the child's PTE is empty and page-table pages are not     *)
(* modelled.                                                              *)
(***************************************************************************)
Fork(p, c) ==
  /\ At(p, "user") /\ pc[c] = "unused"
  /\ pc' = [pc EXCEPT ![p] = "fk_walk"]
  /\ lv' = [lv EXCEPT ![p] = [NoLocals EXCEPT !.pt = c]]
  /\ uval' = [uval EXCEPT ![c] = uval[p]]
  /\ UNCHANGED <<pte, sz, mem, disk, swap_used, freelist, lru, clock_hand, kret, eret, halt, lru_lock>>

\* uvmcopy returned 0: the child gets the parent's size and becomes runnable.
ForkDone(p) ==
  /\ pc' = [pc EXCEPT ![p] = "user", ![lv[p].pt] = "user"]
  /\ sz' = [sz EXCEPT ![lv[p].pt] = sz[p]]
  /\ lv' = [lv EXCEPT ![p] = NoLocals]
  /\ kret' = [kret EXCEPT ![p] = "user"]

\* The loop head, i < sz, and walk(old, i, 0): a swapped page (V clear,
\* SWAP set) goes to kalloc; a valid one has pa and flags read, then
\* kalloc; any other panics.
UvmcopyWalk(p) ==
  LET i == lv[p].va
  IN /\ At(p, "fk_walk")
     /\ IF i >= sz[p]
        THEN ForkDone(p) /\ UNCHANGED halt
        ELSE CASE pte[p][i].kind = "swap" ->
                    /\ pc' = [pc EXCEPT ![p] = "ka"]
                    /\ kret' = [kret EXCEPT ![p] = "fk_swap"]
                    /\ UNCHANGED <<sz, lv, halt>>
               [] pte[p][i].kind = "res" ->
                    /\ pc' = [pc EXCEPT ![p] = "ka"]
                    /\ kret' = [kret EXCEPT ![p] = "fk_copy"]
                    /\ lv' = [lv EXCEPT ![p].src = pte[p][i].ppn, ![p].fa = pte[p][i].a]
                    /\ UNCHANGED <<sz, halt>>
               [] OTHER ->
                    /\ halt' = "panic: uvmcopy: page not present"
                    /\ UNCHANGED <<pc, sz, lv, kret>>
  /\ UNCHANGED <<pte, mem, disk, swap_used, freelist, lru, clock_hand, eret, uval, lru_lock>>

\* Mutant: the error path unmaps i - 1 pages, missing the last one copied.
UvmcopyErrShort(p) ==
  IF lv[p].va <= 1
  THEN ForkFail(p)
  ELSE /\ pc' = [pc EXCEPT ![p] = "ex_unmap"]
       /\ lv' = [lv EXCEPT ![p].n = lv[p].va - 1, ![p].va = 0, ![p].caller = "fork"]
       /\ UNCHANGED <<kret, eret>>

\* kalloc returned 0: goto err, uvmunmap(new, 0, i, 1), then fail.
UvmcopyErr(p) ==
  IF lv[p].va = 0
  THEN ForkFail(p)
  ELSE /\ pc' = [pc EXCEPT ![p] = "ex_unmap"]
       /\ lv' = [lv EXCEPT ![p].n = lv[p].va, ![p].va = 0, ![p].caller = "fork"]
       /\ UNCHANGED <<kret, eret>>

\* mappages(new, i, PGSIZE, mem, flags): the PTE store, lru_add if not
\* in_lru, and the next iteration.
UvmcopyMap(p, e) ==
  LET f == lv[p].mem
      c == lv[p].pt
      i == lv[p].va
  IN /\ pte' = [pte EXCEPT ![c][i] = e]
     /\ lru' = IF ~lru.in_lru[f] THEN LL!LruAdd(lru, f, c, i) ELSE lru
     /\ pc' = [pc EXCEPT ![p] = "fk_walk"]
     /\ SetLv(p, "va", i + 1)
     /\ UNCHANGED <<kret, eret>>

\* A valid page: memmove(mem, (char*)pa, PGSIZE) from the pa read before
\* kalloc, and the child's PTE gets the parent's flags, A included.
UvmcopyCopy(p) ==
  /\ At(p, "fk_copy")
  /\ IF lv[p].mem = NULL
     THEN UvmcopyErr(p) /\ UNCHANGED <<pte, mem, lru>>
     ELSE /\ mem' = [mem EXCEPT ![lv[p].mem] = mem[lv[p].src]]
          /\ UvmcopyMap(p, [ResPte(lv[p].mem) EXCEPT !.a = lv[p].fa])
  /\ UNCHANGED <<sz, disk, swap_used, freelist, clock_hand, uval, halt, lru_lock>>

\* A swapped page: swapread(mem, PTE2PPN(*pte)); the parent keeps its PTE
\* and its slot; flags are masked to R|W|X|U, so A is clear.
UvmcopySwap(p) ==
  /\ At(p, "fk_swap")
  /\ IF lv[p].mem = NULL
     THEN UvmcopyErr(p) /\ UNCHANGED <<pte, mem, lru>>
     ELSE /\ mem' = [mem EXCEPT ![lv[p].mem] = SwapRead(PTE2PPN(pte[p][lv[p].va].ppn))]
          /\ UvmcopyMap(p, ResPte(lv[p].mem))
  /\ UNCHANGED <<sz, disk, swap_used, freelist, clock_hand, uval, halt, lru_lock>>

----------------------------------------------------------------------------

(* A thread acquiring the leaked lru_lock: acquire() panics on the hart   *)
(* that holds it and spins for ever on any other.                         *)
LruLockHang(p) ==
  /\ Running /\ lru_lock = Leaked /\ AcquiresLru(p)
  /\ halt' = "acquire(lru_lock) never returns"
  /\ UNCHANGED <<pte, sz, mem, disk, swap_used, freelist, lru, clock_hand,
                 pc, kret, eret, lv, uval, lru_lock>>

\* The steps of the kernel thread of p.
KernelStep(p) ==
  \/ KallocPop(p) \/ KallocEvict(p) \/ KallocRetry(p)
  \/ GrowMap(p)
  \/ TrapAfterKalloc(p) \/ TrapAfterEvict(p)
  \/ TrapSwapRead(p, "tr_read", "tr_free") \/ TrapFreeSwap(p, "tr_free", "tr_pte")
  \/ TrapMap(p)
  \/ WalkaddrAfterKalloc(p) \/ WalkaddrMap(p)
  \/ TrapSwapRead(p, "wa_read", "wa_free") \/ TrapFreeSwap(p, "wa_free", "wa_pte")
  \/ ExitBegin(p) \/ UvmUnmap(p) \/ UvmUnmapClear(p)
  \/ UvmcopyWalk(p) \/ UvmcopyCopy(p) \/ UvmcopySwap(p)
  \/ EvictSelect(p) \/ ScanFault(p) \/ ScanSkip(p) \/ ScanRotate(p)
  \/ ScanTake(p) \/ EvictWalk(p) \/ EvictAllocSwap(p) \/ EvictSwapWrite(p)
  \/ EvictLruRemove(p) \/ EvictRewritePte(p) \/ EvictKfree(p)
  \/ EvictClearMeta(p) \/ LruLockHang(p)

Next ==
  \E p \in Procs :
    \/ \E va \in VAs, v \in Vals : Store(p, va, v)
    \/ \E va \in VAs : Load(p, va)
    \/ \E va \in VAs : Fault(p, va)
    \/ \E va \in VAs : FaultKill(p, va)
    \/ \E cause \in Causes : UserTrapOther(p, cause)
    \/ \E va \in VAs : CopyIn(p, va)
    \/ \E va \in VAs, v \in Vals : CopyOut(p, va, v)
    \/ Sbrk(p)
    \/ SbrkShrink(p)
    \/ \E c \in Procs : Fork(p, c)
    \/ KernelStep(p)

\* The scheduler keeps running a runnable kernel thread.
Fairness == \A p \in Procs : WF_vars(KernelStep(p))

Spec == Init /\ [][Next]_vars /\ Fairness

----------------------------------------------------------------------------
(* Every variable holds a value of its type: PTEs, frame contents, the     *)
(* swap bitmap, the free list, the page metadata, the threads' positions.  *)
TypeOK ==
  /\ pte \in [Procs -> [VAs -> PteType]]
  /\ sz \in [Procs -> 0..NVA]
  /\ mem \in [Frames -> Data]
  /\ disk \in [Slots -> Data]
  /\ swap_used \subseteq Slots
  /\ freelist \in Seq(Frames)
  /\ lru \in LL!LruType
  /\ clock_hand \in Frames \cup {NULL}
  /\ pc \in [Procs -> PCs]
  /\ lv \in [Procs -> Locals]
  /\ lru_lock \in Procs \cup {NULL, Leaked}
  /\ uval \in [Procs -> [VAs -> Data]]

\* The address space of p is being torn down (by exit, or by a failed
\* fork of which p is the child), or is gone.
Exiting(p) ==
  \/ pc[p] = "dead"
  \/ \E q \in Procs : pc[q] \in {"ex_unmap", "ex_clear"} /\ lv[q].pt = p
                     /\ lv[q].caller # "dealloc"

\* p's sbrk(-PGSIZE) is unmapping its top page.
Deallocating(p) == pc[p] \in {"ex_unmap", "ex_clear"} /\ lv[p].caller = "dealloc"

(* What page va of p holds now: its frame, its swap slot, or, while its    *)
(* own fault handler has read the slot and not yet rewritten the PTE, the  *)
(* frame being filled.                                                     *)
Visible(p, va) ==
  CASE pc[p] \in {"tr_free", "tr_pte", "wa_free", "wa_pte"} /\ lv[p].va = va -> mem[lv[p].mem]
    [] pte[p][va].kind = "res"  -> mem[pte[p][va].ppn]
    [] pte[p][va].kind = "swap" -> SwapRead(PTE2PPN(pte[p][va].ppn))
    [] OTHER                    -> NULL

\* The pages p has: none once its teardown has begun, and not the top one
\* once sbrk(-PGSIZE) has started unmapping it.
MemSize(p) == CASE Exiting(p)      -> 0
                [] Deallocating(p) -> lv[p].va
                [] OTHER           -> sz[p]

(***************************************************************************)
(* Eviction and swap-in never change what a program sees: every page of   *)
(* every process holds the value the process last stored into it, whether *)
(* it is resident or in swap (spec.md 8, "A page written before eviction  *)
(* and read after swap-in yields identical bytes").                       *)
(***************************************************************************)
DataIntegrity ==
  \A p \in Procs, va \in VAs :
     va < MemSize(p) => Visible(p, va) = uval[p][va]

(***************************************************************************)
(* The refinement mapping to PageMemory: a process has MemSize(p) pages,   *)
(* and each of them holds what Visible reads.                             *)
(***************************************************************************)

MemVal(p, va) == IF va < MemSize(p) THEN Visible(p, va) ELSE ZeroFill

Mem == INSTANCE PageMemory
         WITH size <- [p \in Procs |-> MemSize(p)],
              val <- [p \in Procs |-> [va \in VAs |-> MemVal(p, va)]],
              Zero <- ZeroFill

(***************************************************************************)
(* The paging system implements PageMemory: seen through the mapping, no  *)
(* step of the kernel (eviction, the clock, swap-in by a fault or by      *)
(* copyin, uvmcopy, the exit teardown) changes a page's contents, and the *)
(* steps that do (a store, sbrk's zero page, fork, exit) are the abstract *)
(* operations.                                                             *)
(***************************************************************************)
MemSpec == Mem!Spec

(* The threads holding a frame they took from kalloc or are about to kfree. *)
Holds(p, f) ==
  \/ pc[p] \in {"gr_map", "tr_k1", "tr_k2", "tr_read", "tr_free", "tr_pte",
               "wa_k", "wa_read", "wa_free", "wa_pte", "fk_copy", "fk_swap"}
       /\ lv[p].mem = f
  \/ pc[p] = "ev_kfree" /\ lv[p].pa = f

FrameOwners(f) ==
  Len(SelectSeq(freelist, LAMBDA g : g = f))
  + Cardinality({<<p, va>> \in Procs \X VAs :
                   /\ pte[p][va].kind = "res" /\ pte[p][va].ppn = f
                   /\ ~\E q \in Procs : pc[q] = "ex_clear" /\ lv[q].pt = p /\ lv[q].va = va})
  + Cardinality({p \in Procs : Holds(p, f)})

(***************************************************************************)
(* Every frame has exactly one owner: it is once on kmem.freelist, or      *)
(* mapped by one resident PTE, or held by one kernel thread between kalloc *)
(* and mappages or between the PTE rewrite and kfree (spec.md 3).  A      *)
(* frame freed twice, mapped twice, or lost breaks it.                     *)
(***************************************************************************)
FrameExclusive == \A f \in Frames : FrameOwners(f) = 1

SwapRefs(s) ==
  Cardinality({<<p, va>> \in Procs \X VAs :
                 /\ pte[p][va].kind = "swap" /\ PTE2PPN(pte[p][va].ppn) = s
                 /\ ~(pc[p] \in {"tr_pte", "wa_pte"} /\ lv[p].va = va)})
  + Cardinality({p \in Procs : pc[p] \in {"ev_write", "ev_lru", "ev_pte"}
                               /\ lv[p].blk = s})

(***************************************************************************)
(* A swap slot is marked used in swap_bitmap exactly when one swapped-out  *)
(* PTE (or one evictor that has allocated it) refers to it (spec.md 8).    *)
(***************************************************************************)
SwapAccounting ==
  \A s \in Slots : SwapRefs(s) = IF s \in swap_used THEN 1 ELSE 0

(***************************************************************************)
(* A frame on the LRU list is mapped, at the pagetable and vaddr its      *)
(* metadata names, by a valid leaf PTE holding that frame (spec.md 8).    *)
(***************************************************************************)
LruMapped ==
  \A f \in Frames : lru.in_lru[f] =>
     /\ lru.pagetable[f] # NULL
     /\ pte[lru.pagetable[f]][lru.vaddr[f]].kind = "res"
     /\ pte[lru.pagetable[f]][lru.vaddr[f]].ppn = f

(***************************************************************************)
(* The clock never keeps a cursor to a frame that is off the list         *)
(* (spec.md 4.6, "The cursor is never left pointing at an unlinked        *)
(* entry"): select_victim moves the hand to victim->next before it       *)
(* drops the locks, and lru_remove in evictpage must not leave clock_hand *)
(* at the frame it unlinks (the hand is the victim when it is alone).     *)
(***************************************************************************)
ClockHandLinked == clock_hand # NULL => lru.in_lru[clock_hand]

(***************************************************************************)
(* lru_lock is held only inside a lock region: by a thread scanning in    *)
(* select_victim.  Every other region (lru_add and lru_remove with        *)
(* use_lock = 1, each followed by check_lru_consistency) acquires and     *)
(* releases it within one step, so check_lru_consistency must release it  *)
(* on every path, the empty list included.                                 *)
(***************************************************************************)
LruLockHeldByScanner == lru_lock \in {NULL} \cup {p \in Procs : pc[p] = "ev_scan"}

\* The kernel thread of p is running a system call, a trap or an exit.
InKernel(p) == pc[p] \notin {"user", "unused", "dead"}

(***************************************************************************)
(* Every entry into the kernel (a swap-in fault, an sbrk, a copyin, a     *)
(* fork) ends: the thread goes back to user mode, or the killed process   *)
(* is torn down, unless the kernel has stopped.  The retry loop of kalloc *)
(* (goto retry after a successful evictpage), the uvmcopy loop and the    *)
(* uvmunmap loop must not spin.                                            *)
(***************************************************************************)
KernelReturns ==
  \A p \in Procs : InKernel(p) ~> (~InKernel(p) \/ halt # "none")

(***************************************************************************)
(* uvmunmap leaves nothing of a page it frees behind (spec.md 4.4,        *)
(* uvmunmap with do_free "removes the frame from LRU ... and returns it"): *)
(* for a process in user mode or exited, no PTE at or above p->sz is      *)
(* mapped or swapped, and no LRU entry names a page of it at or above     *)
(* p->sz.  exit (p->sz = 0) and sbrk(-PGSIZE) must both unmap and unlink, *)
(* or the clock walks a freed table or evicts a page the process gave up. *)
(***************************************************************************)
UnmapReleasesPages ==
  \A p \in Procs : pc[p] \in {"user", "dead"} =>
     /\ \A va \in VAs : va >= sz[p] => pte[p][va].kind = "none"
     /\ \A f \in Frames : lru.in_lru[f] /\ lru.pagetable[f] = p => lru.vaddr[f] < sz[p]

(***************************************************************************)
(* uvmunmap with do_free of a swapped-out page frees its swap slot        *)
(* (spec.md 4.4): exit of a process with pages in swap does not panic.    *)
(***************************************************************************)
UnmapAcceptsSwapped == halt # "panic: uvmunmap: not mapped"

(***************************************************************************)
(* Once a process is torn down its page table is freed memory: no step    *)
(* of any thread (an evictpage that picked one of its pages before the    *)
(* exit, the clock clearing an A bit) writes a PTE of it again.           *)
(***************************************************************************)
DeadTableUntouched ==
  [][\A p \in Procs : pc[p] = "dead" => pte'[p] = pte[p]]_vars

(***************************************************************************)
(* Every resident user page can be evicted (spec.md 4.4, walkaddr's       *)
(* swap-in "reinserting into LRU"): a frame mapped by a resident PTE is on *)
(* the LRU list, except while the evictor that took it off has not yet    *)
(* rewritten the PTE, or exit is tearing it down.                          *)
(***************************************************************************)
ResidentOnLru ==
  \A p \in Procs, va \in VAs :
     /\ pte[p][va].kind = "res" /\ ~Exiting(p)
     /\ ~(Deallocating(p) /\ va = lv[p].va)
     /\ ~(\E q \in Procs : pc[q] = "ev_pte" /\ lv[q].vpt = p /\ lv[q].vva = va)
     => lru.in_lru[pte[p][va].ppn]


(***************************************************************************)
(* uvmcopy gives the child "byte-for-byte the parent's contents at the   *)
(* time of copy, regardless of whether parent pages were resident or      *)
(* swapped" (spec.md 8): every step of uvmcopy that fills a page of the    *)
(* child writes what the parent's page holds at that moment, even when    *)
(* the kalloc before it had to evict.                                      *)
(***************************************************************************)
UvmcopyCopiesPage ==
  [][\A p \in Procs :
       pc[p] \in {"fk_copy", "fk_swap"} /\ lv[p].mem # NULL /\ pc'[p] = "fk_walk"
         => mem'[lv[p].mem] = Visible(p, lv[p].va)]_vars


(***************************************************************************)
(* A fork that fails rolls back (spec.md 4.5, uvmcopy "On failure, unmap  *)
(* all pages already installed in the child"): when fork returns -1 to    *)
(* the parent, the child slot has no mapped or swapped PTE left and no    *)
(* LRU entry names its page table.                                         *)
(***************************************************************************)
ForkFailureRollsBack ==
  [][\A p \in Procs :
       (\/ pc[p] \in {"fk_copy", "fk_swap"}
        \/ pc[p] = "ex_clear" /\ lv[p].caller = "fork") /\ pc'[p] = "user" =>
         LET c == lv[p].pt
         IN /\ \A va \in VAs : pte'[c][va].kind = "none"
            /\ \A f \in Frames : lru'.in_lru[f] => lru'.pagetable[f] # c]_vars

=============================================================================
