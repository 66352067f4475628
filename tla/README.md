# TLA+ models of the xv6 page-swapping extension

These modules model the demand-paging extension of xv6-riscv in this
repository:

- `kernel/kalloc.c`: a kalloc that evicts and retries.
- `kernel/trap.c`: the page-fault paths (swap-in, kill), the kill on any other unrecognised trap (`devintr`), `kerneltrap`'s panic and the exit of a killed process.
- `src/unnamed/part_000`, which is vm.c: the LRU list, the swap bitmap, clock victim selection, evictpage, walkaddr (for copyin), copyout, uvmfirst (the boot page), uvmcopy (fork), uvmdealloc (sbrk with a negative size) and uvmunmap (for exit, for sbrk's shrink and for fork's rollback).

Everything is checked with TLC.

## The system

| Part | Source | State | Operations |
|---|---|---|---|
| Frame allocator | kalloc.c | `kmem.freelist` | `kinit`, `kfree` (junk 1, push), `kalloc` (pop, junk 5; when empty call `evictpage` and `goto retry` on success, else return 0) |
| Page metadata and LRU | vm.c 33-189 | `pages[]` (`pagetable`, `vaddr`, `in_lru`, `next`, `prev`), `lru_head`, `lru_tail`, `num_lru_pages` under `page_lock` and `lru_lock` | `lru_add`, `lru_remove`, `check_lru_consistency` (re-acquires both locks after every locked add or remove) |
| Swap bitmap | vm.c 193-226 | `swap_bitmap[]` under `swap_bitmap_lock` | `allocswap` (first fit, panic when full), `freeswap` (range check) |
| Clock | vm.c 781-864 | `clock_hand` | `select_victim`: holds `page_lock` and `lru_lock` for the scan; for each page it skips an invalid PTE, clears A and rotates the page to the tail, or takes the page; back at the start it takes the current page |
| Evictor | vm.c 869-934 | its locals | select, walk, `allocswap`, `swapwrite`, `lru_remove`, PTE rewrite to `(blkno<<12)\|flags\|PTE_SWAP`, `kfree`, clear `pages[pa]` |
| Swap-in fault | trap.c 70-119 | the PTE | `kalloc`; if that fails, `evictpage` and `kalloc` again, else kill; then `swapread`, `freeswap`, PTE rewrite, `lru_add` |
| Grow | vm.c 523-547, 391-438 | `p->sz`, the PTE | `uvmalloc`, then `kalloc`, zero the page, `mappages` (PTE store, then `lru_add`) |
| Other faults, exit | trap.c 122-137, vm.c 444-483, 594-599 | the PTEs, `p->killed` | any fault that is not a swap-in kills; a killed process exits and `uvmfree` runs `uvmunmap(..., do_free=1)`: per page, panic unless PTE_V, `lru_remove(pg, 1)` if linked, `kfree`, then `*pte = 0` |
| Fork | vm.c 608-667 | the child's PTEs | `uvmcopy`: per parent page, a swapped page gets `kalloc`, `swapread` and `mappages`; a resident one gets `pa = PTE2PA`, `kalloc`, `memmove` and `mappages`; a failed `kalloc` runs `uvmunmap(new, 0, i/PGSIZE, 1)` and returns -1 |
| Boot | vm.c 502-518 | page 0 of the first process | `uvmfirst`: `kalloc`, `mappages` (which lists the page), then a second `lru_add` of the listed page |
| Traps | trap.c 127-133, 194-221, 244-277 | `p->killed`, the halt | `devintr` recognises the external and timer interrupts; any other user trap kills, any other kernel trap panics |
| Shrink | vm.c 554-565, 444-483 | `p->sz`, the top PTE | `sbrk(-PGSIZE)`: `uvmdealloc` runs `uvmunmap(pagetable, sz - PGSIZE, 1, 1)` on the top page, then `growproc` sets `p->sz` |
| copyin | trap.c 56-69, vm.c 342-373, 716-735 | the PTE | a system call's `copyin` (or `copyinstr`) through `walkaddr`: a swapped page is swapped in (`kalloc`, `swapread`, `freeswap`, PTE store without `pte_lock`, `lru_add` unless `va == 0`) |
| copyout | vm.c 686-710 | the frame | `walk`, then `memmove` through the physical address of a valid page, without setting PTE_A; -1 for a swapped or absent page |

**How the parts interact.** Every allocation can run the evictor. The evictor
takes pages that belong to other processes. Those processes keep running in
user mode, and their stores set PTE_A. They can also fault on their own pages
concurrently. Only the LRU list and the clock are under `page_lock` and
`lru_lock`. PTEs are written under `pte_lock`, but user stores do not take it,
and select_victim reads the PTEs while holding the other two locks.

## Modules

- **`LruList.tla`**: the pages[] list fields and `num_lru_pages`, with `lru_add`
  (`LruAdd` = `Unlink` then `AppendTail`) and `lru_remove` (`LruRemove`)
  translated statement by statement.
  - Its own `Next` adds or removes any frame at any moment. This is the
    sequential behaviour of the list under its locks.
  - `WellFormed` says that following `next` from the head visits exactly the
    `in_lru` frames once, with `prev` the reverse.
- **`MCLruList.tla`** adds frame symmetry.
- **`PageMemory.tla`** is the abstract specification of what paging promises a
  program: a size and a value per page for each process, with `Write`, `Grow`
  (a zero page), `Shrink` (the top page goes), `Fork` (an unused slot gets the
  parent's size and contents) and `Release` (exit). Eviction and swap-in are not steps of it.
- **`Vm.tla`** is the whole system. It INSTANCEs `LruList` with the processes as
  page tables, and uses the list operators inside its actions.
  - **Processes and kernel threads.** Each process has a user side (`Store`,
    `Load`, `Fault`, `FaultKill`, `UserTrapOther`, `CopyIn`, `CopyOut`, `Sbrk`,
    `SbrkShrink`, `Fork`) and a kernel thread with a program counter `pc`.
    Each kernel step is one lock region or one blocking call of the code.
  - **Subroutines.** `kalloc` and `evictpage` are subroutines with return labels
    `kret` and `eret`, and `lv` holds the thread's locals.
  - **Lock state.** `lru_lock` is free (NULL), held by a scanning thread, or
    `Leaked`.
  - **Halts.** `halt` records a panic, a fatal kernel trap (a NULL dereference)
    or a hang.
  - **The clock scan.** `select_victim` is one step per loop iteration
    (`ScanSkip`, `ScanRotate`, `ScanTake`, `ScanAdvance`, and `ScanFault` for a
    NULL hand or table). User stores interleave with the scan.
  - **Exit.** `FaultKill` (any fault on an unmapped page) sets `killed`;
    `ExitBegin`, `UvmUnmap` and `UvmUnmapClear` are the teardown, one step for
    the checks, `lru_remove` and `kfree` of a page and one for the PTE clear,
    because another thread can look at the PTE in between. The thread of the
    process stands for the parent that runs `uvmfree` from `wait` (proc.c is
    not in the repository). The process ends at `dead` with `sz = 0`.
  - **copyin.** `CopyIn` enters by a system call on a swapped page; after
    `kalloc`, walkaddr reuses the fault path's `TrapSwapRead` and
    `TrapFreeSwap` (parameterised by their labels), then `WalkaddrMap`. Reads of
    resident pages change no state and are left out.
  - **Shrink.** `SbrkShrink` enters the `uvmunmap` steps (`UvmUnmap`,
    `UvmUnmapClear`) for the top page; the local `caller` tells the end of
    `uvmunmap` where to return (exit, fork's rollback, or sbrk). The constant
    `NegativeSbrk` says whether programs shrink: neither user test does, and
    only vm_single turns it on.
  - **copyout.** `CopyOut` writes a resident page as a store does, but leaves
    the A bit alone; for a swapped page copyout returns -1 and writes nothing,
    where spec.md 110 says it swaps the page in.
  - **Fork.** `Fork(p, c)` takes an `unused` slot `c` (the constant `Unborn`
    lists the slots that start unused). `UvmcopyWalk` is one iteration of the
    loop; it calls `kalloc` with return label `fk_copy` or `fk_swap`, and
    `UvmcopyCopy` / `UvmcopySwap` do the memmove or swapread and the child's
    `mappages` (`UvmcopyMap`). A failed `kalloc` goes to `UvmcopyErr`, which
    reuses the exit teardown on the child's table (`lv.pt`, `lv.n` pages), and
    `ForkFail` returns the slot to `unused`. The parent's `pa` is kept in `lv.src`
    across the kalloc, as the code keeps it in a local.
  - **Boot.** With the constant `FirstProc` set, `Init` is the state `userinit`
    leaves: that process has page 0 holding initcode, mapped by `uvmfirst`,
    and the LRU list holds it once with `num_lru_pages = 0` (the second
    `lru_add` of a listed page). Its exit panics "init exiting", as xv6's
    `exit()` does. With `FirstProc = NULL` every process starts with no pages,
    which stands for a process after an exec (not in the repository).
  - **Traps.** `UserTrapOther(p, cause)` is a user trap that is neither a page
    fault nor an interrupt `Devintr` recognises: the process is killed.
    `KernelTrap` is the panic of `kerneltrap` for a trap from kernel mode that
    `devintr` does not recognise, such as select_victim's NULL dereference.
  - **Data history.** `uval` is a history variable: the value each process last
    stored in each page.
  - **Abstractions.**
    - A page table is one level of leaf PTEs (`NoPte`, resident, or swap).
    - `mem` and `disk` hold one value per frame or slot.
    - The PTE's slot field is the number `evictpage` stores (`EncodeSlot`), and
      `PTE2PPN` decodes it with the shift given by the constant `SwapPpnShift`.
      That macro is in riscv.h, which is not in the repository: 12 matches the
      encoding, and 10 is what spec.md describes.
- **Refinement.** `Vm` maps to `PageMemory` by `MemSize(p)` (0 once the
  process is exiting, the new size once its sbrk(-PGSIZE) has begun, else `sz`) and `MemVal(p, va)` (`Visible(p, va)`, the
  value a load would read: the frame's, or the slot's when the page is in
  swap). `MemSpec` is `PageMemory`'s `Spec` under this mapping, checked as a
  property: every step of the kernel is a step of the abstract memory or
  leaves it unchanged.
- **`MCVm.tla`** adds symmetry (`FrameSymmetry` alone where an `Unborn` slot
  makes the processes unequal) and the constraint that bounds
  `num_lru_pages`, which drifts without bound because of the re-add bug.

**Mutants.** Operators named `...Skipped`, `...Lost`, `...Always` and
`...PastEnd` precede the actions they mutate. They model plausible bugs that
show the passing properties have force, and `PROJECT.json` lists them.

## Runs

| Run | Expect | Checks |
|---|---|---|
| vm_single | pass | MemSpec (Vm refines PageMemory), FrameExclusive, SwapAccounting, UnmapReleasesPages (no PTE or LRU entry above `p->sz` after exit or a shrink), KernelReturns, with 1 process, 3 pages, 2 frames and 2 slots; sbrk both ways, copyout, other traps, kills and exits included (456k states, about 75 s) |
| vm_two | pass | TypeOK and ForkFailureRollsBack with a process and an unused slot: fork of resident and swapped pages, kalloc failing at each page and the rollback, interleaved with the parent's faults, copyin, the clock scan (`ScanFault` included) and exit; one slot makes evictors meet a full swap area (156k states) |
| lru_middle_remove | violation | ListWellFormed: `lru_remove` of a middle entry leaves its neighbours pointing at it |
| vm_rotation_vaddr | violation | LruMapped: the rotation re-adds with `vaddr` already zeroed |
| vm_stale_hand | violation | ClockHandLinked: `clock_hand` is left on an unlinked page (spec.md 4.6) |
| vm_lock_leak | violation | LruLockHeldByScanner: from the uvmfirst boot state, `check_lru_consistency` keeps `lru_lock` once evictpage empties the list (61 steps, through the count drifting to -1 and being reset to 1) |
| vm_lost_update | violation | DataIntegrity: a store between `swapwrite` and the PTE rewrite is lost |
| vm_double_evict | violation | FrameExclusive: two evictors take the same victim and free it twice |
| vm_fork_copy | violation | UvmcopyCopiesPage: `uvmcopy` reads `pa`, then `kalloc` evicts that page and returns its frame, and the child gets kalloc's fill (vm.c:643-656) |
| vm_exit_swapped | violation | UnmapAcceptsSwapped: exit with a page in swap panics in `uvmunmap` (vm.c:455), where spec.md 4.4 frees the slot |
| vm_walkaddr_va0 | violation | ResidentOnLru: `copyin`'s swap-in of page 0 never re-adds the frame to the LRU list (vm.c:366) |
| vm_exit_evict | violation | DeadTableUntouched (an action property): an evictor that chose a page before its owner exited rewrites the freed page table |

**Bounds.** With two frames and three pages, a process must evict to grow or to
fault. Two slots suffice for the pages that can be out at once, and three give
the violation runs room. Two processes are the fewest that can race an evictor
against the page's owner or against a second evictor, and a fork needs a
parent and an unused slot. `Vals={2}` tells a stored value apart from the zero,
alloc and free fills and initcode. vm_two drops it (`Vals={}`), because its
properties do not read data, and has two pages and one slot: that is enough for
a fork to fail at its first or its second page, with one page swapped out.

**Fairness.** Each kernel thread has weak fairness (`WF_vars(KernelStep(p))`),
because the scheduler runs every runnable thread. User steps have no fairness:
a program may stop.

**Deadlock.** `CHECK_DEADLOCK FALSE` is set in the Vm runs because the model
really stops: after a panic or hang, and when every process has exited.

## Not modelled yet (plan for later sittings)

- **Findings without a run.**
  - The re-add count of `lru_add` (vm.c:136) is in the boot state itself; a
    count invariant fails in the initial state, so no run states it.
  - A user fault at or above MAXVA panics `walk` (trap.c:73) in one step.
  - The slot encoding at bit 12 against the spec's bit 10 depends on riscv.h.
  - kalloc's retry loop (kalloc.c:115) can starve: with two threads, the other
    one can take each frame the evictor frees. KernelReturns holds for one
    thread (vm_single), and the two-thread starvation is not run.
- **copyout's result.** `copyout` returns -1 for a swapped page (vm.c:695)
  where spec.md 110 says it swaps the page in; the model keeps no record of
  system call results, so `CopyOut` simply writes nothing there.
- **lru_add's address.** `usertrap` passes the unaligned `r_stval` to
  `lru_add` (trap.c:118); only the `vaddr == 0` tests read it, and the model
  keeps page numbers.
- **Metadata cleared after kfree (evictpage, vm.c:926).** `evictpage` clears
  `pages[pa]` after `kfree`, when another process may already have allocated
  and listed the frame. vm_walkaddr_va0 breaks ResidentOnLru by walkaddr's
  `va != 0` test first; with that test removed and two live processes, TLC
  breaks ResidentOnLru by this clear in 21 steps (EvictKfree, the other
  process's KallocPop and GrowMap, then EvictClearMeta). No run slot is left
  for that variant, so it is recorded as a hazard of ResidentOnLru.
- **Page-table frames.** Intermediate page-table frames are not modelled: walk
  allocates them (three frames per process would leave TLC no frames to
  evict), and freewalk/walk mark the wrong `pages[]` entry (vm.c:585, 326), a
  mark `is_page_table` nothing reads.
- **TLB.** The A-bit write-back of the TLB is not modelled.
- **LRU refinement.** An abstract LRU queue with `LruList` shown to refine it
  makes sense once `lru_remove` is fixed.
- **Out of scope.** The kernel page table, trap entry and register plumbing,
  `clockintr`'s tick, the swap statistics and the user tests are left out: they
  are boot code, register moves, a counter and a printf, and programs whose
  accesses the user actions over-approximate (forkmmap's scenario is vm_fork_copy).
