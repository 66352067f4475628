------------------------------ MODULE LruList ------------------------------
(***************************************************************************)
(* The page metadata table and the circular doubly linked LRU list of     *)
(* src/unnamed/part_000 (vm.c): struct page pages[] with its fields        *)
(* in_lru, pagetable, vaddr, prev, next, and the globals lru_head,         *)
(* lru_tail and num_lru_pages.                                             *)
(*                                                                         *)
(* The whole structure is one record, so that callers (the evictor, the    *)
(* clock, mappages, the fault handler; see Vm) can compose LruAdd and      *)
(* LruRemove inside their own steps, as the C code calls them with         *)
(* use_lock = 0 or 1.  A frame is a model value; NULL is the null pointer. *)
(* vaddr is a user page index (0 is both page 0 and the "null" vaddr the   *)
(* code writes when it clears the field).                                  *)
(***************************************************************************)
EXTENDS Naturals, FiniteSets, Sequences, SequencesExt

CONSTANTS
  Frames,   \* physical frames that can hold user pages
  NULL,     \* the null pointer
  Tables,   \* page-table roots a frame's metadata can name
  VAs       \* user page indices

ASSUME NULL \notin Frames

VARIABLE lru

Link == Frames \cup {NULL}

LruType == [head : Link, tail : Link,
            next : [Frames -> Link], prev : [Frames -> Link],
            in_lru : [Frames -> BOOLEAN],
            pagetable : [Frames -> Tables \cup {NULL}],
            vaddr : [Frames -> VAs],
            num : Int]

\* kinit (kalloc.c:48-52) and the static initialisers of vm.c:24-25.
EmptyLru == [head |-> NULL, tail |-> NULL,
             next |-> [f \in Frames |-> NULL], prev |-> [f \in Frames |-> NULL],
             in_lru |-> [f \in Frames |-> FALSE],
             pagetable |-> [f \in Frames |-> NULL],
             vaddr |-> [f \in Frames |-> 0],
             num |-> 0]

(***************************************************************************)
(* lru_add(p, pagetable, vaddr, use_lock), vm.c:66-151.  The range and     *)
(* vaddr < MAXVA checks always pass for the frames and pages modelled;     *)
(* the is_page_table check always passes because no frame of Frames ever   *)
(* has the flag (walk sets it on another entry, see README).               *)
(* Unlink is the "was_in_list" branch; it decrements num and does not give *)
(* the decrement back when the frame is appended again.                    *)
(***************************************************************************)
Unlink(L, p) ==
  IF L.head = p /\ L.next[p] = NULL /\ L.prev[p] = NULL THEN L
  ELSE
    LET n1 == IF L.prev[p] # NULL THEN [L.next EXCEPT ![L.prev[p]] = L.next[p]]
                                  ELSE L.next
        p1 == IF n1[p] # NULL THEN [L.prev EXCEPT ![n1[p]] = L.prev[p]]
                              ELSE L.prev
    IN [L EXCEPT !.head = IF L.head = p THEN n1[p] ELSE L.head,
                 !.tail = IF L.tail = p THEN p1[p] ELSE L.tail,
                 !.next = [n1 EXCEPT ![p] = NULL],
                 !.prev = [p1 EXCEPT ![p] = NULL],
                 !.in_lru = [L.in_lru EXCEPT ![p] = FALSE],
                 !.num = L.num - 1]

AppendTail(L, p, wasIn) ==
  IF L.head = NULL
  THEN [L EXCEPT !.head = p, !.tail = p,
                 !.next = [L.next EXCEPT ![p] = p],
                 !.prev = [L.prev EXCEPT ![p] = p],
                 !.in_lru = [L.in_lru EXCEPT ![p] = TRUE],
                 !.num = 1]
  ELSE LET n2 == [L.next EXCEPT ![p] = L.head]
           p2 == [L.prev EXCEPT ![p] = L.tail]
       IN [L EXCEPT !.next = [n2 EXCEPT ![L.tail] = p],
                    !.prev = [p2 EXCEPT ![L.head] = p],
                    !.tail = p,
                    !.in_lru = [L.in_lru EXCEPT ![p] = TRUE],
                    !.num = IF wasIn THEN L.num ELSE L.num + 1]

LruAdd(L, p, pt, va) ==
  LET L0 == [L EXCEPT !.pagetable[p] = pt, !.vaddr[p] = va]
      L1 == IF L.in_lru[p] THEN Unlink(L0, p) ELSE L0
  IN AppendTail(L1, p, L.in_lru[p])

(***************************************************************************)
(* lru_remove(p, use_lock), vm.c:155-189.  Only the head and tail links   *)
(* are repaired: the neighbours of a frame in the middle of the list are   *)
(* left pointing at it.  vaddr is cleared; pagetable is not.               *)
(***************************************************************************)
LruRemove(L, p) ==
  IF ~L.in_lru[p] THEN L
  ELSE
    LET last == L.head = p /\ L.head = L.tail
        h == IF last THEN NULL ELSE IF L.head = p THEN L.next[p] ELSE L.head
        t == IF last THEN NULL ELSE IF L.tail = p THEN L.prev[p] ELSE L.tail
        pr == IF ~last /\ h # NULL THEN [L.prev EXCEPT ![h] = t] ELSE L.prev
        nx == IF ~last /\ t # NULL THEN [L.next EXCEPT ![t] = h] ELSE L.next
    IN [L EXCEPT !.head = h, !.tail = t,
                 !.prev = [pr EXCEPT ![p] = NULL],
                 !.next = [nx EXCEPT ![p] = NULL],
                 !.in_lru = [L.in_lru EXCEPT ![p] = FALSE],
                 !.vaddr = [L.vaddr EXCEPT ![p] = 0],
                 !.num = L.num - 1]

(***************************************************************************)
(* The list as seen by a walk along next from lru_head, as                 *)
(* check_lru_consistency (vm.c:33-62) does it, cut off after more steps    *)
(* than there are frames.                                                  *)
(***************************************************************************)
RECURSIVE WalkFrom(_, _, _)
WalkFrom(L, f, k) ==
  IF k = 0 \/ f = NULL THEN << >>
  ELSE << f >> \o (IF L.next[f] = L.head THEN << >>
                   ELSE WalkFrom(L, L.next[f], k - 1))

ForwardSeq(L) == WalkFrom(L, L.head, Cardinality(Frames) + 1)

Linked(L) == {f \in Frames : L.in_lru[f]}

(***************************************************************************)
(* A well formed list: the walk from lru_head is a cycle through distinct *)
(* frames that ends at lru_tail, prev inverts next along it, and the       *)
(* frames on it are exactly those whose in_lru flag is set.                *)
(***************************************************************************)
WellFormed(L) ==
  LET s == ForwardSeq(L)
      n == Len(s)
  IN /\ (L.head = NULL) = (L.tail = NULL)
     /\ ToSet(s) = Linked(L)
     /\ L.head # NULL =>
          /\ n =< Cardinality(Frames)
          /\ Cardinality(ToSet(s)) = n
          /\ L.next[s[n]] = L.head
          /\ L.tail = s[n]
          /\ \A i \in 1..n : L.prev[s[i]] = s[IF i = 1 THEN n ELSE i - 1]

----------------------------------------------------------------------------
(***************************************************************************)
(* The list alone, driven by any sequence of the two calls.  The callers   *)
(* of lru_add in vm.c pass frames not on the list (mappages, walkaddr,     *)
(* usertrap, the clock after lru_remove) and, in uvmfirst, a frame that    *)
(* mappages has just put on it.                                            *)
(***************************************************************************)
Init == lru = EmptyLru

Add(f, pt, va) == lru' = LruAdd(lru, f, pt, va)

Del(f) == lru' = LruRemove(lru, f)

Next == \E f \in Frames :
          \/ \E pt \in Tables, va \in VAs : Add(f, pt, va)
          \/ Del(f)

Spec == Init /\ [][Next]_lru

(* The metadata table and list pointers hold values of their types.       *)
TypeOK == lru \in LruType

(***************************************************************************)
(* lru_remove and lru_add keep the list well formed: after any sequence of *)
(* calls the next/prev links still form one cycle through exactly the      *)
(* frames marked in_lru (spec.md 4.2, "Consistency property").            *)
(***************************************************************************)
ListWellFormed == WellFormed(lru)

=============================================================================
