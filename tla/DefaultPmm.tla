----------------------------- MODULE DefaultPmm -----------------------------
(***************************************************************************)
(* The allocators of page frames that keep one doubly linked free list     *)
(* (libs/list.h), pointer by pointer: first fit (kern/mm/default_pmm.c),   *)
(* and lab2's best fit (best_fit_pmm.c) and page layer of SLUB             *)
(* (slub_pmm.c).  Every entry runs with interrupts off (alloc_pages,       *)
(* free_pages of pmm.c), so each is one action.  Frames are numbered from  *)
(* 0; HEAD is &free_list.                                                  *)
(***************************************************************************)
EXTENDS Integers, Sequences, FiniteSetsExt, SequencesExt, TLC

CONSTANTS
  npage,       \* frames handed to init_memmap
  Managers,    \* the managers to choose from
  TailFrees    \* may callers free a run above every free block?

ASSUME PmmAssumption == 
  /\ npage \in Nat \ {0} /\ TailFrees \in BOOLEAN
  /\ Managers \subseteq {"default", "best_fit", "slub", "buddy"}

Pages == 0..(npage - 1)
HEAD == -1
NULL == -1
Run(base, n) == base..(base + n - 1)

VARIABLES
  pmm_manager, \* which one init_pmm_manager has installed
  list,        \* the next and prev pointers of HEAD and of every page_link
  property,    \* Page.property; stale where PageProperty is clear
  flag,        \* PageProperty
  nr_free,
  used,        \* the frames the callers hold
  ret          \* what the last alloc_pages returned

vars == <<pmm_manager, list, property, flag, nr_free, used, ret>>

(***************************************************************************)
(* libs/list.h.  The assignments are made in the order of __list_add, so   *)
(* arguments that coincide end up as they do there.                        *)
(***************************************************************************)
__list_add(l, elm, prev, next) ==
  [next |-> [l.next EXCEPT ![prev] = elm, ![elm] = next],
   prev |-> [l.prev EXCEPT ![next] = elm, ![elm] = prev]]

list_add(l, le, elm) == __list_add(l, elm, le, l.next[le])
list_add_before(l, le, elm) == __list_add(l, elm, l.prev[le], le)

list_del(l, elm) ==
  [next |-> [l.next EXCEPT ![l.prev[elm]] = l.next[elm]],
   prev |-> [l.prev EXCEPT ![l.next[elm]] = l.prev[elm]]]

list_empty(l) == l.next[HEAD] = HEAD

\* The entries a walk from HEAD meets before it comes back there; one that
\* never does is cut where it is longer than the memory.
Visit(l) ==
  LET walk[k \in 0..(npage + 1)] ==
        IF k = 0 THEN <<l.next[HEAD]>>
        ELSE LET w == walk[k - 1] IN
             IF Last(w) = HEAD THEN w ELSE Append(w, l.next[Last(w)])
      w == walk[npage + 1] IN
  IF Last(w) = HEAD THEN Front(w) ELSE w
Listed(l) == Range(Visit(l))

(***************************************************************************)
(* The managers.                                                           *)
(***************************************************************************)

\* The place behind the last entry.  The branch of default_free_pages and
\* best_fit_free_pages that appends there does not leave the loop: its next
\* round meets `base' itself, again as the last entry, and appends it to
\* itself.  page_insert_block of SLUB inserts before the head.
AddLast(l, base) ==
  CASE pmm_manager = "slub" -> list_add_before(l, HEAD, base)
    [] list_empty(l) -> list_add(l, HEAD, base)
    [] OTHER -> list_add(list_add(l, Last(Visit(l)), base), base, base)

\* The search loop of init_memmap and free_pages.
Insert(l, base) ==
  LET above == SelectSeq(Visit(l), LAMBDA p : base < p) IN
  IF above # <<>> THEN list_add_before(l, Head(above), base)
  ELSE AddLast(l, base)

\* init, then init_memmap for all of the memory.
Init ==
  LET self == (HEAD :> HEAD) @@ [p \in Pages |-> p] IN
  /\ pmm_manager \in Managers
  /\ list = Insert([next |-> self, prev |-> self], 0)
  /\ property = (0 :> npage) @@ [p \in Pages |-> 0]
  /\ flag = [p \in Pages |-> p = 0]
  /\ nr_free = npage
  /\ used = {} /\ ret = NULL

\* The blocks that are large enough ...
Fitting(n) == SelectSeq(Visit(list), LAMBDA p : property[p] >= n)

\* ... and the one the search takes: default_alloc_pages stops at the first,
\* the others remember the smallest so far.
Pick(n) ==
  LET fit == Fitting(n) IN
  IF pmm_manager = "default" THEN Head(fit)
  ELSE Head(SelectSeq(fit, LAMBDA p : \A q \in Range(fit) : property[p] <= property[q]))

Remainder(page, n) == property[page] - n

\* `prev' was read before list_del.  SLUB looks for the place again.
PutRemainder(l, page, rest) ==
  IF pmm_manager = "slub" THEN Insert(l, rest) ELSE list_add(l, list.prev[page], rest)

\* page->property keeps its old value, but SLUB clears it.
TakenProperty(prop, page, n) ==
  IF pmm_manager = "slub" THEN [p \in Run(page, n) |-> 0] @@ prop ELSE prop

\* Take n frames from a block that has them; the rest of the block takes its
\* place in the list.
alloc_pages(n) ==
  /\ n <= nr_free /\ Fitting(n) # <<>>
  /\ LET page == Pick(n)
         rest == page + n
         l == list_del(list, page) IN
       /\ IF property[page] > n
          THEN /\ property' = TakenProperty([property EXCEPT ![rest] = Remainder(page, n)], page, n)
               /\ flag' = [flag EXCEPT ![rest] = TRUE, ![page] = FALSE]
               /\ list' = PutRemainder(l, page, rest)
          ELSE /\ flag' = [flag EXCEPT ![page] = FALSE]
               /\ list' = l
               /\ property' = TakenProperty(property, page, n)
       /\ used' = used \cup Run(page, n) /\ ret' = page
  /\ nr_free' = nr_free - n
  /\ UNCHANGED pmm_manager

alloc_pages_NULL(n) ==
  /\ n > nr_free \/ Fitting(n) = <<>>
  /\ ret' = NULL
  /\ UNCHANGED <<pmm_manager, list, property, flag, nr_free, used>>

\* Blocks a and b become one; h is the allocator inside free_pages.
Joined(h, a, b) == [l |-> list_del(h.l, b),
                    prop |-> [h.prop EXCEPT ![a] = @ + h.prop[b]],
                    fl |-> [h.fl EXCEPT ![b] = FALSE]]

\* Faulty variant: the block below is not looked at.
JoinBelow_Not(h, base) == <<h, base>>

\* Merge with the block before, which then stands for both.
JoinBelow(h, base) ==
  LET p == h.l.prev[base] IN
  IF p # HEAD /\ p + h.prop[p] = base THEN <<Joined(h, p, base), p>> ELSE <<h, base>>

\* Merge with the block after.
JoinAbove(h, base) ==
  LET p == h.l.next[base] IN
  IF p # HEAD /\ base + h.prop[base] = p THEN Joined(h, base, p) ELSE h

\* The callers free frames they hold, a part of an allocation included (as
\* default_check does).
free_pages(base, n) ==
  /\ Run(base, n) \subseteq used
  /\ TailFrees \/ pmm_manager = "slub" \/ list_empty(list) \/ \E p \in Listed(list) : base < p
  /\ LET h == [l |-> Insert(list, base),
               prop |-> [property EXCEPT ![base] = n],
               fl |-> [p \in Pages |-> IF p \in Run(base, n) THEN p = base
                                       ELSE flag[p]]]
         low == JoinBelow(h, base)
         end == JoinAbove(low[1], low[2]) IN
       list' = end.l /\ property' = end.prop /\ flag' = end.fl
  /\ nr_free' = nr_free + n
  /\ used' = used \ Run(base, n)
  /\ UNCHANGED <<pmm_manager, ret>>

Next == \E n \in 1..npage :
          \/ alloc_pages(n) \/ alloc_pages_NULL(n)
          \/ \E base \in Pages : free_pages(base, n)

Spec == Init /\ [][Next]_vars

(***************************************************************************)
(* Properties.                                                             *)
(***************************************************************************)
Ends == Pages \cup {HEAD}

\* Every variable stays in its range; a block never reaches past the memory.
TypeOK ==
  /\ pmm_manager \in Managers
  /\ list \in [next : [Ends -> Ends], prev : [Ends -> Ends]]
  /\ property \in [Pages -> 0..npage]
  /\ \A p \in Pages : flag[p] => p + property[p] <= npage
  /\ flag \in [Pages -> BOOLEAN]
  /\ nr_free \in 0..npage
  /\ used \subseteq Pages /\ ret \in Pages \cup {NULL}

\* The list leads back to its head in ascending order of addresses, and prev
\* is next reversed: list_del and the merge with the block below rely on it.
ListOK ==
  /\ LET w == Visit(list) IN
       Len(w) <= npage /\ \A k \in 1..(Len(w) - 1) : w[k] < w[k + 1]
  /\ \A e \in Listed(list) \cup {HEAD} : list.prev[list.next[e]] = e

\* default_check: a walk over the list finds only PageProperty blocks, and
\* "total == nr_free_pages()".
TotalOK ==
  /\ Len(Visit(list)) <= npage
  /\ \A p \in Listed(list) : flag[p]
  /\ MapThenSumSet(LAMBDA p : property[p], Listed(list)) = nr_free

\* No frame is lost and none is given out twice: the listed blocks are
\* disjoint, cover exactly what nobody holds, and only their first frames
\* have PageProperty set (the assertion of default_free_pages).
BlocksOK ==
  LET listed == Listed(list) IN
  /\ {p \in Pages : flag[p]} = listed
  /\ UNION {Run(p, property[p]) : p \in listed} = Pages \ used
  /\ \A p, q \in listed :
       p < q => Run(p, property[p]) \cap Run(q, property[q]) = {}

\* "try to merge low addr or high addr blocks": neighbouring free blocks are
\* always merged.
Coalesced ==
  LET listed == Listed(list) IN \A p, q \in listed : p + property[p] # q

\* The free list is what default_alloc_pages and default_free_pages take it
\* for: a sorted two-way list of maximal blocks of the frames nobody holds.
FreeListOK == TypeOK /\ ListOK /\ TotalOK /\ BlocksOK /\ Coalesced

=============================================================================
