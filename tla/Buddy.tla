------------------------------- MODULE Buddy -------------------------------
(***************************************************************************)
(* lab2's buddy allocator, kern/mm/buddy_pmm.c.  A free list is the        *)
(* sequence of the first frames of its blocks, which list_add extends at   *)
(* the front.                                                              *)
(***************************************************************************)
EXTENDS Integers, Sequences, FiniteSetsExt, SequencesExt

CONSTANTS
  buddy_npages,    \* frames handed to buddy_init_memmap
  BUDDY_MAX_ORDER

VARIABLES
  free_area,       \* the free blocks of each order
  free_nr_pages,
  used,            \* the frames the callers hold
  lost,            \* history: given with a request for fewer frames
  ret              \* what the last alloc_pages returned

buddyVars == <<free_area, free_nr_pages, used, lost, ret>>

Pages == 0..(buddy_npages - 1)
Orders == 0..(BUDDY_MAX_ORDER - 1)
NULL == -1
Run(base, n) == base..(base + n - 1)

ceil_order(n) == Min({o \in 0..n : 2^o >= n})

\* Faulty variant: the block behind, also where the buddy is the one before.
buddy_idx_of_Next(idx, order) == idx + 2^order

\* idx ^ (1 << order), of a block that starts at a multiple of its size.
buddy_idx_of(idx, order) ==
  IF (idx \div 2^order) % 2 = 0 THEN idx + 2^order ELSE idx - 2^order

pick_largest_order(idx, remain) ==
  Max({o \in Orders : \A k \in 1..o : 2^k <= remain /\ idx % 2^k = 0})

\* h is the allocator inside one call.
add_block(h, order, idx) ==
  [area |-> [h.area EXCEPT ![order] = <<idx>> \o @], nr |-> h.nr + 2^order]
del_block(h, order, idx) ==
  [area |-> [h.area EXCEPT ![order] = SelectSeq(@, LAMBDA p : p # idx)],
   nr |-> h.nr - 2^order]
Area == [area |-> free_area, nr |-> free_nr_pages]

\* The blocks that the loops of buddy_init_memmap and buddy_free_pages cut
\* n frames from idx on into.
Pieces(idx, n) ==
  LET from[left \in 0..n] ==
        IF left = 0 THEN <<>>
        ELSE LET at == idx + n - left
                 o == pick_largest_order(at, left) IN
             <<[idx |-> at, order |-> o]>> \o from[left - 2^o]
  IN from[n]

\* buddy_init, then buddy_init_memmap for all of the memory.
Init ==
  LET none == [area |-> [o \in Orders |-> <<>>], nr |-> 0]
      h == FoldLeft(LAMBDA x, b : add_block(x, b.order, b.idx), none, Pieces(0, buddy_npages)) IN
  /\ free_area = h.area /\ free_nr_pages = h.nr
  /\ used = {} /\ lost = {} /\ ret = NULL

\* The orders at which buddy_alloc_pages finds a block, large enough.
Found(n) == {o \in Orders : o >= ceil_order(n) /\ free_area[o] # <<>>}

\* The first block of the lowest such order is halved until it fits: the
\* right halves are free, the left one is given.
buddy_alloc_pages(n) ==
  /\ Found(n) # {}
  /\ LET o == Min(Found(n))
         need == ceil_order(n)
         idx == Head(free_area[o])
         h == FoldLeft(LAMBDA x, k : add_block(x, o - k, idx + 2^(o - k)),
                       del_block(Area, o, idx), [k \in 1..(o - need) |-> k]) IN
       /\ free_area' = h.area /\ free_nr_pages' = h.nr
       /\ ret' = idx
       /\ used' = used \cup Run(idx, n)
       /\ lost' = lost \cup (Run(idx, 2^need) \ Run(idx, n))

buddy_alloc_pages_NULL(n) ==
  /\ Found(n) = {}
  /\ ret' = NULL
  /\ UNCHANGED <<free_area, free_nr_pages, used, lost>>

\* The block of order k that frame idx is in.
BlockOf(idx, k) == idx - (idx % 2^k)

\* How far block b can be merged: its buddy is free at every order below.
MergedOrder(h, b) ==
  Max({m \in b.order..(BUDDY_MAX_ORDER - 1) :
         \A k \in b.order..(m - 1) :
           \E i \in DOMAIN h.area[k] : h.area[k][i] = buddy_idx_of(BlockOf(b.idx, k), k)})

\* One round of buddy_free_pages: b merges with its buddies, each of which
\* leaves its list.
FreeBlock(h, b) ==
  LET cur == MergedOrder(h, b)
      rest == FoldLeft(LAMBDA x, k : LET o == b.order + k - 1 IN
                         del_block(x, o, buddy_idx_of(BlockOf(b.idx, o), o)),
                       h, [k \in 1..(cur - b.order) |-> k]) IN
  add_block(rest, cur, BlockOf(b.idx, cur))

\* The callers free frames they hold, a part of an allocation included.
buddy_free_pages(base, n) ==
  /\ Run(base, n) \subseteq used
  /\ LET h == FoldLeft(FreeBlock, Area, Pieces(base, n)) IN
       free_area' = h.area /\ free_nr_pages' = h.nr
  /\ used' = used \ Run(base, n)
  /\ UNCHANGED <<lost, ret>>

Next == \E n \in 1..buddy_npages :
          \/ buddy_alloc_pages(n) \/ buddy_alloc_pages_NULL(n)
          \/ \E base \in Pages : buddy_free_pages(base, n)

(***************************************************************************)
(* Properties.                                                             *)
(***************************************************************************)
Blocks == UNION {{<<free_area[o][k], o>> : k \in DOMAIN free_area[o]} : o \in Orders}

\* The lists hold disjoint blocks that start at a multiple of their size; the
\* frames they cover are those nobody holds and no request has swallowed, and
\* free_nr_pages counts them.  No block and its buddy are free at the same
\* time, so whatever can be merged is.
BuddyOK ==
  /\ \A b \in Blocks : b[1] % 2^b[2] = 0
  /\ UNION {Run(b[1], 2^b[2]) : b \in Blocks} = Pages \ (used \cup lost)
  /\ \A b, c \in Blocks : b # c => Run(b[1], 2^b[2]) \cap Run(c[1], 2^c[2]) = {}
  /\ \A o \in Orders : IsInjective(free_area[o])
  /\ free_nr_pages = Cardinality(Pages \ (used \cup lost))
  /\ \A b \in Blocks : b[2] + 1 \in Orders => <<buddy_idx_of(b[1], b[2]), b[2]>> \notin Blocks
=============================================================================
