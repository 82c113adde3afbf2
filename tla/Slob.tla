-------------------------------- MODULE Slob --------------------------------
(***************************************************************************)
(* The kernel heap: kern/mm/kmalloc.c.  Free blocks are in one circular    *)
(* list, ascending by address with one step back, entered wherever the     *)
(* last call left slobfree; requests of about a page or more get pages of  *)
(* their own and a descriptor in the heap.                                 *)
(*                                                                         *)
(* An address counts units (slob_t).  The arena is address 0, page f of    *)
(* the machine is U * f and the U - 1 addresses after it.  A unit has UNIT *)
(* bytes.  slob_alloc and __kmalloc take a step per page they ask for;     *)
(* nothing else runs in between (`op').  slob_alloc is only ever called    *)
(* with align = 0.                                                         *)
(***************************************************************************)
EXTENDS Integers, Sequences, FiniteSets, SequencesExt

CONSTANTS
  U,            \* units of a page
  NPages,       \* pages of the machine
  FreePages,    \* which of them the heap may find free at the start
  Sizes         \* what kmalloc is asked for, in bytes

ASSUME SlobAssumption ==
  /\ U \in Nat /\ U > 2 /\ NPages \in Nat
  /\ \A S \in FreePages : S \subseteq 1..NPages
  /\ Sizes \subseteq Nat \ {0}

UNIT == 2
PAGE_SIZE == UNIT * U
BIGBLOCK == 3                            \* sizeof(bigblock_t)
Addrs == 0..(U * (NPages + 1) - 1)
NULL == -1
arena == 0

SLOB_UNITS(size) == (size + UNIT - 1) \div UNIT

VARIABLES
  units, next,  \* the headers; 0 and NULL where there is none
  slobfree,
  bigblocks,    \* the list of [at, order, pages]
  frames,       \* pages the machine has left
  heap,         \* history: pages the heap has got
  held,         \* what callers hold: pointers, with the size asked for
  op            \* the call in progress
listVars == <<units, next, slobfree>>
vars == <<units, next, slobfree, bigblocks, frames, heap, held, op>>

Idle == [at |-> "idle"]

Init ==
  /\ units = [a \in Addrs |-> IF a = arena THEN 1 ELSE 0]
  /\ next = [a \in Addrs |-> IF a = arena THEN arena ELSE NULL]
  /\ slobfree = arena
  /\ bigblocks = <<>>
  /\ frames \in FreePages
  /\ heap = {} /\ held = {}
  /\ op = Idle

----------------------------------------------------------------------------
(* slob_alloc *)

\* The blocks a walk from slobfree visits, and the step that returns there.
Walk[k \in 0..Cardinality(Addrs)] == IF k = 0 THEN slobfree ELSE next[Walk[k - 1]]
Round == CHOOSE k \in 1..Cardinality(Addrs) :
           Walk[k] = slobfree /\ \A j \in 1..(k - 1) : Walk[j] # slobfree

\* The place in the walk of the first block with room; slobfree comes last.
FitsAt(k, n) ==
  /\ k \in 1..Round /\ units[Walk[k]] >= n
  /\ \A j \in 1..(k - 1) : units[Walk[j]] < n
Fits(n) == \E k \in 1..Round : units[Walk[k]] >= n

\* Block cur, which comes after prev, is given away, or n units of it are.
\* (Its next field is the caller's now.)
Taken(prev, cur, n) ==
  IF units[cur] = n
  THEN /\ next' = [next EXCEPT ![prev] = next[cur], ![cur] = NULL]
       /\ units' = units
  ELSE /\ next' = [next EXCEPT ![prev] = cur + n, ![cur + n] = next[cur], ![cur] = NULL]
       /\ units' = [units EXCEPT ![cur + n] = units[cur] - n, ![cur] = n]

\* What the caller does with the block: a request of kmalloc returns it, a
\* descriptor goes on to get its pages (and overwrites the header).
SlobFound(k) ==
  LET n == SLOB_UNITS(op.size)
      prev == Walk[k - 1]
      cur == Walk[k] IN
  /\ op.at = "slob" /\ FitsAt(k, n)
  /\ Taken(prev, cur, n)
  /\ slobfree' = prev
  /\ IF op.big THEN op' = [op EXCEPT !.at = "pages", !.bb = cur] /\ UNCHANGED held
     ELSE op' = Idle /\ held' = held \cup {[ptr |-> cur + 1, size |-> op.req]}
  /\ UNCHANGED <<bigblocks, frames, heap>>

----------------------------------------------------------------------------
(* slob_free *)

\* The block after which b belongs: between its neighbours, or where the list
\* steps back, below the lowest or above the highest.
IsPlace(c, b) ==
  \/ b > c /\ b < next[c]
  \/ c >= next[c] /\ (b > c \/ b < next[c])

Place(b) ==
  LET k == CHOOSE k \in 0..Round : /\ IsPlace(Walk[k], b)
                                   /\ \A j \in 0..(k - 1) : ~IsPlace(Walk[j], b)
  IN Walk[k]

\* Faulty variant: no merging with the block before.
MergesPrev_Not(cur, b) == FALSE

\* The block before b ends where b starts.
MergesPrev(cur, b) == cur + units[cur] = b

\* slob_free of n units at b.
SlobFree(b, n) ==
  LET cur == Place(b)
      after == next[cur]
      joinNext == b + n = after
      bn == IF joinNext THEN n + units[after] ELSE n
      bnext == IF joinNext THEN next[after] ELSE after
      joinPrev == MergesPrev(cur, b) IN
  /\ units' = [a \in Addrs |->
       CASE a = cur /\ joinPrev -> units[cur] + bn
         [] a = b               -> IF joinPrev THEN 0 ELSE bn
         [] a = after /\ joinNext /\ a # cur -> 0
         [] OTHER               -> units[a]]
  /\ next' = [a \in Addrs |->
       CASE a = cur -> IF joinPrev THEN bnext ELSE b
         [] a = b   -> IF joinPrev THEN NULL ELSE bnext
         [] a = after /\ joinNext -> NULL
         [] OTHER   -> next[a]]
  /\ slobfree' = cur

----------------------------------------------------------------------------
(* The rest of slob_alloc: no block has room *)

SlobGrow(f) ==
  /\ op.at = "slob" /\ ~Fits(SLOB_UNITS(op.size)) /\ f \in frames
  /\ frames' = frames \ {f}
  /\ heap' = heap \cup {f}
  /\ SlobFree(f * U, SLOB_UNITS(PAGE_SIZE))
  /\ op' = [op EXCEPT !.grown = @ + 1]
  /\ UNCHANGED <<bigblocks, held>>

SlobFails ==
  /\ op.at = "slob" /\ ~Fits(SLOB_UNITS(op.size)) /\ frames = {}
  /\ op' = Idle
  /\ UNCHANGED <<listVars, bigblocks, frames, heap, held>>

----------------------------------------------------------------------------
(* kmalloc and kfree *)

\* The assertion of slob_alloc is part of the guard: __kmalloc lets sizes from
\* PAGE_SIZE - 2 * SLOB_UNIT on come to it that it does not accept, and no
\* caller in the kernel asks for one.
Kmalloc(size) ==
  LET big == size >= PAGE_SIZE - UNIT
      bytes == IF big THEN BIGBLOCK ELSE size + UNIT IN
  /\ op = Idle
  /\ bytes + UNIT < PAGE_SIZE
  /\ op' = [at |-> "slob", req |-> size, size |-> bytes, big |-> big,
            bb |-> NULL, grown |-> 0]
  /\ UNCHANGED <<listVars, bigblocks, frames, heap, held>>

\* 1 << k
Pow2[k \in Nat] == IF k = 0 THEN 1 ELSE 2 * Pow2[k - 1]

\* find_order halves the size until it is at most a page.
find_order(size) == CHOOSE o \in 0..size :
  /\ size \div Pow2[o] <= PAGE_SIZE
  /\ \A p \in 0..(o - 1) : size \div Pow2[p] > PAGE_SIZE

\* Nothing is asked for that find_order finds too few pages for, as it does two
\* for a byte more than two pages hold.
SizesFit == \A size \in Sizes :
  size >= PAGE_SIZE - UNIT => PAGE_SIZE * Pow2[find_order(size)] >= size

PagesFrom(f, order) == f..(f + Pow2[order] - 1)
HasPages(order) == \E f \in frames : PagesFrom(f, order) \subseteq frames

BigPages(f) ==
  LET o == find_order(op.req) IN
  /\ op.at = "pages" /\ PagesFrom(f, o) \subseteq frames
  /\ frames' = frames \ PagesFrom(f, o)
  /\ bigblocks' = <<[at |-> op.bb, order |-> o, pages |-> f]>> \o bigblocks
  /\ units' = [units EXCEPT ![op.bb] = 0]
  /\ held' = held \cup {[ptr |-> f * U, size |-> op.req]}
  /\ op' = Idle
  /\ UNCHANGED <<next, slobfree, heap>>

BigFails ==
  /\ op.at = "pages" /\ ~HasPages(find_order(op.req))
  /\ SlobFree(op.bb, SLOB_UNITS(BIGBLOCK))
  /\ op' = Idle
  /\ UNCHANGED <<bigblocks, frames, heap, held>>

\* Faulty variant: every pointer at the start of a page is a big block.
BigIndex_Aligned(p) == IF p % U = 0 THEN DOMAIN bigblocks ELSE {}

\* The descriptors of pointer p: kfree looks for one only when p is at the
\* start of a page, where a small block may begin too.
BigIndex(p) == IF p % U = 0 THEN {i \in DOMAIN bigblocks : bigblocks[i].pages * U = p}
               ELSE {}

Kfree(h) ==
  /\ op = Idle
  /\ held' = held \ {h}
  /\ IF BigIndex(h.ptr) = {}
     THEN /\ SlobFree(h.ptr - 1, units[h.ptr - 1])
          /\ UNCHANGED <<bigblocks, frames>>
     ELSE LET i == CHOOSE i \in BigIndex(h.ptr) : \A j \in BigIndex(h.ptr) : i <= j
              bb == bigblocks[i] IN
          /\ bigblocks' = RemoveAt(bigblocks, i)
          /\ frames' = frames \cup PagesFrom(bb.pages, bb.order)
          /\ SlobFree(bb.at, SLOB_UNITS(BIGBLOCK))
  /\ UNCHANGED <<heap, op>>

Next ==
  \/ \E size \in Sizes : Kmalloc(size)
  \/ \E k \in DOMAIN Walk \ {0} : SlobFound(k)
  \/ \E f \in frames : SlobGrow(f) \/ BigPages(f)
  \/ SlobFails \/ BigFails
  \/ \E h \in held : Kfree(h)

Spec == Init /\ [][Next]_vars

----------------------------------------------------------------------------
(* Properties *)

TypeOK ==
  /\ units \in [Addrs -> Nat] /\ next \in [Addrs -> Addrs \cup {NULL}]
  /\ slobfree \in Addrs
  /\ frames \subseteq 1..NPages /\ heap \subseteq 1..NPages

\* ksize, in bytes
ksize(h) ==
  IF BigIndex(h.ptr) = {} THEN units[h.ptr - 1] * UNIT
  ELSE PAGE_SIZE * Pow2[bigblocks[CHOOSE i \in BigIndex(h.ptr) : TRUE].order]

Listed == {a \in Addrs : next[a] # NULL}
Small == {h \in held : BigIndex(h.ptr) = {}}
Descs == {bigblocks[i].at : i \in DOMAIN bigblocks}
         \cup (IF op.at = "pages" THEN {op.bb} ELSE {})

\* The blocks of the heap that are in use, by their length.
Used == [a \in {h.ptr - 1 : h \in Small} \cup Descs |->
           IF a \in Descs THEN SLOB_UNITS(BIGBLOCK) ELSE units[a]]

Run(a, n) == a..(a + n - 1)
Cells == {arena} \cup UNION {Run(f * U, U) : f \in heap}

\* The free list is one cycle through all free blocks, ascending but for one
\* step back, and no two of its blocks touch.  Free blocks, blocks in use and
\* descriptors are disjoint and make up the arena and the pages of the heap;
\* a caller has the bytes it asked for and its header is as slob_alloc left it.
\* No request makes the heap grow twice.
HeapOK ==
  /\ TypeOK
  /\ {Walk[k] : k \in 0..Round} = Listed
  /\ Cardinality(Listed) = Round
  /\ Cardinality({a \in Listed : next[a] <= a}) = 1
  /\ \A a \in Listed : units[a] > 0 /\ a + units[a] \notin Listed
  /\ Cells = (UNION {Run(a, units[a]) : a \in Listed})
             \cup (UNION {Run(a, Used[a]) : a \in DOMAIN Used})
  /\ \A a, b \in Listed \cup DOMAIN Used : a < b =>
       a + (IF a \in Listed THEN units[a] ELSE Used[a]) <= b
  /\ Listed \cap DOMAIN Used = {}
  /\ \A h \in Small : units[h.ptr - 1] = SLOB_UNITS(h.size + UNIT)
  /\ \A h \in held : ksize(h) >= h.size
  /\ op.at = "slob" => op.grown <= 1

Heap == INSTANCE HeapSpec WITH
  Pages <- 1..NPages, heap <- Cells \ {arena}, used <- Used,
  want <- IF op.at = "slob" THEN SLOB_UNITS(op.size) ELSE 0

\* Every call does what a heap promises.
HeapRefinement == Heap!HSpec
=============================================================================
