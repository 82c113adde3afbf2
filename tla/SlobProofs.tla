----------------------------- MODULE SlobProofs -----------------------------
(***************************************************************************)
(* The kernel heap: what slob_alloc and slob_free leave of the list of     *)
(* free blocks and of the pages.                                           *)
(***************************************************************************)
EXTENDS Slob, FiniteSetTheorems, SequenceTheorems, NaturalsInduction,
        WellFoundedInduction, TLAPS

----------------------------------------------------------------------------
(* Numbers and sequences *)

\* A set of numbers that is not empty has a least one.
LEMMA LeastNat ==
  ASSUME NEW T \in SUBSET Nat, T # {}
  PROVE  \E n \in T : \A m \in T : n <= m
<1>1. IsWellFoundedOn(OpToRel(<, Nat), Nat)
  BY NatLessThanWellFounded
<1>2. PICK n \in T : \A m \in T : ~(<<m, n>> \in OpToRel(<, Nat))
  BY <1>1, WFMin
<1>3. ASSUME NEW m \in T, m < n PROVE FALSE
  <2>1. <<m, n>> \in OpToRel(<, Nat)
    BY <1>3 DEF OpToRel
  <2> QED BY <1>2, <2>1
<1>4. \A m \in T : n <= m
  BY <1>3, n \in Nat
<1> QED BY <1>4

\* Induction, over a set of numbers.
LEMMA SetInduction ==
  ASSUME NEW T \in SUBSET Nat, 0 \in T, \A n \in T : n + 1 \in T
  PROVE  T = Nat
<1>1. SUFFICES ASSUME Nat \ T # {} PROVE FALSE
  OBVIOUS
<1>2. PICK n \in Nat \ T : \A m \in Nat \ T : n <= m
  BY <1>1, LeastNat
<1>3. n # 0 /\ n - 1 \in Nat /\ n - 1 \in T
  BY <1>2
<1> QED BY <1>3, <1>2

\* A descriptor put in front ...
LEMMA HandFacts ==
  ASSUME NEW S, NEW q \in Seq(S), NEW p \in S
  PROVE  /\ <<p>> \o q \in Seq(S)
         /\ Len(<<p>> \o q) = Len(q) + 1
         /\ (<<p>> \o q)[1] = p
         /\ \A k \in 2..(Len(q) + 1) : (<<p>> \o q)[k] = q[k - 1]
<1>1. <<p>> \in Seq(S) /\ Len(<<p>>) = 1 /\ <<p>>[1] = p /\ Len(q) \in Nat
  OBVIOUS
<1> QED BY <1>1, ConcatProperties

\* ... and one taken out.
LEMMA DropFacts ==
  ASSUME NEW S, NEW q \in Seq(S), NEW k \in 1..Len(q)
  PROVE  LET r == SubSeq(q, 1, k - 1) \o SubSeq(q, k + 1, Len(q)) IN
         /\ r \in Seq(S) /\ Len(r) = Len(q) - 1
         /\ \A j \in 1..(Len(q) - 1) : r[j] = IF j < k THEN q[j] ELSE q[j + 1]
<1> DEFINE a == SubSeq(q, 1, k - 1)
           b == SubSeq(q, k + 1, Len(q))
<1>0. k \in Int /\ Len(q) \in Nat /\ \A j \in 1..Len(q) : q[j] \in S
  OBVIOUS
<1>1. /\ a \in Seq(S) /\ Len(a) = k - 1
      /\ \A j \in 1..(k - 1) : a[j] = q[j]
  <2>1. k - 1 \in Int /\ 1 \in Int /\ \A j \in 1..(k - 1) : q[j] \in S
    BY <1>0
  <2>2. /\ SubSeq(q, 1, k - 1) \in Seq(S)
        /\ Len(SubSeq(q, 1, k - 1)) = IF 1 <= k - 1 THEN k - 1 - 1 + 1 ELSE 0
        /\ \A i \in 1..(k - 1 - 1 + 1) : SubSeq(q, 1, k - 1)[i] = q[1 + i - 1]
    BY <2>1, SubSeqProperties
  <2> QED BY <1>0, <2>2
<1>2. /\ b \in Seq(S) /\ Len(b) = Len(q) - k
      /\ \A j \in 1..(Len(q) - k) : b[j] = q[j + k]
  <2>1. k + 1 \in Int /\ Len(q) \in Int /\ \A j \in (k + 1)..Len(q) : q[j] \in S
    BY <1>0
  <2>2. /\ SubSeq(q, k + 1, Len(q)) \in Seq(S)
        /\ Len(SubSeq(q, k + 1, Len(q))) =
             IF k + 1 <= Len(q) THEN Len(q) - (k + 1) + 1 ELSE 0
        /\ \A i \in 1..(Len(q) - (k + 1) + 1) :
             SubSeq(q, k + 1, Len(q))[i] = q[k + 1 + i - 1]
    BY <2>1, SubSeqProperties
  <2> QED BY <1>0, <2>2
<1> HIDE DEF a, b
<1>3. /\ a \o b \in Seq(S) /\ Len(a \o b) = Len(a) + Len(b)
      /\ \A j \in 1..(Len(a) + Len(b)) :
           (a \o b)[j] = IF j <= Len(a) THEN a[j] ELSE b[j - Len(a)]
  BY <1>1, <1>2, ConcatProperties
<1>4. /\ a \o b \in Seq(S) /\ Len(a \o b) = Len(q) - 1
      /\ \A j \in 1..(Len(q) - 1) : (a \o b)[j] = IF j < k THEN q[j] ELSE q[j + 1]
  <2>1. Len(a) + Len(b) = Len(q) - 1
    BY <1>0, <1>1, <1>2
  <2>2. ASSUME NEW j \in 1..(Len(q) - 1)
        PROVE  (a \o b)[j] = IF j < k THEN q[j] ELSE q[j + 1]
    <3>1. (a \o b)[j] = IF j <= k - 1 THEN a[j] ELSE b[j - (k - 1)]
      BY <1>1, <1>3, <2>1
    <3>2. CASE j < k
      <4>1. j <= k - 1 /\ j \in 1..(k - 1)
        BY <1>0, <3>2
      <4> QED BY <1>1, <3>1, <3>2, <4>1
    <3>3. CASE ~(j < k)
      <4>1. ~(j <= k - 1) /\ j - (k - 1) \in 1..(Len(q) - k)
            /\ j - (k - 1) + k = j + 1
        BY <1>0, <3>3
      <4> QED BY <1>2, <3>1, <3>3, <4>1
    <3> QED BY <3>2, <3>3
  <2> QED BY <1>3, <2>1, <2>2
<1> QED BY <1>4 DEF a, b

\* Quotient and remainder.
LEMMA DivMod ==
  ASSUME NEW x \in Nat, NEW M \in Nat, M > 0
  PROVE  /\ x \div M \in Nat
         /\ x % M \in 0..(M - 1)
         /\ x = (x \div M) * M + (x % M)
<1>1. x % M \in 0..(M - 1)
  OBVIOUS
<1>2. x = (x \div M) * M + (x % M)
  OBVIOUS
<1>3. x \div M \in Int
  OBVIOUS
<1>4. CASE x \div M < 0
  <2>1. (x \div M) * M <= -M
    BY <1>3, <1>4
  <2> QED BY <2>1, <1>1, <1>2
<1> QED BY <1>1, <1>2, <1>3, <1>4

\* A function can be applied again and again.
Steps(S, g, s, n, f) ==
  /\ f \in [0..n -> S] /\ f[0] = s
  /\ \A k \in 0..n : k # 0 => f[k] = g[f[k - 1]]

LEMMA StepsUnique ==
  ASSUME NEW S, NEW g, NEW s, NEW n \in Nat, NEW m \in Nat, n <= m, NEW f, NEW h,
         Steps(S, g, s, n, f), Steps(S, g, s, m, h)
  PROVE  \A k \in 0..n : f[k] = h[k]
<1> DEFINE D == {k \in 0..n : f[k] # h[k]}
<1>1. SUFFICES ASSUME D # {} PROVE FALSE
  OBVIOUS
<1>2. PICK k \in D : \A j \in D : k <= j
  <2>1. D \in SUBSET Nat
    OBVIOUS
  <2> QED BY <1>1, <2>1, LeastNat
<1>3. k # 0 /\ k - 1 \in 0..n /\ k \in 0..m
  BY <1>2 DEF Steps
<1>4. f[k - 1] = h[k - 1]
  BY <1>2, <1>3
<1> QED BY <1>2, <1>3, <1>4 DEF Steps

LEMMA StepsExist ==
  ASSUME NEW S, NEW g \in [S -> S], NEW s \in S, NEW n \in Nat
  PROVE  \E f : Steps(S, g, s, n, f)
<1> DEFINE T == {k \in Nat : \E f : Steps(S, g, s, k, f)}
<1>1. 0 \in T
  <2>1. Steps(S, g, s, 0, [k \in 0..0 |-> s])
    BY DEF Steps
  <2> QED BY <2>1
<1>2. ASSUME NEW k \in T PROVE k + 1 \in T
  <2>1. PICK f : Steps(S, g, s, k, f)
    OBVIOUS
  <2> DEFINE h == [i \in 0..(k + 1) |-> IF i = k + 1 THEN g[f[k]] ELSE f[i]]
  <2>2. f[k] \in S /\ g[f[k]] \in S
    BY <2>1 DEF Steps
  <2>3. h \in [0..(k + 1) -> S] /\ h[0] = s
    BY <2>1, <2>2 DEF Steps
  <2>4. ASSUME NEW i \in 0..(k + 1), i # 0 PROVE h[i] = g[h[i - 1]]
    BY <2>1, <2>4 DEF Steps
  <2>5. Steps(S, g, s, k + 1, h)
    BY <2>3, <2>4 DEF Steps
  <2> QED BY <2>5
<1>3. T = Nat
  <2> HIDE DEF T
  <2>1. T \in SUBSET Nat
    BY DEF T
  <2> QED BY <1>1, <1>2, <2>1, SetInduction
<1> QED BY <1>3

Iterates(S, g, s, f) ==
  f \in [Nat -> S] /\ f[0] = s /\ \A n \in Nat : n # 0 => f[n] = g[f[n - 1]]

LEMMA Iterate ==
  ASSUME NEW S, NEW g \in [S -> S], NEW s \in S
  PROVE  \E f : Iterates(S, g, s, f)
<1> DEFINE p(n) == CHOOSE f : Steps(S, g, s, n, f)
           h == [n \in Nat |-> p(n)[n]]
<1>1. \A n \in Nat : Steps(S, g, s, n, p(n))
  BY StepsExist
<1> HIDE DEF p
<1>2. h \in [Nat -> S] /\ h[0] = s
  BY <1>1 DEF Steps
<1>3. ASSUME NEW n \in Nat, n # 0 PROVE h[n] = g[h[n - 1]]
  <2>1. n - 1 \in Nat /\ n - 1 \in 0..(n - 1) /\ n - 1 <= n /\ n \in 0..n
    BY <1>3
  <2>2. p(n)[n] = g[p(n)[n - 1]]
    BY <1>1, <1>3, <2>1 DEF Steps
  <2>3. p(n - 1)[n - 1] = p(n)[n - 1]
    BY <1>1, <2>1, StepsUnique
  <2> QED BY <2>1, <2>2, <2>3
<1> QED BY <1>2, <1>3 DEF Iterates

\* 1 << k
LEMMA PowIs ==
  /\ Pow2[0] = 1
  /\ \A k \in Nat : Pow2[k] \in Nat /\ Pow2[k] > k
  /\ \A k \in Nat : k # 0 => Pow2[k] = 2 * Pow2[k - 1]
<1> DEFINE g == [x \in Nat |-> 2 * x]
<1>1. PICK f : Iterates(Nat, g, 1, f)
  <2>1. g \in [Nat -> Nat] /\ 1 \in Nat
    OBVIOUS
  <2> HIDE DEF g
  <2> QED BY <2>1, Iterate
<1>2. \A n \in Nat : n # 0 => f[n] = 2 * f[n - 1]
  <2>1. \A n \in Nat : n # 0 => f[n - 1] \in Nat
    BY <1>1 DEF Iterates
  <2> QED BY <1>1, <2>1 DEF Iterates
<1>3. f = [k \in Nat |-> IF k = 0 THEN 1 ELSE 2 * f[k - 1]]
  BY <1>1, <1>2 DEF Iterates
<1>4. Pow2 = [k \in Nat |-> IF k = 0 THEN 1 ELSE 2 * Pow2[k - 1]]
  BY <1>3 DEF Pow2
<1>5. Pow2[0] = 1 /\ \A k \in Nat : k # 0 => Pow2[k] = 2 * Pow2[k - 1]
  BY <1>4
<1> DEFINE T == {k \in Nat : Pow2[k] \in Nat /\ Pow2[k] > k}
<1>6. T = Nat
  <2>1. 0 \in T
    BY <1>5
  <2>2. ASSUME NEW k \in T PROVE k + 1 \in T
    <3>1. k + 1 \in Nat /\ k + 1 # 0 /\ k + 1 - 1 = k
      OBVIOUS
    <3>2. Pow2[k + 1] = 2 * Pow2[k]
      BY <1>5, <3>1
    <3> QED BY <3>1, <3>2
  <2> HIDE DEF T
  <2>3. T \in SUBSET Nat
    BY DEF T
  <2> QED BY <2>1, <2>2, <2>3, SetInduction
<1> QED BY <1>5, <1>6

\* find_order comes to an end.
LEMMA OrderIs ==
  ASSUME NEW size \in Nat
  PROVE  find_order(size) \in Nat
<1> DEFINE T == {o \in 0..size : size \div Pow2[o] <= PAGE_SIZE}
<1>0. PAGE_SIZE \in Nat
  BY SlobAssumption DEF PAGE_SIZE, UNIT
<1>1. size \in T
  <2>1. Pow2[size] \in Nat /\ Pow2[size] > size
    BY PowIs
  <2>2. \A M \in Nat : M > size => size \div M = 0
    OBVIOUS
  <2>3. size \div Pow2[size] = 0
    BY <2>1, <2>2
  <2> QED BY <1>0, <2>3
<1>2. PICK o \in T : \A p \in T : o <= p
  <2>1. T \in SUBSET Nat
    OBVIOUS
  <2> QED BY <1>1, <2>1, LeastNat
<1>3. \A p \in 0..(o - 1) : size \div Pow2[p] > PAGE_SIZE
  <2> SUFFICES ASSUME NEW p \in 0..(o - 1) PROVE size \div Pow2[p] > PAGE_SIZE
    OBVIOUS
  <2>1. p \in 0..size /\ p < o
    BY <1>2
  <2>2. p \notin T
    BY <1>2, <2>1
  <2>3. size \div Pow2[p] \in Int
    <3>1. Pow2[p] \in Nat /\ Pow2[p] > 0
      BY <2>1, PowIs
    <3> QED BY <3>1, DivMod
  <2> QED BY <1>0, <2>1, <2>2, <2>3
<1>4. \E q \in 0..size : size \div Pow2[q] <= PAGE_SIZE /\ \A p \in 0..(q - 1) : size \div Pow2[p] > PAGE_SIZE
  BY <1>2, <1>3
<1> QED BY <1>4 DEF find_order

\* A run of pages has its first one.
LEMMA PagesIs ==
  ASSUME NEW f \in Nat, NEW o \in Nat
  PROVE  f \in PagesFrom(f, o)
<1>1. Pow2[o] \in Nat /\ Pow2[o] >= 1
  BY PowIs
<1> QED BY <1>1 DEF PagesFrom

\* Pages lie one after the other.
LEMMA PageApart ==
  ASSUME NEW f \in Nat, NEW g \in Nat
  PROVE  /\ f * U \in Nat /\ (f < g => f * U + U <= g * U) /\ (f * U = g * U => f = g)
         /\ (f * U) % U = 0
<1>1. U \in Nat /\ U > 2
  BY SlobAssumption
<1>2. ASSUME NEW i \in Nat, NEW j \in Nat, i < j PROVE i * U + U <= j * U
  BY <1>1, <1>2
<1>3. (f * U) % U = 0
  BY <1>1
<1> QED BY <1>1, <1>2, <1>3

----------------------------------------------------------------------------
(***************************************************************************)
(* The invariant.  The list is described by the order of addresses instead *)
(* of by a walk: every block but the highest leads to the next one above   *)
(* it, the highest to the arena (Chain).  Blocks, free or not, are the     *)
(* tiles of the pages of the heap (Tiling).                                *)
(***************************************************************************)
Chain(L, nx) ==
  /\ arena \in L
  /\ \A a \in L : nx[a] \in L
  /\ \A a, c \in L : a < c => a < nx[a] /\ nx[a] <= c
  /\ \A a \in L : nx[a] <= a => nx[a] = arena

\* The blocks of len, by their lengths, are the cells of C.
Tiling(C, len) ==
  /\ DOMAIN len \subseteq Addrs /\ C \subseteq Addrs
  /\ \A a \in DOMAIN len : len[a] \in Nat \ {0} /\ Run(a, len[a]) \subseteq C
  /\ \A a, b \in DOMAIN len : a < b => a + len[a] <= b
  /\ \A x \in C : \E a \in DOMAIN len : x \in Run(a, len[a])

InUse == {h.ptr - 1 : h \in Small} \cup Descs
Length(a) == IF a \in Descs THEN SLOB_UNITS(BIGBLOCK) ELSE units[a]
Lengths == [a \in Listed \cup InUse |-> Length(a)]

\* The list of free blocks.
ListOK ==
  /\ TypeOK /\ Chain(Listed, next) /\ slobfree \in Listed /\ units[arena] = 1
  /\ \A a \in Listed : a + units[a] \notin Listed

\* The blocks of the heap.
BlocksOK == Tiling(Cells, Lengths) /\ Listed \cap InUse = {}

\* What callers hold.
HeldOK ==
  /\ held \subseteq [ptr : Nat, size : Sizes]
  /\ \A h, g \in held : h.ptr = g.ptr => h = g
  /\ \A h \in Small : h.ptr - 1 \notin Descs /\ units[h.ptr - 1] = SLOB_UNITS(h.size + UNIT)

\* Blocks of pages, with a descriptor each.
BigOK ==
  /\ bigblocks \in Seq([at : Addrs, order : Nat, pages : 1..NPages])
  /\ \A i, j \in DOMAIN bigblocks : i # j =>
       /\ bigblocks[i].at # bigblocks[j].at
       /\ PagesFrom(bigblocks[i].pages, bigblocks[i].order)
            \cap PagesFrom(bigblocks[j].pages, bigblocks[j].order) = {}
  /\ \A i \in DOMAIN bigblocks :
       /\ op.at = "pages" => bigblocks[i].at # op.bb
       /\ PagesFrom(bigblocks[i].pages, bigblocks[i].order) \subseteq (1..NPages) \ (heap \cup frames)
       /\ \A h \in held : bigblocks[i].pages * U = h.ptr =>
            h.size >= PAGE_SIZE - UNIT /\ bigblocks[i].order = find_order(h.size)
  /\ heap \cap frames = {}

\* The call in progress.
CallOK ==
  op = Idle \/
  /\ op \in [at : {"slob", "pages"}, req : Sizes, size : Nat, big : BOOLEAN,
             bb : Addrs \cup {NULL}, grown : {0, 1}]
  /\ op.big <=> op.req >= PAGE_SIZE - UNIT
  /\ op.size = IF op.big THEN BIGBLOCK ELSE op.req + UNIT
  /\ op.size + UNIT < PAGE_SIZE
  /\ op.at = "pages" => op.big /\ op.bb \in Addrs
  /\ op.at = "slob" /\ op.grown = 1 => \E a \in Listed : units[a] >= SLOB_UNITS(op.size)

IInv == ListOK /\ BlocksOK /\ HeldOK /\ BigOK /\ CallOK

----------------------------------------------------------------------------
(* The list, by walk and by order *)

LEMMA AddrFacts ==
  /\ arena = 0 /\ arena \in Addrs /\ NULL \notin Addrs /\ Addrs \subseteq Nat
  /\ IsFiniteSet(Addrs) /\ Cardinality(Addrs) \in Nat
  /\ \E m \in Nat : Addrs = 0..m
<1>1. U * (NPages + 1) - 1 \in Nat
  <2>1. U * (NPages + 1) >= U
    BY SlobAssumption
  <2> QED BY <2>1, SlobAssumption
<1>2. IsFiniteSet(Addrs)
  BY <1>1, FS_Interval DEF Addrs
<1> QED BY <1>1, <1>2, FS_CardinalityType DEF Addrs, arena, NULL

LEMMA Greatest ==
  ASSUME NEW T \in SUBSET Addrs, T # {}
  PROVE  \E n \in T : \A m \in T : m <= n
<1>1. PICK top \in Nat : Addrs = 0..top
  BY AddrFacts
<1> DEFINE B == {m \in Nat : \A x \in T : x <= m}
<1>2. PICK b \in B : \A m \in B : b <= m
  <2>1. B \in SUBSET Nat /\ top \in B
    BY <1>1
  <2> QED BY <2>1, LeastNat
<1>3. \A x \in T : x \in Nat /\ x <= b
  BY <1>1, <1>2
<1>4. b \in T
  <2>1. SUFFICES ASSUME b \notin T PROVE FALSE
    OBVIOUS
  <2>2. \A x \in T : x <= b - 1
    BY <1>3, <2>1
  <2>3. b # 0
    BY <1>3, <2>2
  <2>4. b - 1 \in B
    BY <2>2, <2>3
  <2> QED BY <1>2, <2>4
<1> QED BY <1>3, <1>4

LEMMA NextInjective ==
  ASSUME NEW L \in SUBSET Addrs, NEW nx, Chain(L, nx), NEW a \in L, NEW c \in L, nx[a] = nx[c]
  PROVE  a = c
<1>1. L \subseteq Nat /\ arena = 0
  BY AddrFacts
<1>2. ASSUME NEW x \in L, NEW y \in L, x < y PROVE nx[x] # nx[y]
  <2>1. x < nx[x] /\ nx[x] <= y /\ nx[x] \in L /\ nx[y] \in L
    BY <1>2 DEF Chain
  <2>2. nx[y] <= y => nx[y] = 0
    BY <1>1 DEF Chain
  <2> QED BY <1>1, <2>1, <2>2
<1> QED BY <1>1, <1>2

\* What is closed under the links is the whole list.
LEMMA ChainClosed ==
  ASSUME NEW L \in SUBSET Addrs, NEW nx, Chain(L, nx),
         NEW S \in SUBSET L, S # {}, \A a \in S : nx[a] \in S
  PROVE  S = L
<1>1. L \subseteq Nat /\ arena = 0 /\ S \in SUBSET Addrs
  BY AddrFacts
<1>2. arena \in S
  <2>1. PICK m \in S : \A a \in S : a <= m
    BY <1>1, Greatest
  <2> QED BY <1>1, <2>1 DEF Chain
<1>3. SUFFICES ASSUME NEW c \in L, c \notin S PROVE FALSE
  OBVIOUS
<1> DEFINE T == {x \in S : x < c}
<1>4. PICK p \in T : \A x \in T : x <= p
  <2>1. arena < c
    BY <1>1, <1>2, <1>3
  <2>2. T \in SUBSET Addrs /\ T # {}
    BY <1>1, <1>2, <2>1
  <2> HIDE DEF T
  <2> QED BY <2>2, Greatest
<1>5. p < nx[p] /\ nx[p] <= c /\ nx[p] \in S
  BY <1>3, <1>4 DEF Chain
<1>6. nx[p] \in T
  <2>1. nx[p] \in Nat /\ c \in Nat /\ nx[p] # c
    BY <1>1, <1>3, <1>5
  <2> QED BY <1>5, <2>1
<1>7. nx[p] <= p /\ p \in Nat /\ nx[p] \in Nat
  BY <1>1, <1>4, <1>6
<1> QED BY <1>5, <1>7

LEMMA WalkIs ==
  ASSUME TypeOK, Chain(Listed, next), slobfree \in Listed
  PROVE  /\ Walk[0] = slobfree
         /\ \A k \in 0..Cardinality(Addrs) :
              Walk[k] \in Listed /\ (k # 0 => Walk[k] = next[Walk[k - 1]])
<1> DEFINE N == Cardinality(Addrs)
           g == [a \in Listed |-> next[a]]
<1>1. N \in Nat
  BY AddrFacts
<1>2. PICK f : Iterates(Listed, g, slobfree, f)
  <2>1. g \in [Listed -> Listed]
    BY DEF Chain
  <2> HIDE DEF g
  <2> QED BY <2>1, Iterate
<1> DEFINE w == [k \in 0..N |-> f[k]]
<1>3. \A k \in 0..N : w[k] \in Listed /\ (k # 0 => w[k] = next[w[k - 1]])
  <2>1. ASSUME NEW k \in 0..N PROVE f[k] \in Listed
    BY <1>2 DEF Iterates
  <2>2. ASSUME NEW k \in 0..N, k # 0 PROVE w[k] = next[w[k - 1]]
    <3>1. k \in Nat /\ k - 1 \in 0..N
      BY <1>1, <2>2
    <3>2. f[k] = g[f[k - 1]] /\ f[k - 1] \in Listed
      BY <1>2, <2>2, <3>1 DEF Iterates
    <3> QED BY <3>1, <3>2
  <2> QED BY <2>1, <2>2
<1>4. w[0] = slobfree
  BY <1>1, <1>2 DEF Iterates
<1>5. w = [k \in 0..N |-> IF k = 0 THEN slobfree ELSE next[w[k - 1]]]
  BY <1>3, <1>4
<1>6. Walk = [k \in 0..N |-> IF k = 0 THEN slobfree ELSE next[Walk[k - 1]]]
  BY <1>5 DEF Walk
<1>7. Walk[0] = slobfree /\ \A k \in 0..N : k # 0 => Walk[k] = next[Walk[k - 1]]
  BY <1>1, <1>6
<1> DEFINE T == {k \in Nat : k \in 0..N => Walk[k] \in Listed}
<1>8. T = Nat
  <2>1. 0 \in T
    BY <1>7
  <2>2. ASSUME NEW k \in T PROVE k + 1 \in T
    <3> SUFFICES ASSUME k + 1 \in 0..N PROVE Walk[k + 1] \in Listed
      OBVIOUS
    <3>1. k \in 0..N /\ k + 1 # 0 /\ k + 1 - 1 = k
      BY <1>1
    <3>2. Walk[k + 1] = next[Walk[k]]
      BY <1>7, <3>1
    <3> QED BY <3>1, <3>2 DEF Chain
  <2> HIDE DEF T
  <2>3. T \in SUBSET Nat
    BY DEF T
  <2> QED BY <2>1, <2>2, <2>3, SetInduction
<1> QED BY <1>1, <1>7, <1>8

\* Two visits of one block are as far apart as one of slobfree from the start.
LEMMA WalkBack ==
  ASSUME TypeOK, Chain(Listed, next), slobfree \in Listed,
         NEW i \in Nat, NEW j \in 0..Cardinality(Addrs), i < j, Walk[i] = Walk[j]
  PROVE  Walk[j - i] = slobfree
<1> DEFINE N == Cardinality(Addrs)
           Bad(x, y) == y <= N /\ x < y /\ Walk[x] = Walk[y] /\ Walk[y - x] # slobfree
           T == {x \in Nat : \E y \in Nat : Bad(x, y)}
<1>0. N \in Nat /\ Listed \in SUBSET Addrs
  BY AddrFacts DEF Listed
<1>1. SUFFICES ASSUME T # {} PROVE FALSE
  <2>1. i \notin T
    BY <1>1
  <2> QED BY <1>0, <2>1
<1>2. PICK x \in T : \A z \in T : x <= z
  <2>1. T \in SUBSET Nat
    OBVIOUS
  <2> HIDE DEF T
  <2> QED BY <1>1, <2>1, LeastNat
<1>3. PICK y \in Nat : Bad(x, y)
  BY <1>2
<1>4. x \in Nat /\ x \in 0..N /\ y \in 0..N /\ y # 0
  BY <1>0, <1>2, <1>3
<1>5. x # 0
  BY <1>3, <1>4, WalkIs
<1>6. /\ x - 1 \in 0..N /\ y - 1 \in 0..N /\ x - 1 \in Nat /\ y - 1 \in Nat
      /\ x - 1 < y - 1 /\ y - 1 <= N /\ (y - 1) - (x - 1) = y - x
  BY <1>0, <1>3, <1>4, <1>5
<1>7. next[Walk[x - 1]] = next[Walk[y - 1]] /\ Walk[x - 1] \in Listed /\ Walk[y - 1] \in Listed
  <2>1. Walk[x] = next[Walk[x - 1]] /\ Walk[y] = next[Walk[y - 1]]
    BY <1>4, <1>5, WalkIs
  <2> QED BY <1>3, <1>6, <2>1, WalkIs
<1>8. Walk[x - 1] = Walk[y - 1]
  BY <1>0, <1>7, NextInjective
<1>9. Bad(x - 1, y - 1)
  BY <1>3, <1>6, <1>8
<1>10. x - 1 \in T
  BY <1>6, <1>9
<1> QED BY <1>2, <1>4, <1>10

\* slob_alloc and slob_free see every free block on their way back to slobfree.
LEMMA RoundIs ==
  ASSUME TypeOK, Chain(Listed, next), slobfree \in Listed
  PROVE  /\ Round \in 1..Cardinality(Addrs) /\ Cardinality(Listed) = Round
         /\ \A a \in Listed : \E k \in 0..(Round - 1) : Walk[k] = a
         /\ \A a \in Listed : \E k \in 1..Round : Walk[k] = a
         /\ {Walk[k] : k \in 0..Round} = Listed
<1> DEFINE N == Cardinality(Addrs)
           T == {k \in 1..N : Walk[k] = slobfree}
<1>0. N \in Nat /\ IsFiniteSet(Addrs) /\ Listed \in SUBSET Addrs
  BY AddrFacts DEF Listed
<1>1. \A k \in 0..N : Walk[k] \in Listed /\ (k # 0 => Walk[k] = next[Walk[k - 1]])
  BY WalkIs
<1>2. T # {}
  <2> DEFINE S == 0..N
             f == [k \in S |-> Walk[k]]
  <2>1. IsFiniteSet(S) /\ Cardinality(S) = N + 1
    BY <1>0, FS_Interval
  <2>2. f \in [S -> Addrs]
    BY <1>0, <1>1
  <2>3. \E x, y \in S : x # y /\ f[x] = f[y]
    <3>1. Cardinality(Addrs) < Cardinality(S)
      BY <1>0, <2>1
    <3> HIDE DEF S, f
    <3> QED BY <1>0, <2>1, <2>2, <3>1, FS_PigeonHole
  <2>4. PICK x \in 0..N, y \in 0..N : x < y /\ Walk[x] = Walk[y]
    BY <1>0, <2>3
  <2>5. y - x \in T
    <3>1. Walk[y - x] = slobfree
      BY <1>0, <2>4, WalkBack
    <3> QED BY <1>0, <2>4, <3>1
  <2> QED BY <2>5
<1>3. PICK r \in T : \A k \in T : r <= k
  <2>1. T \in SUBSET Nat
    BY <1>0
  <2> HIDE DEF T
  <2> QED BY <1>2, <2>1, LeastNat
<1>4. r \in 1..N /\ Walk[r] = slobfree /\ \A j \in 1..(r - 1) : Walk[j] # slobfree
  BY <1>0, <1>3
<1>5. Round \in 1..N /\ Walk[Round] = slobfree /\ \A j \in 1..(Round - 1) : Walk[j] # slobfree
  <2>1. \E k \in 1..N : Walk[k] = slobfree /\ \A j \in 1..(k - 1) : Walk[j] # slobfree
    BY <1>4
  <2> QED BY <2>1 DEF Round
<1> DEFINE R == Round
           I == 0..(R - 1)
           f == [k \in I |-> Walk[k]]
<1> HIDE DEF R
<1>6. R \in Nat /\ R >= 1 /\ R <= N /\ Walk[R] = slobfree /\ \A j \in 1..(R - 1) : Walk[j] # slobfree
  BY <1>0, <1>5 DEF R
<1>7. {Walk[k] : k \in I} = Listed
  <2> DEFINE S == {Walk[k] : k \in I}
  <2>1. S \in SUBSET Listed
    BY <1>0, <1>1, <1>6
  <2>2. 0 \in I
    BY <1>6
  <2>3. S # {}
    BY <2>2
  <2>4. ASSUME NEW k \in I PROVE next[Walk[k]] \in S
    <3>1. k + 1 \in 0..N /\ k + 1 # 0 /\ k + 1 - 1 = k
      BY <1>0, <1>6
    <3>2. next[Walk[k]] = Walk[k + 1]
      BY <1>1, <3>1
    <3>3. CASE k + 1 \in I
      BY <3>2, <3>3
    <3>4. CASE k + 1 = R
      <4>1. next[Walk[k]] = Walk[0]
        BY <1>6, <3>2, <3>4, WalkIs
      <4> QED BY <2>2, <4>1
    <3> QED BY <1>6, <3>3, <3>4
  <2>5. \A a \in S : next[a] \in S
    BY <2>4
  <2> HIDE DEF S
  <2>6. S = Listed
    BY <1>0, <2>1, <2>3, <2>5, ChainClosed
  <2> QED BY <2>6 DEF S
<1>8. f \in Surjection(I, Listed)
  BY <1>7 DEF Surjection
<1>9. f \in Injection(I, Listed)
  <2>1. f \in [I -> Listed]
    BY <1>7
  <2>2. ASSUME NEW x \in I, NEW y \in I, x < y PROVE Walk[x] # Walk[y]
    <3>1. x \in Nat /\ y \in 0..N /\ y - x \in 1..(R - 1)
      BY <1>0, <1>6, <2>2
    <3> QED BY <1>6, <2>2, <3>1, WalkBack
  <2>3. \A x, y \in I : f[x] = f[y] => x = y
    BY <1>6, <2>2
  <2> QED BY <2>1, <2>3 DEF Injection, IsInjective
<1>10. Cardinality(Listed) = R
  <2>1. IsFiniteSet(I) /\ Cardinality(I) = R
    BY <1>6, FS_Interval
  <2> HIDE DEF I, f
  <2> QED BY <1>8, <1>9, <2>1, FS_Surjection
<1>11. \A a \in Listed : \E k \in I : Walk[k] = a
  BY <1>7
<1>12. ASSUME NEW a \in Listed PROVE \E k \in 1..R : Walk[k] = a
  <2>1. PICK k \in I : Walk[k] = a
    BY <1>11
  <2>2. CASE k = 0
    <3>1. Walk[R] = a
      BY <1>6, <2>1, <2>2, WalkIs
    <3> QED BY <1>6, <3>1
  <2>3. CASE k # 0
    BY <1>6, <2>1, <2>3
  <2> QED BY <2>2, <2>3
<1>13. {Walk[k] : k \in 0..R} = Listed
  <2>1. \A k \in 0..R : Walk[k] \in Listed
    BY <1>0, <1>1, <1>6
  <2>2. I \subseteq 0..R
    BY <1>6
  <2> QED BY <1>11, <2>1, <2>2
<1> QED BY <1>0, <1>6, <1>10, <1>11, <1>12, <1>13 DEF R

----------------------------------------------------------------------------
(* What slob_alloc and slob_free do to the list ... *)

\* c is the block after which b belongs.
Before(L, c, b) == c \in L /\ c < b /\ \A a \in L : a < b => a <= c

LEMMA BeforeExists ==
  ASSUME NEW L \in SUBSET Addrs, arena \in L, NEW b \in Addrs \ L
  PROVE  \E c : Before(L, c, b)
<1> DEFINE T == {a \in L : a < b}
<1>1. T \in SUBSET Addrs /\ T # {}
  <2>1. arena < b
    BY AddrFacts
  <2> QED BY <2>1
<1>2. PICK c \in T : \A a \in T : a <= c
  <2> HIDE DEF T
  <2> QED BY <1>1, Greatest
<1> QED BY <1>2 DEF Before

LEMMA AfterIs ==
  ASSUME NEW L \in SUBSET Addrs, NEW nx, Chain(L, nx), NEW b \in Addrs \ L, NEW c, Before(L, c, b)
  PROVE  /\ nx[c] \in L /\ nx[c] \in Nat /\ c \in Nat /\ b \in Nat /\ c # b
         /\ nx[c] = arena \/ b < nx[c]
         /\ \A a \in L : a > b => b < nx[c] /\ nx[c] <= a
<1>1. L \subseteq Nat /\ arena = 0 /\ b \in Nat /\ c \in L /\ c < b /\ nx[c] \in L
  BY AddrFacts DEF Before, Chain
<1>2. nx[c] = arena \/ b < nx[c]
  <2>1. CASE nx[c] < b
    <3>1. nx[c] <= c
      BY <1>1, <2>1 DEF Before
    <3> QED BY <1>1, <3>1 DEF Chain
  <2>2. nx[c] # b /\ nx[c] \in Nat
    BY <1>1
  <2> QED BY <1>1, <2>1, <2>2
<1>3. ASSUME NEW a \in L, a > b PROVE b < nx[c] /\ nx[c] <= a
  <2>1. c < a
    BY <1>1, <1>3
  <2>2. c < nx[c] /\ nx[c] <= a
    BY <1>1, <2>1 DEF Chain
  <2> QED BY <1>1, <1>2, <2>2
<1> QED BY <1>1, <1>2, <1>3

LEMMA ChainInsert ==
  ASSUME NEW L \in SUBSET Addrs, NEW nx, Chain(L, nx), NEW b \in Addrs \ L, NEW c, Before(L, c, b),
         NEW nz, nz[c] = b, nz[b] = nx[c], \A a \in L \ {c} : nz[a] = nx[a]
  PROVE  Chain(L \cup {b}, nz)
<1> DEFINE M == L \cup {b}
<1>1. L \subseteq Nat /\ arena = 0 /\ b \in Nat /\ c \in L /\ c < b /\ nx[c] \in L /\ arena \in L
  BY AddrFacts DEF Before, Chain
<1>2. /\ nx[c] = arena \/ b < nx[c]
      /\ \A a \in L : a > b => b < nx[c] /\ nx[c] <= a
  BY AfterIs
<1>3. \A a \in L : a < b => a <= c
  BY DEF Before
<1>4. \A a \in L : nx[a] \in L
  BY DEF Chain
<1>5. \A a \in M : nz[a] \in M
  BY <1>1, <1>4
<1>6. ASSUME NEW a \in M, NEW d \in M, a < d PROVE a < nz[a] /\ nz[a] <= d
  <2>1. CASE a = c
    <3>1. d = b \/ d > b
      BY <1>1, <1>3, <1>6, <2>1
    <3> QED BY <1>1, <2>1, <3>1
  <2>2. CASE a = b
    BY <1>1, <1>2, <1>6, <2>2
  <2>3. CASE a \in L /\ a # c /\ d \in L
    BY <1>6, <2>3 DEF Chain
  <2>4. CASE a \in L /\ a # c /\ d = b
    <3>1. a < c
      BY <1>1, <1>3, <1>6, <2>4
    <3>2. a < nx[a] /\ nx[a] <= c
      BY <1>1, <2>4, <3>1 DEF Chain
    <3>3. nz[a] = nx[a] /\ nx[a] \in Nat /\ a \in Nat /\ c \in Nat
      BY <1>1, <1>4, <2>4
    <3> QED BY <1>1, <2>4, <3>2, <3>3
  <2> QED BY <2>1, <2>2, <2>3, <2>4
<1>7. ASSUME NEW a \in M, nz[a] <= a PROVE nz[a] = arena
  <2>1. a # c
    BY <1>1, <1>7
  <2>2. CASE a = b
    <3>1. nx[c] \in Nat /\ nz[a] = nx[c]
      BY <1>1, <2>2
    <3> QED BY <1>1, <1>2, <1>7, <2>2, <3>1
  <2>3. CASE a \in L
    BY <1>7, <2>1, <2>3 DEF Chain
  <2> QED BY <2>2, <2>3
<1> QED BY <1>1, <1>5, <1>6, <1>7 DEF Chain

LEMMA ChainRemove ==
  ASSUME NEW L \in SUBSET Addrs, NEW nx, Chain(L, nx), NEW p \in L, NEW y \in L,
         nx[p] = y, y # arena,
         NEW nz, nz[p] = nx[y], \A a \in L \ {p, y} : nz[a] = nx[a]
  PROVE  Chain(L \ {y}, nz) /\ p < y
<1> DEFINE M == L \ {y}
<1>1. L \subseteq Nat /\ arena = 0 /\ arena \in L
  BY AddrFacts DEF Chain
<1>2. p < y /\ p \in M /\ nx[y] \in L
  BY <1>1 DEF Chain
<1>3. nx[y] # y
  BY <1>1 DEF Chain
<1>4. \A a \in L : a # p => nx[a] # y
  BY NextInjective
<1>5. \A a \in L : nx[a] \in L
  BY DEF Chain
<1>6. \A a \in M : nz[a] \in M
  BY <1>2, <1>3, <1>4, <1>5
<1>7. ASSUME NEW a \in M, NEW d \in M, a < d PROVE a < nz[a] /\ nz[a] <= d
  <2>1. CASE a = p
    <3>1. y <= d /\ y # d
      BY <1>7, <2>1 DEF Chain
    <3>2. y < d
      BY <1>1, <3>1
    <3>3. y < nx[y] /\ nx[y] <= d
      BY <3>2 DEF Chain
    <3>4. nz[a] = nx[y] /\ nx[y] \in Nat /\ y \in Nat /\ a \in Nat /\ d \in Nat
      BY <1>1, <1>2, <2>1
    <3> QED BY <1>2, <2>1, <3>3, <3>4
  <2>2. CASE a # p
    BY <1>7, <2>2 DEF Chain
  <2> QED BY <2>1, <2>2
<1>8. ASSUME NEW a \in M, nz[a] <= a PROVE nz[a] = arena
  <2>1. CASE a = p
    <3>0. nz[a] = nx[y] /\ nx[y] \in Nat /\ y \in Nat /\ a \in Nat
      BY <1>1, <1>2, <2>1
    <3>1. nx[y] <= y
      BY <1>2, <1>8, <2>1, <3>0
    <3> QED BY <2>1, <3>1 DEF Chain
  <2>2. CASE a # p
    BY <1>8, <2>2 DEF Chain
  <2> QED BY <2>1, <2>2
<1> QED BY <1>1, <1>2, <1>6, <1>7, <1>8 DEF Chain

\* slob_free finds the place of the block it gets.
LEMMA PlaceIs ==
  ASSUME TypeOK, Chain(Listed, next), slobfree \in Listed, NEW b \in Addrs \ Listed
  PROVE  Before(Listed, Place(b), b)
<1>0. Listed \in SUBSET Addrs /\ Listed \subseteq Nat /\ arena = 0 /\ b \in Nat
  BY AddrFacts DEF Listed
<1>1. PICK c : Before(Listed, c, b)
  BY <1>0, BeforeExists DEF Chain
<1>2. IsPlace(c, b)
  <2>1. c < b /\ c \in Nat /\ next[c] \in Nat /\ (next[c] = arena \/ b < next[c])
    BY <1>0, <1>1, AfterIs DEF Before
  <2> QED BY <1>0, <2>1 DEF IsPlace
<1>3. ASSUME NEW a \in Listed, IsPlace(a, b) PROVE Before(Listed, a, b)
  <2>1. a \in Nat /\ next[a] \in Listed /\ next[a] \in Nat
    BY <1>0 DEF Chain
  <2>2. a < b
    <3>1. CASE a >= next[a]
      BY <1>0, <1>3, <2>1, <3>1 DEF IsPlace, Chain
    <3>2. CASE ~(a >= next[a])
      BY <1>0, <1>3, <2>1, <3>2 DEF IsPlace
    <3> QED BY <3>1, <3>2
  <2>3. ASSUME NEW d \in Listed, d < b PROVE d <= a
    <3>1. SUFFICES ASSUME a < d PROVE FALSE
      BY <1>0, <2>1
    <3>2. a < next[a] /\ next[a] <= d
      BY <3>1 DEF Chain
    <3> QED BY <1>0, <1>3, <2>1, <2>3, <3>2 DEF IsPlace
  <2> QED BY <2>2, <2>3 DEF Before
<1>4. Round \in Nat /\ {Walk[k] : k \in 0..Round} = Listed
  <2>1. Round \in 1..Cardinality(Addrs) /\ {Walk[k] : k \in 0..Round} = Listed
    BY RoundIs
  <2> QED BY <2>1, AddrFacts
<1> DEFINE T == {k \in 0..Round : IsPlace(Walk[k], b)}
<1>5. T # {}
  BY <1>1, <1>2, <1>4 DEF Before
<1>6. PICK k \in T : \A j \in T : k <= j
  <2>1. T \in SUBSET Nat
    BY <1>4
  <2> HIDE DEF T
  <2> QED BY <1>5, <2>1, LeastNat
<1>7. \E i \in 0..Round : IsPlace(Walk[i], b) /\ \A j \in 0..(i - 1) : ~IsPlace(Walk[j], b)
  <2>1. ASSUME NEW j \in 0..(k - 1) PROVE ~IsPlace(Walk[j], b)
    <3>1. j \in 0..Round /\ ~(k <= j)
      BY <1>4, <1>6
    <3> QED BY <1>6, <3>1
  <2> QED BY <1>6, <2>1
<1> DEFINE i == CHOOSE i \in 0..Round : IsPlace(Walk[i], b) /\ \A j \in 0..(i - 1) : ~IsPlace(Walk[j], b)
<1>8. i \in 0..Round /\ IsPlace(Walk[i], b)
  BY <1>7
<1>9. Place(b) = Walk[i]
  BY DEF Place
<1> HIDE DEF i
<1> QED BY <1>3, <1>4, <1>8, <1>9

----------------------------------------------------------------------------
(* ... and to the blocks *)

LEMMA TilingNumbers ==
  ASSUME NEW C, NEW T, Tiling(C, T)
  PROVE  /\ \A a \in DOMAIN T : a \in Nat /\ T[a] \in Nat /\ T[a] > 0 /\ a \in C /\ a \in Addrs
         /\ C \subseteq Nat /\ C \subseteq Addrs
<1>1. Addrs \subseteq Nat
  BY AddrFacts
<1>2. ASSUME NEW a \in DOMAIN T
      PROVE  a \in Nat /\ T[a] \in Nat /\ T[a] > 0 /\ a \in C /\ a \in Addrs
  <2>1. a \in Nat /\ a \in Addrs /\ T[a] \in Nat \ {0} /\ Run(a, T[a]) \subseteq C
    BY <1>1 DEF Tiling
  <2>2. T[a] \in Nat /\ T[a] > 0
    BY <2>1
  <2>3. a \in Run(a, T[a])
    BY <2>1, <2>2 DEF Run
  <2> QED BY <2>1, <2>2, <2>3
<1> QED BY <1>1, <1>2 DEF Tiling

\* A block starts in no other.
LEMMA TilingApart ==
  ASSUME NEW C, NEW T, Tiling(C, T), NEW a \in DOMAIN T, NEW c \in DOMAIN T,
         NEW x, x \in Run(a, T[a]), x \in Run(c, T[c])
  PROVE  a = c
<1>1. a \in Nat /\ c \in Nat /\ T[a] \in Nat /\ T[c] \in Nat
  BY TilingNumbers
<1>2. x \in Int /\ a <= x /\ x < a + T[a] /\ c <= x /\ x < c + T[c]
  BY <1>1 DEF Run
<1>3. (a < c => a + T[a] <= c) /\ (c < a => c + T[c] <= a)
  BY DEF Tiling
<1> QED BY <1>1, <1>2, <1>3

LEMMA TilingJoin ==
  ASSUME NEW C, NEW T, Tiling(C, T), NEW a \in DOMAIN T, NEW c \in DOMAIN T, a + T[a] = c,
         NEW V, DOMAIN V = DOMAIN T \ {c}, V[a] = T[a] + T[c],
         \A x \in DOMAIN T \ {a, c} : V[x] = T[x]
  PROVE  Tiling(C, V)
<1>1. \A x \in DOMAIN T : x \in Nat /\ T[x] \in Nat /\ T[x] > 0
  BY TilingNumbers
<1>2. a # c /\ a \in DOMAIN V
  BY <1>1
<1>3. Run(a, V[a]) = Run(a, T[a]) \cup Run(c, T[c])
  BY <1>1 DEF Run
<1>4. ASSUME NEW x \in DOMAIN V PROVE V[x] \in Nat \ {0} /\ Run(x, V[x]) \subseteq C
  <2>1. CASE x = a
    <3>1. V[x] \in Nat \ {0}
      BY <1>1, <2>1
    <3>2. Run(a, T[a]) \subseteq C /\ Run(c, T[c]) \subseteq C
      BY DEF Tiling
    <3> QED BY <1>3, <2>1, <3>1, <3>2
  <2>2. CASE x # a
    BY <2>2 DEF Tiling
  <2> QED BY <2>1, <2>2
<1>5. ASSUME NEW x \in DOMAIN V, NEW y \in DOMAIN V, x < y PROVE x + V[x] <= y
  <2>1. x \in DOMAIN T /\ y \in DOMAIN T /\ x + T[x] <= y /\ y # c
    BY <1>5 DEF Tiling
  <2>2. CASE x = a
    <3>1. c < y
      BY <1>1, <2>1, <2>2
    <3>2. c + T[c] <= y
      BY <2>1, <3>1 DEF Tiling
    <3>3. x + V[x] = c + T[c]
      BY <1>1, <2>2
    <3> QED BY <3>2, <3>3
  <2>3. CASE x # a
    BY <2>1, <2>3
  <2> QED BY <2>2, <2>3
<1>6. ASSUME NEW z \in C PROVE \E x \in DOMAIN V : z \in Run(x, V[x])
  <2>1. PICK x \in DOMAIN T : z \in Run(x, T[x])
    BY DEF Tiling
  <2>2. CASE x = a \/ x = c
    BY <1>2, <1>3, <2>1, <2>2
  <2>3. CASE x # a /\ x # c
    BY <2>1, <2>3
  <2> QED BY <2>2, <2>3
<1> QED BY <1>4, <1>5, <1>6 DEF Tiling

LEMMA TilingSplit ==
  ASSUME NEW C, NEW T, Tiling(C, T), NEW a \in DOMAIN T, NEW n \in Nat \ {0}, n < T[a],
         NEW V, DOMAIN V = DOMAIN T \cup {a + n}, V[a] = n, V[a + n] = T[a] - n,
         \A x \in DOMAIN T \ {a} : V[x] = T[x]
  PROVE  Tiling(C, V) /\ a + n \notin DOMAIN T /\ a + n \in Addrs
<1> DEFINE c == a + n
<1>1. \A x \in DOMAIN T : x \in Nat /\ T[x] \in Nat /\ T[x] > 0
  BY TilingNumbers
<1>2. c \in Nat /\ a < c /\ c < a + T[a] /\ n \in Nat /\ n > 0
  BY <1>1
<1>3. c \in Addrs
  <2>1. c \in Run(a, T[a])
    BY <1>1, <1>2 DEF Run
  <2> QED BY <2>1 DEF Tiling
<1>4. c \notin DOMAIN T
  <2>1. \A y \in DOMAIN T : a < y => a + T[a] <= y
    BY DEF Tiling
  <2> QED BY <1>1, <1>2, <2>1
<1>5. Run(a, T[a]) = Run(a, V[a]) \cup Run(c, V[c])
  BY <1>1, <1>2 DEF Run
<1>6. V[c] \in Nat /\ V[c] > 0 /\ c + V[c] = a + T[a] /\ V[c] < T[a]
  BY <1>1, <1>2
<1>7. ASSUME NEW x \in DOMAIN V PROVE V[x] \in Nat \ {0} /\ Run(x, V[x]) \subseteq C
  <2>1. CASE x = a \/ x = c
    <3>1. Run(a, T[a]) \subseteq C
      BY DEF Tiling
    <3>2. V[x] \in Nat \ {0}
      BY <1>2, <1>6, <2>1
    <3> QED BY <1>5, <2>1, <3>1, <3>2
  <2>2. CASE x # a /\ x # c
    BY <2>2 DEF Tiling
  <2> QED BY <2>1, <2>2
<1> HIDE DEF c
<1>8. ASSUME NEW x \in DOMAIN V, NEW y \in DOMAIN V, x < y PROVE x + V[x] <= y
  <2>0. DOMAIN V = DOMAIN T \cup {c} /\ V[a] = n /\ a + n = c
    BY DEF c
  <2>1. \A p, q \in DOMAIN T : p < q => p + T[p] <= q
    BY DEF Tiling
  <2>2. CASE x = a
    <3>1. y = c \/ y \in DOMAIN T
      BY <2>0
    <3>2. CASE y = c
      BY <2>0, <2>2, <3>2, <1>2
    <3>3. CASE y \in DOMAIN T
      <4>1. a + T[a] <= y
        BY <1>8, <2>1, <2>2, <3>3
      <4> QED BY <1>1, <1>2, <2>0, <2>2, <3>3, <4>1
    <3> QED BY <3>1, <3>2, <3>3
  <2>3. CASE x = c
    <3>1. y \in DOMAIN T
      BY <1>8, <1>2, <2>0, <2>3
    <3>2. a < y
      BY <1>1, <1>2, <1>8, <2>3, <3>1
    <3>3. a + T[a] <= y
      BY <2>1, <3>1, <3>2
    <3> QED BY <1>6, <2>3, <3>3
  <2>4. CASE x # a /\ x # c
    <3>1. x \in DOMAIN T /\ V[x] = T[x]
      BY <2>0, <2>4
    <3>2. CASE y \in DOMAIN T
      BY <1>8, <2>1, <3>1, <3>2
    <3>3. CASE y = c
      <4>1. x < a
        <5>1. a < x => a + T[a] <= x
          BY <2>1, <3>1
        <5> QED BY <1>1, <1>2, <1>8, <2>4, <3>1, <3>3, <5>1
      <4>2. x + T[x] <= a
        BY <2>1, <3>1, <4>1
      <4> QED BY <1>1, <1>2, <3>1, <3>3, <4>2
    <3> QED BY <2>0, <3>2, <3>3
  <2> QED BY <2>2, <2>3, <2>4
<1>9. ASSUME NEW z \in C PROVE \E x \in DOMAIN V : z \in Run(x, V[x])
  <2>0. DOMAIN V = DOMAIN T \cup {c}
    BY DEF c
  <2>1. PICK x \in DOMAIN T : z \in Run(x, T[x])
    BY DEF Tiling
  <2>2. CASE x = a
    BY <1>5, <2>0, <2>1, <2>2
  <2>3. CASE x # a
    BY <2>0, <2>1, <2>3
  <2> QED BY <2>2, <2>3
<1>10. DOMAIN V \subseteq Addrs /\ C \subseteq Addrs
  BY <1>3 DEF Tiling, c
<1>11. Tiling(C, V)
  BY <1>7, <1>8, <1>9, <1>10 DEF Tiling
<1> QED BY <1>3, <1>4, <1>11 DEF c

LEMMA TilingAdd ==
  ASSUME NEW C, NEW T, Tiling(C, T), NEW b \in Addrs, NEW n \in Nat \ {0},
         Run(b, n) \subseteq Addrs, Run(b, n) \cap C = {},
         NEW V, DOMAIN V = DOMAIN T \cup {b}, V[b] = n, \A x \in DOMAIN T : V[x] = T[x]
  PROVE  Tiling(C \cup Run(b, n), V) /\ b \notin DOMAIN T
<1>1. \A x \in DOMAIN T : x \in Nat /\ T[x] \in Nat /\ T[x] > 0 /\ x \in C
  BY TilingNumbers
<1>2. b \in Nat /\ n \in Nat /\ n > 0 /\ b \in Run(b, n)
  BY AddrFacts DEF Run
<1>3. b \notin DOMAIN T
  BY <1>1, <1>2
<1>4. ASSUME NEW x \in DOMAIN V
      PROVE  V[x] \in Nat \ {0} /\ Run(x, V[x]) \subseteq C \cup Run(b, n)
  BY DEF Tiling
<1>5. ASSUME NEW x \in DOMAIN V, NEW y \in DOMAIN V, x < y PROVE x + V[x] <= y
  <2>1. CASE x = b
    <3>1. y \in DOMAIN T /\ y \in Nat /\ y \notin Run(b, n)
      BY <1>1, <1>2, <1>5, <2>1
    <3> QED BY <1>2, <1>5, <2>1, <3>1 DEF Run
  <2>2. CASE y = b
    <3>1. x \in DOMAIN T /\ x \in Nat /\ T[x] \in Nat /\ V[x] = T[x]
      BY <1>1, <1>2, <1>5, <2>2
    <3>2. Run(x, T[x]) \subseteq C
      BY <3>1 DEF Tiling
    <3>3. b \notin Run(x, T[x])
      BY <1>2, <3>2
    <3> QED BY <1>2, <1>5, <2>2, <3>1, <3>3 DEF Run
  <2>3. CASE x # b /\ y # b
    BY <1>5, <2>3 DEF Tiling
  <2> QED BY <2>1, <2>2, <2>3
<1>6. ASSUME NEW z \in C \cup Run(b, n) PROVE \E x \in DOMAIN V : z \in Run(x, V[x])
  BY DEF Tiling
<1>7. DOMAIN V \subseteq Addrs /\ C \cup Run(b, n) \subseteq Addrs
  BY DEF Tiling
<1> QED BY <1>3, <1>4, <1>5, <1>6, <1>7 DEF Tiling

----------------------------------------------------------------------------
(* slob_free *)

\* A list that a call has left in order.
ListStep ==
  /\ units' \in [Addrs -> Nat] /\ next' \in [Addrs -> Addrs \cup {NULL}]
  /\ Listed' \in SUBSET Addrs /\ Chain(Listed', next') /\ slobfree' \in Listed'
  /\ units'[arena] = 1
  /\ \A a \in Listed' : a + units'[a] \notin Listed'

\* The blocks after it: those of W are in use and keep their lengths.
Rest(T, W) == [a \in Listed' \cup W |-> IF a \in W THEN T[a] ELSE units'[a]]

\* The chain and the headers, field by field.
FreedAs(b, n, cur, after, joinNext, joinPrev, bn, bnext) ==
  /\ Before(Listed, cur, b) /\ after = next[cur] /\ after \in Listed /\ slobfree' = cur
  /\ joinNext \in BOOLEAN /\ (joinNext <=> b + n = after)
  /\ joinPrev \in BOOLEAN /\ (joinPrev <=> cur + units[cur] = b)
  /\ bn = (IF joinNext THEN n + units[after] ELSE n) /\ bn \in Nat
  /\ bnext = (IF joinNext THEN next[after] ELSE after) /\ bnext \in Listed
  /\ joinNext => after > b /\ after # cur /\ after # b /\ after # arena
  /\ units' \in [Addrs -> Nat] /\ next' \in [Addrs -> Addrs \cup {NULL}]
  /\ units'[cur] = IF joinPrev THEN units[cur] + bn ELSE units[cur]
  /\ units'[b] = IF joinPrev THEN 0 ELSE bn
  /\ \A a \in Addrs : a # cur /\ a # b /\ ~(joinNext /\ a = after) => units'[a] = units[a]
  /\ next'[cur] = IF joinPrev THEN bnext ELSE b
  /\ next'[b] = IF joinPrev THEN NULL ELSE bnext
  /\ joinNext => next'[after] = NULL
  /\ \A a \in Addrs : a # cur /\ a # b /\ ~(joinNext /\ a = after) => next'[a] = next[a]

LEMMA FreeFields ==
  ASSUME TypeOK, Chain(Listed, next), slobfree \in Listed,
         NEW b \in Addrs \ Listed, NEW n \in Nat \ {0}, SlobFree(b, n)
  PROVE  \E cur, after, joinNext, joinPrev, bn, bnext :
           FreedAs(b, n, cur, after, joinNext, joinPrev, bn, bnext)
<1> DEFINE cur == Place(b)
           after == next[cur]
           joinNext == b + n = after
           bn == IF joinNext THEN n + units[after] ELSE n
           bnext == IF joinNext THEN next[after] ELSE after
           joinPrev == cur + units[cur] = b
<1>1. Before(Listed, cur, b)
  BY PlaceIs
<1>2. /\ units' = [a \in Addrs |->
          CASE a = cur /\ joinPrev -> units[cur] + bn
            [] a = b               -> IF joinPrev THEN 0 ELSE bn
            [] a = after /\ joinNext /\ a # cur -> 0
            [] OTHER               -> units[a]]
      /\ next' = [a \in Addrs |->
          CASE a = cur -> IF joinPrev THEN bnext ELSE b
            [] a = b   -> IF joinPrev THEN NULL ELSE bnext
            [] a = after /\ joinNext -> NULL
            [] OTHER   -> next[a]]
      /\ slobfree' = cur
  BY DEF SlobFree, MergesPrev
<1> HIDE DEF cur
<1>3. /\ Listed \in SUBSET Addrs /\ Listed \subseteq Nat /\ arena = 0 /\ b \in Nat /\ cur \in Listed
      /\ cur \in Nat /\ cur \in Addrs /\ cur < b /\ cur # b
  BY <1>1, AddrFacts DEF Before, Listed
<1>4. after \in Listed /\ after \in Nat /\ after \in Addrs
  BY <1>3 DEF Chain
<1> HIDE DEF after
<1>5. joinNext => after > b /\ after # cur /\ after # b /\ after # arena
  BY <1>3, <1>4
<1>6. units \in [Addrs -> Nat] /\ next \in [Addrs -> Addrs \cup {NULL}]
  BY DEF TypeOK
<1>7. bn \in Nat
  BY <1>4, <1>6
<1>8. bnext \in Listed /\ bnext \in Addrs
  BY <1>3, <1>4 DEF Chain
<1>9. joinNext \in BOOLEAN /\ joinPrev \in BOOLEAN
  OBVIOUS
<1>10. /\ (joinNext <=> b + n = after) /\ (joinPrev <=> cur + units[cur] = b)
       /\ bn = (IF joinNext THEN n + units[after] ELSE n)
       /\ bnext = (IF joinNext THEN next[after] ELSE after)
       /\ after = next[cur]
  BY DEF after
<1> HIDE DEF joinNext, joinPrev, bn, bnext
<1>11. /\ units' \in [Addrs -> Nat]
       /\ units'[cur] = IF joinPrev THEN units[cur] + bn ELSE units[cur]
       /\ units'[b] = IF joinPrev THEN 0 ELSE bn
       /\ \A a \in Addrs : a # cur /\ a # b /\ ~(joinNext /\ a = after) => units'[a] = units[a]
  BY <1>2, <1>3, <1>4, <1>6, <1>7
<1>12. /\ next' \in [Addrs -> Addrs \cup {NULL}]
       /\ next'[cur] = IF joinPrev THEN bnext ELSE b
       /\ next'[b] = IF joinPrev THEN NULL ELSE bnext
       /\ joinNext => next'[after] = NULL
       /\ \A a \in Addrs : a # cur /\ a # b /\ ~(joinNext /\ a = after) => next'[a] = next[a]
  BY <1>2, <1>3, <1>4, <1>5, <1>6, <1>8
<1>13. FreedAs(b, n, cur, after, joinNext, joinPrev, bn, bnext)
  BY <1>1, <1>2, <1>4, <1>5, <1>7, <1>8, <1>9, <1>10, <1>11, <1>12 DEF FreedAs
<1> QED BY <1>13

LEMMA FreeStep ==
  ASSUME ListOK, NEW b \in Addrs \ Listed, NEW n, SlobFree(b, n),
         NEW C, NEW T, Tiling(C, T), NEW W, DOMAIN T = Listed \cup W \cup {b}, 1 \notin C,
         b \notin W, W \cap Listed = {}, \A a \in Listed : T[a] = units[a], T[b] = n
  PROVE  /\ ListStep /\ Listed' \cap W = {}
         /\ \A a \in W : units'[a] = units[a]
         /\ Tiling(C, Rest(T, W))
         /\ \E a \in Listed' : units'[a] >= n
<1>0. /\ \A x \in DOMAIN T : x \in Nat /\ T[x] \in Nat /\ T[x] > 0 /\ x \in C /\ x \in Addrs
      /\ TypeOK /\ Chain(Listed, next) /\ slobfree \in Listed /\ units[arena] = 1
      /\ \A a \in Listed : a + units[a] \notin Listed
      /\ n \in Nat /\ n > 0 /\ b \in DOMAIN T /\ b # 1 /\ Listed \subseteq DOMAIN T
  BY TilingNumbers DEF ListOK
<1>pick. PICK cur, after, joinNext, joinPrev, bn, bnext :
                FreedAs(b, n, cur, after, joinNext, joinPrev, bn, bnext)
  BY <1>0, FreeFields
<1>1. /\ Before(Listed, cur, b) /\ after = next[cur] /\ after \in Listed /\ slobfree' = cur
      /\ joinNext \in BOOLEAN /\ (joinNext <=> b + n = after)
      /\ joinPrev \in BOOLEAN /\ (joinPrev <=> cur + units[cur] = b)
      /\ bn = (IF joinNext THEN n + units[after] ELSE n) /\ bn \in Nat
      /\ bnext = (IF joinNext THEN next[after] ELSE after) /\ bnext \in Listed
      /\ joinNext => after > b /\ after # cur /\ after # b /\ after # arena
      /\ units' \in [Addrs -> Nat] /\ next' \in [Addrs -> Addrs \cup {NULL}]
      /\ units'[cur] = IF joinPrev THEN units[cur] + bn ELSE units[cur]
      /\ units'[b] = IF joinPrev THEN 0 ELSE bn
      /\ \A a \in Addrs : a # cur /\ a # b /\ ~(joinNext /\ a = after) => units'[a] = units[a]
      /\ next'[cur] = IF joinPrev THEN bnext ELSE b
      /\ next'[b] = IF joinPrev THEN NULL ELSE bnext
      /\ joinNext => next'[after] = NULL
      /\ \A a \in Addrs : a # cur /\ a # b /\ ~(joinNext /\ a = after) => next'[a] = next[a]
  BY <1>pick DEF FreedAs
<1>2. /\ Listed \in SUBSET Addrs /\ arena = 0 /\ cur \in Listed /\ cur < b /\ cur # b
      /\ cur \in Nat /\ after \in Nat /\ b \in Nat /\ arena \in Listed /\ NULL \notin Addrs
  BY <1>0, <1>1, AddrFacts DEF Before, Listed, Chain
<1> DEFINE JN == IF joinNext THEN {after} ELSE {}
           JP == IF joinPrev THEN {b} ELSE {}
           LA == Listed \cup {b}
           LB == LA \ JN
           LC == LB \ JP
<1>3. Listed' = LC
  <2>1. ASSUME NEW a \in Addrs PROVE next'[a] # NULL <=> a \in LC
    <3>1. a \in Listed <=> next[a] # NULL
      BY DEF Listed
    <3>2. CASE a = cur
      BY <1>1, <1>2, <3>2
    <3>3. CASE a = b
      BY <1>1, <1>2, <3>3
    <3>4. CASE joinNext /\ a = after
      BY <1>1, <3>4
    <3>5. CASE a # cur /\ a # b /\ ~(joinNext /\ a = after)
      BY <1>1, <3>1, <3>5
    <3> QED BY <3>2, <3>3, <3>4, <3>5
  <2>2. LC \subseteq Addrs
    BY <1>2
  <2>3. Listed' = {a \in Addrs : next'[a] # NULL}
    BY DEF Listed
  <2> HIDE DEF LC
  <2> QED BY <2>1, <2>2, <2>3
<1>4. Chain(LC, next')
  <2> DEFINE nA == [next EXCEPT ![cur] = b, ![b] = after]
             nB == [nA EXCEPT ![b] = bnext]
  <2>0. next \in [Addrs -> Addrs \cup {NULL}]
    BY <1>0 DEF TypeOK
  <2>1. /\ nA[cur] = b /\ nA[b] = next[cur] /\ \A a \in Listed \ {cur} : nA[a] = next[a]
        /\ nB[b] = bnext /\ nB[cur] = b /\ \A a \in Listed \ {cur} : nB[a] = next[a]
    BY <1>1, <1>2, <2>0
  <2> HIDE DEF nA, nB
  <2>2. Chain(LA, nA)
    BY <1>0, <1>1, <1>2, <2>1, ChainInsert
  <2>3. Chain(LB, nB)
    <3>1. CASE joinNext
      <4>1. /\ nA[b] = after /\ nB[b] = nA[after] /\ \A a \in LA \ {b, after} : nB[a] = nA[a]
            /\ b \in LA /\ after \in LA /\ after # arena /\ LA \in SUBSET Addrs
        BY <1>1, <1>2, <2>1, <3>1
      <4>2. Chain(LA \ {after}, nB)
        <5> HIDE DEF LA
        <5> QED BY <2>2, <4>1, ChainRemove
      <4> QED BY <3>1, <4>2
    <3>2. CASE ~joinNext
      <4>1. \A a \in LB : nB[a] = nA[a]
        BY <1>1, <2>1, <3>2
      <4>2. LB = LA
        BY <3>2
      <4> HIDE DEF LA, LB
      <4> QED BY <2>2, <4>1, <4>2 DEF Chain
    <3> QED BY <1>1, <3>1, <3>2
  <2>4. CASE joinPrev
    <3>1. /\ nB[cur] = b /\ next'[cur] = nB[b]
          /\ cur \in LB /\ b \in LB /\ b # arena /\ LB \in SUBSET Addrs
      BY <1>1, <1>2, <2>1, <2>4
    <3>2. \A a \in LB \ {cur, b} : next'[a] = nB[a]
      BY <1>1, <1>2, <2>1, <2>4
    <3>3. LC = LB \ {b}
      BY <2>4
    <3> HIDE DEF LB, LC
    <3> QED BY <2>3, <3>1, <3>2, <3>3, ChainRemove
  <2>5. CASE ~joinPrev
    <3>1. \A a \in LB : next'[a] = nB[a]
      BY <1>1, <1>2, <2>1, <2>5
    <3>2. LC = LB
      BY <2>5
    <3> HIDE DEF LB, LC
    <3> QED BY <2>3, <3>1, <3>2 DEF Chain
  <2> QED BY <1>1, <2>4, <2>5
<1>5. /\ LC \cap W = {} /\ LC \in SUBSET Addrs /\ cur \in LC /\ cur \notin W
      /\ joinNext => after \notin W
  BY <1>1, <1>2
<1>6. \A a \in W : units'[a] = units[a]
  <2>1. W \subseteq Addrs
    BY <1>0
  <2> QED BY <1>1, <1>5, <2>1
<1> DEFINE V == [a \in LC \cup W |-> IF a \in W THEN T[a] ELSE units'[a]]
           TB == [a \in DOMAIN T \ JN |-> IF a = b THEN bn ELSE T[a]]
<1>7. Tiling(C, TB)
  <2>1. CASE joinNext
    <3>1. /\ DOMAIN TB = DOMAIN T \ {after} /\ TB[b] = T[b] + T[after] /\ b + T[b] = after
          /\ after \in DOMAIN T /\ \A x \in DOMAIN T \ {b, after} : TB[x] = T[x]
      BY <1>0, <1>1, <2>1
    <3> HIDE DEF TB
    <3> QED BY <1>0, <3>1, TilingJoin
  <2>2. CASE ~joinNext
    <3>1. DOMAIN TB = DOMAIN T /\ \A x \in DOMAIN T : TB[x] = T[x]
      BY <1>0, <1>1, <2>2
    <3> HIDE DEF TB
    <3> QED BY <3>1 DEF Tiling
  <2> QED BY <1>1, <2>1, <2>2
<1>8. DOMAIN TB = LB \cup W
  BY <1>0, <1>5
<1>9. /\ cur \in DOMAIN TB /\ b \in DOMAIN TB /\ TB[b] = bn /\ TB[cur] = units[cur]
      /\ \A x \in DOMAIN TB \ {b} : TB[x] = T[x]
  BY <1>0, <1>1, <1>2, <1>8
<1>10. Tiling(C, V)
  <2>1. DOMAIN V = LC \cup W
    OBVIOUS
  <2>2. V[cur] = IF joinPrev THEN TB[cur] + TB[b] ELSE TB[cur]
    BY <1>1, <1>5, <1>9
  <2>3. \A x \in DOMAIN V \ {cur, b} : V[x] = TB[x]
    <3> SUFFICES ASSUME NEW x \in DOMAIN V, x # cur, x # b PROVE V[x] = TB[x]
      OBVIOUS
    <3>1. x \in DOMAIN TB /\ TB[x] = T[x]
      BY <1>8, <1>9
    <3>2. CASE x \in W
      BY <3>1, <3>2
    <3>3. CASE x \notin W
      <4>1. x \in LC /\ x \in Listed /\ ~(joinNext /\ x = after) /\ x \in Addrs
        BY <1>2, <3>3
      <4>2. units'[x] = units[x]
        BY <1>1, <4>1
      <4> QED BY <3>1, <3>3, <4>1, <4>2
    <3> QED BY <3>2, <3>3
  <2>4. CASE joinPrev
    <3>0. DOMAIN V = DOMAIN TB \ {b}
      <4>1. LC = LB \ {b}
        BY <2>4
      <4> HIDE DEF LC, LB, TB
      <4> QED BY <1>8, <4>1
    <3>1. DOMAIN V = DOMAIN TB \ {b} /\ cur + TB[cur] = b
      BY <1>1, <1>9, <2>4, <3>0
    <3>2. \A x \in DOMAIN TB \ {cur, b} : V[x] = TB[x]
      BY <2>3, <3>1
    <3> HIDE DEF V, TB, LB, LC
    <3> QED BY <1>7, <1>9, <2>2, <2>4, <3>1, <3>2, TilingJoin
  <2>5. CASE ~joinPrev
    <3>1. DOMAIN V = DOMAIN TB /\ b \in LC
      BY <1>1, <1>8, <2>5
    <3>2. V[b] = TB[b]
      BY <1>1, <1>5, <1>9, <2>5, <3>1
    <3>3. \A x \in DOMAIN TB : V[x] = TB[x]
      BY <2>2, <2>3, <2>5, <3>1, <3>2
    <3> HIDE DEF V, TB, LB, LC
    <3> QED BY <1>7, <3>1, <3>3 DEF Tiling
  <2> QED BY <1>1, <2>4, <2>5
<1>11. Rest(T, W) = V
  BY <1>3 DEF Rest
<1>12. units'[arena] = 1
  <2>1. CASE arena = cur
    <3>1. ~joinPrev
      BY <1>0, <1>1, <1>2, <2>1
    <3> QED BY <1>0, <1>1, <2>1, <3>1
  <2>2. CASE arena # cur
    BY <1>0, <1>1, <1>2, <2>2
  <2> QED BY <2>1, <2>2
<1>13. \A a \in LC : a + units'[a] \notin LC
  <2>1. LC \subseteq Listed \cup {b}
    OBVIOUS
  <2>2. b + bn \notin Listed \cup {b}
    <3>1. b + bn \in Nat /\ b + bn > b
      BY <1>0, <1>1, <1>2
    <3>2. CASE joinNext
      <4>1. b + bn = after + units[after]
        BY <1>0, <1>1, <1>2, <3>2
      <4> QED BY <1>0, <1>1, <3>1, <4>1
    <3>3. CASE ~joinNext
      <4>1. SUFFICES ASSUME b + n \in Listed PROVE FALSE
        BY <1>1, <3>1, <3>3
      <4>2. b < after /\ after <= b + n
        BY <1>0, <1>1, <1>2, <3>1, <3>3, <4>1, AfterIs
      <4>3. b + T[b] <= after
        BY <1>0, <1>1, <4>2 DEF Tiling
      <4> QED BY <1>0, <1>1, <1>2, <3>3, <4>2, <4>3
    <3> QED BY <1>1, <3>2, <3>3
  <2>3. ASSUME NEW a \in LC, a # b, a # cur PROVE a + units'[a] \notin Listed \cup {b}
    <3>1. a \in Listed /\ a \in Addrs /\ ~(joinNext /\ a = after)
      BY <1>2, <2>3
    <3>2. units'[a] = units[a] /\ units[a] = T[a]
      BY <1>1, <2>3, <3>1
    <3>3. a + T[a] # b
      <4>1. SUFFICES ASSUME a + T[a] = b PROVE FALSE
        OBVIOUS
      <4>2. a \in Nat /\ T[a] \in Nat /\ T[a] > 0
        BY <1>0, <3>1
      <4>3. a < cur
        BY <1>1, <1>2, <2>3, <3>1, <4>1, <4>2 DEF Before
      <4>4. a + T[a] <= cur
        BY <1>0, <1>2, <3>1, <4>3 DEF Tiling
      <4> QED BY <1>2, <4>1, <4>4
    <3> QED BY <1>0, <3>1, <3>2, <3>3
  <2>4. cur + units'[cur] \notin LC
    <3>1. units[cur] \in Nat
      BY <1>0, <1>2
    <3>2. CASE joinPrev
      <4>1. cur + units'[cur] = b + bn
        BY <1>1, <1>2, <3>1, <3>2
      <4> QED BY <2>1, <2>2, <4>1
    <3>3. CASE ~joinPrev
      <4>1. cur + units'[cur] # b /\ cur + units'[cur] \notin Listed
        BY <1>0, <1>1, <1>2, <3>3
      <4> QED BY <2>1, <4>1
    <3> QED BY <1>1, <3>2, <3>3
  <2>5. b \in LC => units'[b] = bn
    BY <1>1
  <2> HIDE DEF LC
  <2> QED BY <2>1, <2>2, <2>3, <2>4, <2>5
<1>14. \E a \in LC : units'[a] >= n
  <2>1. bn >= n
    BY <1>0, <1>1
  <2>2. CASE joinPrev
    <3>1. units[cur] \in Nat /\ units'[cur] = units[cur] + bn
      BY <1>0, <1>1, <1>2, <2>2
    <3> QED BY <1>0, <1>1, <1>5, <2>1, <3>1
  <2>3. CASE ~joinPrev
    <3>1. b \in LC /\ units'[b] = bn
      BY <1>1, <2>3
    <3> QED BY <2>1, <3>1
  <2> QED BY <1>1, <2>2, <2>3
<1>15. ListStep
  <2> HIDE DEF LC
  <2> QED BY <1>1, <1>3, <1>4, <1>5, <1>12, <1>13 DEF ListStep
<1> HIDE DEF LC, V
<1> QED BY <1>3, <1>5, <1>6, <1>10, <1>11, <1>14, <1>15

----------------------------------------------------------------------------
(* slob_alloc takes a block, or the first n units of it *)

\* The blocks after it: cur is one more in use.
Given(T, W, cur) == [a \in Listed' \cup W \cup {cur} |-> IF a \in W THEN T[a] ELSE units'[a]]

LEMMA TakeStep ==
  ASSUME ListOK, NEW C, NEW T, Tiling(C, T), NEW W, DOMAIN T = Listed \cup W,
         W \cap Listed = {}, \A a \in Listed : T[a] = units[a],
         NEW prev \in Listed, NEW cur \in Listed, next[prev] = cur,
         NEW n \in Nat, n >= 2, units[cur] >= n, Taken(prev, cur, n), slobfree' = prev
  PROVE  /\ ListStep /\ cur # arena /\ Listed' \cap (W \cup {cur}) = {}
         /\ \A a \in W : units'[a] = units[a]
         /\ units'[cur] = n
         /\ Tiling(C, Given(T, W, cur))
<1>0. /\ \A x \in DOMAIN T : x \in Nat /\ T[x] \in Nat /\ T[x] > 0 /\ x \in C /\ x \in Addrs
      /\ TypeOK /\ Chain(Listed, next) /\ slobfree \in Listed /\ units[arena] = 1
      /\ \A a \in Listed : a + units[a] \notin Listed
      /\ Listed \subseteq DOMAIN T /\ Listed \in SUBSET Addrs /\ Listed \subseteq Nat
      /\ arena = 0 /\ NULL \notin Addrs /\ arena \in Addrs
  BY TilingNumbers, AddrFacts DEF ListOK, Listed
<1>1. /\ units \in [Addrs -> Nat] /\ next \in [Addrs -> Addrs \cup {NULL}]
      /\ prev \in Addrs /\ cur \in Addrs /\ cur \in Nat /\ prev \in Nat
      /\ next[cur] \in Listed /\ next[cur] \in Addrs /\ units[cur] \in Nat
  BY <1>0 DEF TypeOK, Chain
<1>2. cur # arena
  BY <1>0
<1>3. prev # cur
  BY <1>0, <1>1, <1>2 DEF Chain
<1>4. Listed' = {a \in Addrs : next'[a] # NULL} /\ \A a \in Addrs : a \in Listed <=> next[a] # NULL
  BY DEF Listed
<1>5. cur \notin W
  OBVIOUS
<1> HIDE DEF Listed
<1>6. CASE units[cur] = n
  <2>1. /\ next' = [next EXCEPT ![prev] = next[cur], ![cur] = NULL]
        /\ units' = units
    BY <1>6 DEF Taken
  <2>2. /\ next'[prev] = next[cur] /\ next'[cur] = NULL
        /\ \A a \in Addrs : a # prev /\ a # cur => next'[a] = next[a]
        /\ next' \in [Addrs -> Addrs \cup {NULL}]
    BY <1>1, <1>3, <2>1
  <2>3. Listed' = Listed \ {cur}
    <3>1. \A a \in Addrs : next'[a] # NULL <=> a \in Listed /\ a # cur
      BY <1>0, <1>1, <1>4, <2>2
    <3> QED BY <1>0, <1>4, <3>1
  <2>4. Chain(Listed \ {cur}, next')
    BY <1>0, <1>1, <1>2, <2>2, ChainRemove
  <2>5. ListStep
    <3>1. prev \in Listed'
      BY <1>3, <2>3
    <3>2. Chain(Listed', next')
      BY <2>3, <2>4
    <3>3. \A a \in Listed' : a + units'[a] \notin Listed'
      BY <1>0, <2>1, <2>3
    <3>4. units'[arena] = 1 /\ units' \in [Addrs -> Nat] /\ Listed' \in SUBSET Addrs
      BY <1>0, <1>1, <2>1, <2>3
    <3> QED BY <2>2, <3>1, <3>2, <3>3, <3>4 DEF ListStep
  <2>6. Tiling(C, Given(T, W, cur))
    <3> DEFINE V == Given(T, W, cur)
    <3>1. DOMAIN V = DOMAIN T
      BY <2>3 DEF Given
    <3>2. \A a \in DOMAIN T : V[a] = T[a]
      BY <2>1, <2>3 DEF Given
    <3> HIDE DEF V
    <3>3. Tiling(C, V)
      BY <3>1, <3>2 DEF Tiling
    <3> QED BY <3>3 DEF V
  <2> QED BY <1>2, <1>6, <2>1, <2>3, <2>5, <2>6
<1>7. CASE units[cur] # n
  <2> DEFINE c == cur + n
  <2>1. /\ next' = [next EXCEPT ![prev] = c, ![c] = next[cur], ![cur] = NULL]
        /\ units' = [units EXCEPT ![c] = units[cur] - n, ![cur] = n]
    BY <1>7 DEF Taken
  <2>2. n < T[cur] /\ T[cur] = units[cur] /\ cur \in DOMAIN T
    BY <1>0, <1>1, <1>7
  <2> DEFINE S == [a \in DOMAIN T \cup {c} |->
                     IF a = cur THEN n ELSE IF a = c THEN T[cur] - n ELSE T[a]]
  <2>3. Tiling(C, S) /\ c \notin DOMAIN T /\ c \in Addrs
    <3>1. cur # c
      BY <1>1
    <3>2. /\ DOMAIN S = DOMAIN T \cup {cur + n} /\ S[cur] = n /\ S[cur + n] = T[cur] - n
          /\ \A x \in DOMAIN T \ {cur} : x # c => S[x] = T[x]
      BY <2>2, <3>1
    <3>3. \A x \in DOMAIN T \ {cur} : S[x] = T[x]
      <4>1. c \notin DOMAIN T
        <5>1. \A y \in DOMAIN T : cur < y => cur + T[cur] <= y
          BY <2>2 DEF Tiling
        <5> QED BY <1>0, <1>1, <2>2, <5>1
      <4> QED BY <3>2, <4>1
    <3> HIDE DEF S
    <3>4. n \in Nat \ {0}
      OBVIOUS
    <3>5. Tiling(C, S) /\ cur + n \notin DOMAIN T /\ cur + n \in Addrs
      BY <2>2, <3>2, <3>3, <3>4, TilingSplit
    <3> QED BY <3>5
  <2>4. c \in Nat /\ cur < c /\ c # cur /\ c # prev /\ c \notin Listed /\ c \notin W
    BY <1>0, <1>1, <2>3
  <2>5. Before(Listed, cur, c)
    <3>1. ASSUME NEW a \in Listed, a < c PROVE a <= cur
      <4>1. a \in Nat /\ (cur < a => cur + T[cur] <= a)
        BY <1>0, <2>2 DEF Tiling
      <4> QED BY <1>1, <2>2, <3>1, <4>1
    <3> QED BY <2>4, <3>1 DEF Before
  <2>6. /\ next'[prev] = c /\ next'[c] = next[cur] /\ next'[cur] = NULL
        /\ \A a \in Addrs : a # prev /\ a # cur /\ a # c => next'[a] = next[a]
        /\ next' \in [Addrs -> Addrs \cup {NULL}]
    <3> HIDE DEF c
    <3> QED BY <1>1, <1>3, <2>1, <2>3, <2>4
  <2>7. /\ units'[c] = units[cur] - n /\ units'[cur] = n
        /\ \A a \in Addrs : a # cur /\ a # c => units'[a] = units[a]
        /\ units' \in [Addrs -> Nat]
    <3>1. units[cur] - n \in Nat
      BY <1>1
    <3> HIDE DEF c
    <3> QED BY <1>1, <2>1, <2>3, <2>4, <3>1
  <2> DEFINE LA == Listed \cup {c}
             LB == LA \ {cur}
             nA == [next EXCEPT ![cur] = c, ![c] = next[cur]]
  <2>8. /\ nA[cur] = c /\ nA[c] = next[cur] /\ \A a \in Listed \ {cur} : nA[a] = next[a]
    <3> HIDE DEF c
    <3> QED BY <1>0, <1>1, <2>3, <2>4
  <2> HIDE DEF nA, c
  <2>9. Chain(LA, nA)
    BY <1>0, <2>3, <2>4, <2>5, <2>8, ChainInsert
  <2>10. Listed' = LB
    <3>1. \A a \in Addrs : next'[a] # NULL <=> a \in LB
      BY <1>0, <1>1, <1>3, <1>4, <2>3, <2>4, <2>6
    <3>2. LB \in SUBSET Addrs
      BY <1>0, <2>3
    <3> HIDE DEF LB
    <3> QED BY <1>4, <3>1, <3>2
  <2>11. Chain(LB, next')
    <3>1. /\ LA \in SUBSET Addrs /\ prev \in LA /\ cur \in LA /\ nA[prev] = cur
          /\ next'[prev] = nA[cur]
      BY <1>0, <1>3, <2>3, <2>6, <2>8
    <3>2. \A a \in LA \ {prev, cur} : next'[a] = nA[a]
      BY <1>0, <2>3, <2>6, <2>8
    <3> HIDE DEF LA
    <3> QED BY <1>2, <2>9, <3>1, <3>2, ChainRemove
  <2>12. \A a \in LB : a + units'[a] \notin LB
    <3> SUFFICES ASSUME NEW a \in LB PROVE a + units'[a] \notin Listed /\ a + units'[a] # c
      OBVIOUS
    <3>1. CASE a = c
      <4>1. c + units'[c] = cur + units[cur]
        BY <1>1, <2>4, <2>7 DEF c
      <4>2. c + units'[c] # c
        BY <1>1, <1>7, <2>4, <2>7
      <4> QED BY <1>0, <3>1, <4>1, <4>2
    <3>2. CASE a # c
      <4>1. a \in Listed /\ a # cur /\ units'[a] = units[a] /\ units[a] = T[a] /\ a \in Nat
            /\ T[a] \in Nat /\ T[a] > 0
        BY <1>0, <2>7, <3>2
      <4>2. a + T[a] # c
        <5>1. CASE a < cur
          <6>1. a + T[a] <= cur
            BY <1>0, <2>2, <4>1, <5>1 DEF Tiling
          <6> QED BY <1>1, <2>4, <4>1, <6>1
        <5>2. CASE a > cur
          <6>1. cur + T[cur] <= a
            BY <1>0, <2>2, <4>1, <5>2 DEF Tiling
          <6> QED BY <1>1, <2>2, <4>1, <6>1 DEF c
        <5> QED BY <1>1, <4>1, <5>1, <5>2
      <4> QED BY <1>0, <4>1, <4>2
    <3> QED BY <3>1, <3>2
  <2>13. ListStep
    <3>1. prev \in LB
      BY <1>3
    <3>2. units'[arena] = 1 /\ LB \in SUBSET Addrs
      BY <1>0, <1>2, <2>3, <2>4, <2>7
    <3> HIDE DEF LB
    <3> QED BY <2>6, <2>7, <2>10, <2>11, <2>12, <3>1, <3>2 DEF ListStep
  <2>14. Tiling(C, Given(T, W, cur))
    <3> DEFINE V == Given(T, W, cur)
    <3>1. DOMAIN V = DOMAIN S
      BY <2>10 DEF Given
    <3>2. ASSUME NEW a \in DOMAIN S PROVE V[a] = S[a]
      <4>1. V[a] = IF a \in W THEN T[a] ELSE units'[a]
        BY <3>1 DEF Given
      <4>2. CASE a = cur
        BY <1>5, <2>7, <4>1, <4>2
      <4>3. CASE a = c
        BY <2>2, <2>4, <2>7, <4>1, <4>3
      <4>4. CASE a # cur /\ a # c
        BY <1>0, <2>7, <4>1, <4>4
      <4> QED BY <4>2, <4>3, <4>4
    <3> HIDE DEF V, S
    <3>3. Tiling(C, V)
      BY <2>3, <3>1, <3>2 DEF Tiling
    <3> QED BY <3>3 DEF V
  <2>15. Listed' \cap (W \cup {cur}) = {}
    BY <2>4, <2>10
  <2>16. \A a \in W : units'[a] = units[a]
    BY <1>0, <1>5, <2>4, <2>7
  <2> HIDE DEF LB, S
  <2> QED BY <1>2, <2>7, <2>13, <2>14, <2>15, <2>16
<1> QED BY <1>6, <1>7

----------------------------------------------------------------------------
(* Units, cells and pointers *)

LEMMA UnitsIs ==
  /\ UNIT = 2 /\ PAGE_SIZE = 2 * U /\ U \in Nat /\ U > 2
  /\ SLOB_UNITS(BIGBLOCK) = 2 /\ SLOB_UNITS(PAGE_SIZE) = U
  /\ \A s \in Nat : /\ SLOB_UNITS(s) \in Nat /\ 2 * SLOB_UNITS(s) >= s
                    /\ s >= 3 => SLOB_UNITS(s) >= 2
                    /\ s + UNIT < PAGE_SIZE => SLOB_UNITS(s) <= U
<1>1. U \in Nat /\ U > 2 /\ UNIT = 2 /\ PAGE_SIZE = 2 * U
  BY SlobAssumption DEF UNIT, PAGE_SIZE
<1>2. \A s \in Nat : SLOB_UNITS(s) = (s + 1) \div 2
  BY DEF SLOB_UNITS, UNIT
<1>3. ASSUME NEW s \in Nat
      PROVE  /\ SLOB_UNITS(s) \in Nat
             /\ SLOB_UNITS(s) * 2 <= s + 1 /\ s <= SLOB_UNITS(s) * 2
  <2>1. /\ (s + 1) \div 2 \in Nat /\ (s + 1) % 2 \in 0..1
        /\ s + 1 = ((s + 1) \div 2) * 2 + ((s + 1) % 2)
    BY DivMod
  <2> QED BY <1>2, <2>1
<1>4. BIGBLOCK \in Nat /\ BIGBLOCK = 3 /\ PAGE_SIZE \in Nat
  BY <1>1 DEF BIGBLOCK
<1>5. SLOB_UNITS(BIGBLOCK) = 2 /\ SLOB_UNITS(PAGE_SIZE) = U
  <2>1. PICK x \in Nat : x = SLOB_UNITS(BIGBLOCK) /\ x * 2 <= 4 /\ 3 <= x * 2
    BY <1>3, <1>4
  <2>2. PICK y \in Nat : y = SLOB_UNITS(PAGE_SIZE) /\ y * 2 <= 2 * U + 1 /\ 2 * U <= y * 2
    BY <1>1, <1>3, <1>4
  <2>3. x = 2
    BY <2>1
  <2>4. y = U
    BY <1>1, <2>2
  <2> QED BY <2>1, <2>2, <2>3, <2>4
<1>6. ASSUME NEW s \in Nat
      PROVE  /\ SLOB_UNITS(s) \in Nat /\ 2 * SLOB_UNITS(s) >= s
             /\ s >= 3 => SLOB_UNITS(s) >= 2
             /\ s + UNIT < PAGE_SIZE => SLOB_UNITS(s) <= U
  <2>1. PICK x \in Nat : x = SLOB_UNITS(s) /\ x * 2 <= s + 1 /\ s <= x * 2
    BY <1>3
  <2>2. 2 * x >= s /\ (s >= 3 => x >= 2) /\ (s + 2 < 2 * U => x <= U)
    BY <1>1, <2>1
  <2> QED BY <1>1, <2>1, <2>2
<1> QED BY <1>1, <1>5, <1>6

\* The cells of some pages.
CellsOf(hp) == {arena} \cup UNION {Run(f * U, U) : f \in hp}

LEMMA CellsIs ==
  ASSUME NEW hp \in SUBSET (1..NPages)
  PROVE  /\ CellsOf(hp) \subseteq Addrs /\ 1 \notin CellsOf(hp) /\ arena \in CellsOf(hp)
         /\ \A g \in Nat : g * U \in CellsOf(hp) => g = 0 \/ g \in hp
<1>1. U \in Nat /\ U > 2 /\ NPages \in Nat
  BY SlobAssumption
<1>2. arena = 0 /\ arena \in Addrs
  BY AddrFacts
<1>3. ASSUME NEW f \in hp PROVE f \in Nat /\ f * U \in Nat /\ f * U >= U /\ Run(f * U, U) \subseteq Addrs
  <2>1. f \in Nat /\ f >= 1 /\ f < NPages + 1 /\ NPages + 1 \in Nat /\ 0 \in Nat
    BY <1>1
  <2>2. f * U \in Nat /\ f * U + U <= (NPages + 1) * U
    BY <2>1, PageApart
  <2>3. 0 * U + U <= f * U
    BY <2>1, PageApart
  <2>4. 0 * U = 0
    BY <1>1
  <2>5. (NPages + 1) * U = U * (NPages + 1) /\ U * (NPages + 1) \in Nat
    BY <1>1
  <2>6. Run(f * U, U) \subseteq Addrs
    BY <1>1, <2>2, <2>5 DEF Run, Addrs
  <2> QED BY <1>1, <2>1, <2>2, <2>3, <2>4, <2>6
<1>4. CellsOf(hp) \subseteq Addrs
  BY <1>2, <1>3 DEF CellsOf
<1>5. 1 \notin CellsOf(hp)
  <2>1. \A f \in hp : 1 \notin Run(f * U, U)
    BY <1>1, <1>3 DEF Run
  <2> QED BY <1>2, <2>1 DEF CellsOf
<1>6. ASSUME NEW g \in Nat, g * U \in CellsOf(hp) PROVE g = 0 \/ g \in hp
  <2>1. CASE g * U = 0
    <3>1. 0 * U = 0
      BY <1>1
    <3>2. g * U = 0 * U /\ 0 \in Nat
      BY <2>1, <3>1
    <3> QED BY <3>2, PageApart
  <2>2. CASE g * U # 0
    <3>1. PICK f \in hp : g * U \in Run(f * U, U)
      BY <1>2, <1>6, <2>2 DEF CellsOf
    <3>2. f \in Nat /\ f * U \in Nat /\ g * U \in Nat /\ f * U <= g * U /\ g * U < f * U + U
      BY <1>1, <1>3, <3>1, PageApart DEF Run
    <3>3. ~(f < g) /\ ~(g < f)
      <4>1. f < g => f * U + U <= g * U
        BY <3>2, PageApart
      <4>2. g < f => g * U + U <= f * U
        BY <3>2, PageApart
      <4> QED BY <1>1, <3>2, <4>1, <4>2
    <3> QED BY <3>2, <3>3
  <2> QED BY <2>1, <2>2
<1> QED BY <1>4, <1>5, <1>6, <1>2 DEF CellsOf

\* The pointers that are no block of pages.
Bigs == [at : Addrs, order : Nat, pages : 1..NPages]
SmallOf(hs, bbs) == {h \in hs : \A i \in DOMAIN bbs : bbs[i].pages * U # h.ptr}
DescsOf(bbs, o) == {bbs[i].at : i \in DOMAIN bbs} \cup (IF o.at = "pages" THEN {o.bb} ELSE {})

LEMMA SmallIs ==
  /\ bigblocks \in Seq(Bigs) => Small = SmallOf(held, bigblocks)
  /\ bigblocks' \in Seq(Bigs) => Small' = SmallOf(held', bigblocks')
  /\ bigblocks \in Seq(Bigs) =>
       \A p : BigIndex(p) = {i \in DOMAIN bigblocks : bigblocks[i].pages * U = p}
  /\ Descs = DescsOf(bigblocks, op) /\ Descs' = DescsOf(bigblocks', op')
  /\ Cells = CellsOf(heap) /\ Cells' = CellsOf(heap')
<1>1. ASSUME NEW q \in Seq(Bigs), NEW i \in DOMAIN q PROVE (q[i].pages * U) % U = 0
  <2>1. q[i] \in Bigs
    OBVIOUS
  <2>2. q[i].pages \in Nat
    BY <2>1 DEF Bigs
  <2> QED BY <2>2, PageApart
<1>2. ASSUME bigblocks \in Seq(Bigs), NEW p
      PROVE  BigIndex(p) = {i \in DOMAIN bigblocks : bigblocks[i].pages * U = p}
  <2>1. \A i \in DOMAIN bigblocks : bigblocks[i].pages * U = p => p % U = 0
    BY <1>1, <1>2
  <2> QED BY <2>1 DEF BigIndex
<1>3. bigblocks \in Seq(Bigs) => Small = SmallOf(held, bigblocks)
  BY <1>2 DEF Small, SmallOf
<1>4. ASSUME bigblocks' \in Seq(Bigs)
      PROVE  Small' = SmallOf(held', bigblocks')
  <2>1. ASSUME NEW p PROVE BigIndex(p)' = {i \in DOMAIN bigblocks' : bigblocks'[i].pages * U = p}
    <3>1. \A i \in DOMAIN bigblocks' : bigblocks'[i].pages * U = p => p % U = 0
      BY <1>1, <1>4
    <3> QED BY <3>1 DEF BigIndex
  <2> QED BY <1>4, <2>1 DEF Small, SmallOf, BigIndex
<1>5. Descs = DescsOf(bigblocks, op) /\ Descs' = DescsOf(bigblocks', op')
  BY DEF Descs, DescsOf
<1>6. Cells = CellsOf(heap) /\ Cells' = CellsOf(heap')
  BY DEF Cells, CellsOf
<1> QED BY <1>2, <1>3, <1>4, <1>5, <1>6

----------------------------------------------------------------------------
(* What the invariant says of blocks and pointers *)

LEMMA HeapFacts ==
  ASSUME IInv
  PROVE  /\ bigblocks \in Seq(Bigs) /\ Small = SmallOf(held, bigblocks)
         /\ heap \in SUBSET (1..NPages) /\ frames \in SUBSET (1..NPages)
         /\ Tiling(Cells, Lengths) /\ DOMAIN Lengths = Listed \cup InUse
         /\ Listed \cap InUse = {} /\ Descs \subseteq InUse /\ 1 \notin Cells
         /\ \A a \in Listed : Lengths[a] = units[a]
         /\ \A a \in Descs : Lengths[a] = 2
         /\ \A h \in Small : /\ h \in held /\ h.ptr \in Nat /\ h.ptr - 1 \in InUse \ Descs
                             /\ Lengths[h.ptr - 1] = units[h.ptr - 1]
                             /\ units[h.ptr - 1] = SLOB_UNITS(h.size + UNIT)
                             /\ units[h.ptr - 1] >= 2 /\ h.ptr \in Cells /\ h.ptr # 0
         /\ \A i \in DOMAIN bigblocks :
              /\ bigblocks[i].at \in Descs /\ bigblocks[i].at \in Addrs
              /\ bigblocks[i].order \in Nat
              /\ bigblocks[i].pages \in 1..NPages /\ bigblocks[i].pages \notin heap \cup frames
              /\ bigblocks[i].pages * U \notin Cells
<1>1. /\ bigblocks \in Seq(Bigs) /\ heap \in SUBSET (1..NPages) /\ frames \in SUBSET (1..NPages)
      /\ Tiling(Cells, Lengths) /\ Listed \cap InUse = {}
      /\ held \subseteq [ptr : Nat, size : Sizes]
      /\ \A h \in Small : h.ptr - 1 \notin Descs /\ units[h.ptr - 1] = SLOB_UNITS(h.size + UNIT)
      /\ \A i \in DOMAIN bigblocks :
           PagesFrom(bigblocks[i].pages, bigblocks[i].order) \subseteq (1..NPages) \ (heap \cup frames)
  BY DEF IInv, ListOK, TypeOK, BlocksOK, HeldOK, BigOK, Bigs
<1>2. Small = SmallOf(held, bigblocks) /\ Cells = CellsOf(heap)
  BY <1>1, SmallIs
<1>3. /\ DOMAIN Lengths = Listed \cup InUse /\ Descs \subseteq InUse /\ 1 \notin Cells
      /\ \A a \in Listed \cup InUse : Lengths[a] = IF a \in Descs THEN 2 ELSE units[a]
  BY <1>1, <1>2, CellsIs, UnitsIs DEF Lengths, Length, InUse
<1>4. \A a \in Listed : Lengths[a] = units[a]
  BY <1>1, <1>3
<1>5. ASSUME NEW h \in Small
      PROVE  /\ h \in held /\ h.ptr \in Nat /\ h.ptr - 1 \in InUse \ Descs
             /\ Lengths[h.ptr - 1] = units[h.ptr - 1]
             /\ units[h.ptr - 1] = SLOB_UNITS(h.size + UNIT)
             /\ units[h.ptr - 1] >= 2 /\ h.ptr \in Cells /\ h.ptr # 0
  <2>1. h \in held
    BY DEF Small
  <2>2. h.ptr \in Nat /\ h.size \in Nat /\ h.size # 0
    BY <1>1, <2>1, SlobAssumption
  <2>3. h.ptr - 1 \in InUse \ Descs
    BY <1>1 DEF InUse
  <2>4. Lengths[h.ptr - 1] = units[h.ptr - 1] /\ units[h.ptr - 1] = SLOB_UNITS(h.size + UNIT)
    BY <1>1, <1>3, <2>3
  <2>5. units[h.ptr - 1] >= 2 /\ units[h.ptr - 1] \in Nat
    <3>1. h.size + UNIT \in Nat /\ h.size + UNIT >= 3
      BY <2>2, UnitsIs
    <3> QED BY <2>4, <3>1, UnitsIs
  <2>6. h.ptr - 1 \in Nat /\ Run(h.ptr - 1, Lengths[h.ptr - 1]) \subseteq Cells
    <3>1. h.ptr - 1 \in DOMAIN Lengths
      BY <1>3, <2>3
    <3>2. h.ptr - 1 \in Nat
      BY <1>1, <3>1, TilingNumbers
    <3>3. \A a \in DOMAIN Lengths : Run(a, Lengths[a]) \subseteq Cells
      BY <1>1 DEF Tiling
    <3> QED BY <3>1, <3>2, <3>3
  <2>7. h.ptr \in Run(h.ptr - 1, Lengths[h.ptr - 1])
    BY <2>2, <2>4, <2>5, <2>6 DEF Run
  <2> QED BY <2>1, <2>2, <2>3, <2>4, <2>5, <2>6, <2>7
<1>6. ASSUME NEW i \in DOMAIN bigblocks
      PROVE  /\ bigblocks[i].at \in Descs /\ bigblocks[i].at \in Addrs
             /\ bigblocks[i].order \in Nat
             /\ bigblocks[i].pages \in 1..NPages /\ bigblocks[i].pages \notin heap \cup frames
             /\ bigblocks[i].pages * U \notin Cells
  <2>1. bigblocks[i] \in Bigs
    BY <1>1
  <2>2. bigblocks[i].at \in Addrs /\ bigblocks[i].order \in Nat /\ bigblocks[i].pages \in 1..NPages
    BY <2>1 DEF Bigs
  <2>3. bigblocks[i].pages \in Nat /\ bigblocks[i].pages # 0
    BY <2>2
  <2>4. bigblocks[i].pages \notin heap \cup frames
    BY <1>1, <2>2, <2>3, PagesIs
  <2>5. bigblocks[i].pages * U \notin Cells
    BY <1>1, <1>2, <2>3, <2>4, CellsIs
  <2>6. bigblocks[i].at \in Descs
    BY DEF Descs
  <2> QED BY <2>2, <2>4, <2>5, <2>6
<1>7. \A a \in Descs : Lengths[a] = 2
  BY <1>3
<1> QED BY <1>1, <1>2, <1>3, <1>4, <1>5, <1>6, <1>7

\* The blocks after a step, from what it makes of their lengths.
LEMMA BlocksFrom ==
  ASSUME NEW V, Tiling(Cells', V), DOMAIN V = Listed' \cup InUse', Listed' \cap InUse' = {},
         \A a \in Listed' \cup InUse' : V[a] = IF a \in Descs' THEN 2 ELSE units'[a]
  PROVE  BlocksOK'
<1>1. DOMAIN Lengths' = DOMAIN V /\ \A a \in DOMAIN V : Lengths'[a] = V[a]
  BY UnitsIs DEF Lengths, Length
<1>2. Tiling(Cells', Lengths')
  BY <1>1 DEF Tiling
<1> QED BY <1>2 DEF BlocksOK

\* A step that leaves the heap alone.
LEMMA SameHeap ==
  ASSUME IInv, UNCHANGED <<listVars, bigblocks, frames, heap, held>>, Descs' = Descs,
         op'.at = "pages" => op'.bb = op.bb /\ op.at = "pages"
  PROVE  ListOK' /\ BlocksOK' /\ HeldOK' /\ BigOK'
<1>1. units' = units /\ next' = next /\ slobfree' = slobfree /\ bigblocks' = bigblocks
      /\ frames' = frames /\ heap' = heap /\ held' = held
  BY DEF listVars
<1>2. Listed' = Listed /\ Small' = Small /\ Cells' = Cells
  BY <1>1, HeapFacts, SmallIs DEF Listed
<1>3. InUse' = InUse
  BY <1>2 DEF InUse
<1>4. ListOK'
  BY <1>1, <1>2 DEF IInv, ListOK, TypeOK
<1>5. BlocksOK'
  <2>1. Tiling(Cells', Lengths) /\ DOMAIN Lengths = Listed' \cup InUse' /\ Listed' \cap InUse' = {}
    BY <1>2, <1>3, HeapFacts
  <2>2. \A a \in Listed' \cup InUse' : Lengths[a] = IF a \in Descs' THEN 2 ELSE units'[a]
    BY <1>1, <1>2, <1>3, UnitsIs DEF Lengths, Length
  <2> HIDE DEF Lengths
  <2> QED BY <2>1, <2>2, BlocksFrom
<1>6. HeldOK'
  BY <1>1, <1>2 DEF IInv, HeldOK
<1>7. BigOK'
  BY <1>1 DEF IInv, BigOK
<1> QED BY <1>4, <1>5, <1>6, <1>7

----------------------------------------------------------------------------
(* The steps *)

\* What a step makes of the blocks in use: it keeps them, one of them goes, or
\* one of n units comes.
Kept(W) == \A a \in W : (a \in Descs' <=> a \in Descs) /\ (a \notin Descs => units'[a] = units[a])
UsedSame == InUse' = InUse /\ Kept(InUse)
UsedLess(b) == b \in InUse /\ InUse' = InUse \ {b} /\ Kept(InUse \ {b})
UsedMore(c, n) == /\ c \notin InUse /\ InUse' = InUse \cup {c} /\ Kept(InUse)
                  /\ units'[c] = n /\ (c \in Descs' => n = 2)

LEMMA SameUsed ==
  ASSUME IInv, UNCHANGED <<listVars, bigblocks, frames, heap, held>>, Descs' = Descs
  PROVE  UsedSame
<1>1. units' = units /\ bigblocks' = bigblocks /\ held' = held
  BY DEF listVars
<1>2. Small' = Small
  BY <1>1, HeapFacts, SmallIs
<1>3. InUse' = InUse
  BY <1>2 DEF InUse
<1> QED BY <1>1, <1>3 DEF UsedSame, Kept

LEMMA KmallocStep ==
  ASSUME IInv, NEW size \in Sizes, Kmalloc(size)
  PROVE  IInv' /\ UsedSame
<1> DEFINE big == size >= PAGE_SIZE - UNIT
           bytes == IF big THEN BIGBLOCK ELSE size + UNIT
<1>1. /\ op = Idle /\ bytes + UNIT < PAGE_SIZE
      /\ op' = [at |-> "slob", req |-> size, size |-> bytes, big |-> big, bb |-> NULL, grown |-> 0]
      /\ UNCHANGED <<listVars, bigblocks, frames, heap, held>>
  BY DEF Kmalloc
<1>2. big \in BOOLEAN /\ size \in Nat /\ bytes \in Nat
  BY SlobAssumption, UnitsIs DEF BIGBLOCK
<1>3. /\ op'.at = "slob" /\ op'.req = size /\ op'.size = bytes /\ op'.big = big
      /\ op'.bb = NULL /\ op'.grown = 0 /\ op.at = "idle"
  BY <1>1 DEF Idle
<1>4. Descs' = Descs
  BY <1>1, <1>3 DEF Descs
<1>5. ListOK' /\ BlocksOK' /\ HeldOK' /\ BigOK'
  BY <1>1, <1>3, <1>4, SameHeap
<1>6. op' \in [at : {"slob", "pages"}, req : Sizes, size : Nat, big : BOOLEAN,
               bb : Addrs \cup {NULL}, grown : {0, 1}]
  <2> HIDE DEF big, bytes
  <2> QED BY <1>1, <1>2
<1>7. CallOK'
  <2>1. op'.big <=> op'.req >= PAGE_SIZE - UNIT
    BY <1>3
  <2>2. op'.size = IF op'.big THEN BIGBLOCK ELSE op'.req + UNIT
    BY <1>3
  <2>3. op'.size + UNIT < PAGE_SIZE
    BY <1>1, <1>3
  <2>4. op'.at # "pages" /\ op'.grown # 1
    BY <1>3
  <2> HIDE DEF big, bytes
  <2> QED BY <1>6, <2>1, <2>2, <2>3, <2>4 DEF CallOK
<1>8. UsedSame
  BY <1>1, <1>4, SameUsed
<1> QED BY <1>5, <1>7, <1>8 DEF IInv

LEMMA SlobFailsStep ==
  ASSUME IInv, SlobFails
  PROVE  IInv' /\ UsedSame
<1>1. op.at = "slob" /\ op' = Idle /\ op'.at = "idle"
      /\ UNCHANGED <<listVars, bigblocks, frames, heap, held>>
  BY DEF SlobFails, Idle
<1>2. Descs' = Descs
  BY <1>1 DEF Descs
<1>3. ListOK' /\ BlocksOK' /\ HeldOK' /\ BigOK'
  BY <1>1, <1>2, SameHeap
<1>4. CallOK'
  BY <1>1 DEF CallOK
<1>5. UsedSame
  BY <1>1, <1>2, SameUsed
<1> QED BY <1>3, <1>4, <1>5 DEF IInv

LEMMA StutterStep ==
  ASSUME IInv, UNCHANGED vars
  PROVE  IInv' /\ UsedSame
<1>1. UNCHANGED <<listVars, bigblocks, frames, heap, held>> /\ op' = op /\ units' = units /\ next' = next
  BY DEF vars, listVars
<1>2. Descs' = Descs
  BY <1>1 DEF Descs
<1>3. ListOK' /\ BlocksOK' /\ HeldOK' /\ BigOK'
  BY <1>1, <1>2, SameHeap
<1>4. CallOK'
  BY <1>1 DEF CallOK, IInv, Listed
<1>5. UsedSame
  BY <1>1, <1>2, SameUsed
<1> QED BY <1>3, <1>4, <1>5 DEF IInv

LEMMA ListFrom ==
  ASSUME ListStep, heap' \in SUBSET (1..NPages), frames' \in SUBSET (1..NPages)
  PROVE  ListOK'
<1>1. slobfree' \in Addrs
  BY DEF ListStep
<1>2. TypeOK'
  BY <1>1 DEF ListStep, TypeOK
<1> QED BY <1>2 DEF ListStep, ListOK

\* The request in progress, and the units it asks for.
CallFacts ==
  /\ op \in [at : {"slob", "pages"}, req : Sizes, size : Nat, big : BOOLEAN,
             bb : Addrs \cup {NULL}, grown : {0, 1}]
  /\ op.req \in Sizes /\ op.req \in Nat /\ op.size \in Nat /\ op.big \in BOOLEAN
  /\ op.big <=> op.req >= PAGE_SIZE - UNIT
  /\ op.size = IF op.big THEN BIGBLOCK ELSE op.req + UNIT
  /\ op.size + UNIT < PAGE_SIZE
  /\ op.at = "pages" => op.big /\ op.bb \in Addrs
  /\ SLOB_UNITS(op.size) \in Nat /\ SLOB_UNITS(op.size) >= 2 /\ SLOB_UNITS(op.size) <= U
  /\ op.big => SLOB_UNITS(op.size) = 2

LEMMA CallIs ==
  ASSUME IInv, op.at # "idle"
  PROVE  CallFacts
<1>1. /\ op \in [at : {"slob", "pages"}, req : Sizes, size : Nat, big : BOOLEAN,
                 bb : Addrs \cup {NULL}, grown : {0, 1}]
      /\ op.big <=> op.req >= PAGE_SIZE - UNIT
      /\ op.size = IF op.big THEN BIGBLOCK ELSE op.req + UNIT
      /\ op.size + UNIT < PAGE_SIZE
      /\ op.at = "pages" => op.big /\ op.bb \in Addrs
  BY DEF IInv, CallOK, Idle
<1>2. op.req \in Sizes /\ op.req \in Nat /\ op.req # 0 /\ op.size \in Nat /\ op.big \in BOOLEAN
  BY <1>1, SlobAssumption
<1>3. op.size >= 3
  BY <1>1, <1>2, UnitsIs DEF BIGBLOCK
<1>4. SLOB_UNITS(op.size) \in Nat /\ SLOB_UNITS(op.size) >= 2 /\ SLOB_UNITS(op.size) <= U
  BY <1>1, <1>2, <1>3, UnitsIs
<1>5. op.big => SLOB_UNITS(op.size) = 2
  BY <1>1, UnitsIs
<1> QED BY <1>1, <1>2, <1>4, <1>5 DEF CallFacts

LEMMA SlobFoundStep ==
  ASSUME IInv, NEW k, SlobFound(k)
  PROVE  /\ IInv' /\ UsedMore(Walk[k], SLOB_UNITS(op.size)) /\ heap' = heap
         /\ Walk[k] \in Listed /\ Walk[k] # arena /\ units[Walk[k]] >= SLOB_UNITS(op.size)
<1> DEFINE n == SLOB_UNITS(op.size)
           prev == Walk[k - 1]
           cur == Walk[k]
<1>1. /\ op.at = "slob" /\ FitsAt(k, n) /\ Taken(prev, cur, n) /\ slobfree' = prev
      /\ IF op.big THEN op' = [op EXCEPT !.at = "pages", !.bb = cur] /\ held' = held
         ELSE op' = Idle /\ held' = held \cup {[ptr |-> cur + 1, size |-> op.req]}
      /\ bigblocks' = bigblocks /\ frames' = frames /\ heap' = heap
  BY DEF SlobFound
<1>2. CallFacts
  BY <1>1, CallIs
<1>3. TypeOK /\ Chain(Listed, next) /\ slobfree \in Listed /\ ListOK
  BY DEF IInv, ListOK
<1>4. prev \in Listed /\ cur \in Listed /\ next[prev] = cur /\ units[cur] >= n
  <2>1. k \in 1..Round /\ units[Walk[k]] >= n
    BY <1>1 DEF FitsAt
  <2>2. Round \in 1..Cardinality(Addrs) /\ Cardinality(Addrs) \in Nat
    BY <1>3, RoundIs, AddrFacts
  <2>3. k \in 0..Cardinality(Addrs) /\ k - 1 \in 0..Cardinality(Addrs) /\ k # 0
    BY <2>1, <2>2
  <2> QED BY <1>3, <2>1, <2>3, WalkIs
<1> HIDE DEF prev, cur
<1>5. n \in Nat /\ n >= 2 /\ n <= U
  BY <1>2 DEF CallFacts
<1> HIDE DEF n
<1> DEFINE V == Given(Lengths, InUse, cur)
<1>6. /\ ListStep /\ cur # arena /\ Listed' \cap (InUse \cup {cur}) = {}
      /\ \A a \in InUse : units'[a] = units[a]
      /\ units'[cur] = n
      /\ Tiling(Cells, V)
  <2>1. /\ Tiling(Cells, Lengths) /\ DOMAIN Lengths = Listed \cup InUse /\ InUse \cap Listed = {}
        /\ \A a \in Listed : Lengths[a] = units[a]
    BY HeapFacts
  <2> HIDE DEF V
  <2> QED BY <1>1, <1>3, <1>4, <1>5, <2>1, TakeStep DEF V
<1>7. /\ DOMAIN V = Listed' \cup InUse \cup {cur}
      /\ \A a \in InUse : V[a] = Lengths[a]
      /\ \A a \in Listed' \cup {cur} : V[a] = units'[a]
      /\ cur \notin InUse
  <2>1. cur \notin InUse
    BY <1>4, HeapFacts
  <2> QED BY <1>6, <2>1 DEF Given
<1> HIDE DEF V
<1>8. /\ bigblocks \in Seq(Bigs) /\ bigblocks' \in Seq(Bigs) /\ Cells' = Cells
      /\ Small = SmallOf(held, bigblocks) /\ Small' = SmallOf(held', bigblocks)
      /\ Descs = DescsOf(bigblocks, op) /\ Descs' = DescsOf(bigblocks, op')
      /\ DOMAIN bigblocks' = DOMAIN bigblocks
  BY <1>1, HeapFacts, SmallIs
<1>9. ListOK'
  BY <1>1, <1>6, HeapFacts, ListFrom
<1>10. /\ cur \in Nat /\ cur \in Addrs /\ cur + 1 \in Cells /\ cur + 1 \in Nat
       /\ \A i \in DOMAIN bigblocks : bigblocks[i].pages * U # cur + 1
  <2>1. cur \in DOMAIN Lengths /\ Lengths[cur] = units[cur] /\ Tiling(Cells, Lengths)
    BY <1>4, HeapFacts
  <2>2. cur \in Nat /\ cur \in Addrs /\ Lengths[cur] \in Nat /\ Run(cur, Lengths[cur]) \subseteq Cells
    BY <2>1, TilingNumbers DEF Tiling
  <2>3. cur + 1 \in Run(cur, Lengths[cur])
    BY <1>4, <1>5, <2>1, <2>2 DEF Run
  <2>4. cur + 1 \in Cells
    BY <2>2, <2>3
  <2> QED BY <2>2, <2>4, HeapFacts
<1>11. InUse' = InUse \cup {cur}
  <2>1. InUse = {h.ptr - 1 : h \in Small} \cup Descs
        /\ InUse' = {h.ptr - 1 : h \in Small'} \cup Descs'
    BY DEF InUse
  <2>2. CASE op.big
    <3>1. op'.at = "pages" /\ op'.bb = cur
      BY <1>1, <1>2, <2>2 DEF CallFacts
    <3>2. Descs' = Descs \cup {cur}
      BY <1>1, <1>8, <3>1 DEF DescsOf
    <3>3. Small' = Small
      BY <1>1, <1>8, <2>2
    <3> QED BY <2>1, <3>2, <3>3
  <2>3. CASE ~op.big
    <3>1. op'.at = "idle"
      BY <1>1, <2>3 DEF Idle
    <3>2. Descs' = Descs
      BY <1>1, <1>8, <3>1 DEF DescsOf
    <3> DEFINE h0 == [ptr |-> cur + 1, size |-> op.req]
    <3>3. Small' = Small \cup {h0}
      BY <1>1, <1>8, <1>10, <2>3 DEF SmallOf
    <3>4. h0.ptr - 1 = cur
      BY <1>10
    <3> HIDE DEF h0
    <3> QED BY <2>1, <3>2, <3>3, <3>4
  <2> QED BY <1>2, <2>2, <2>3 DEF CallFacts
<1>12. \A a \in InUse : (a \in Descs <=> a \in Descs')
  <2>1. Descs' \subseteq Descs \cup {cur} /\ Descs \subseteq Descs'
    <3>1. op.big => op'.at = "pages" /\ op'.bb = cur
      BY <1>1, <1>2 DEF CallFacts
    <3>2. ~op.big => op'.at = "idle"
      BY <1>1 DEF Idle
    <3>3. op.big \in BOOLEAN
      BY <1>2 DEF CallFacts
    <3> QED BY <1>1, <1>8, <3>1, <3>2, <3>3 DEF DescsOf
  <2> QED BY <1>7, <2>1
<1>13. cur \in Descs' => n = 2
  <2>1. CASE op.big
    BY <1>2, <2>1 DEF CallFacts, n
  <2>2. CASE ~op.big
    <3>1. op'.at = "idle"
      BY <1>1, <2>2 DEF Idle
    <3>2. Descs' = Descs
      BY <1>1, <1>8, <3>1 DEF DescsOf
    <3> QED BY <1>7, <3>2, HeapFacts
  <2> QED BY <1>2, <2>1, <2>2 DEF CallFacts
<1>14. BlocksOK'
  <2>1. Tiling(Cells', V) /\ DOMAIN V = Listed' \cup InUse' /\ Listed' \cap InUse' = {}
    BY <1>6, <1>7, <1>8, <1>11
  <2>2. ASSUME NEW a \in Listed' \cup InUse' PROVE V[a] = IF a \in Descs' THEN 2 ELSE units'[a]
    <3>1. CASE a = cur
      BY <1>6, <1>7, <1>13, <3>1
    <3>2. CASE a \in Listed'
      <4>1. a \notin Descs'
        <5>1. Descs' \subseteq InUse'
          BY DEF InUse
        <5> QED BY <2>1, <3>2, <5>1
      <4> QED BY <1>7, <3>2, <4>1
    <3>3. CASE a \in InUse
      <4>1. CASE a \in Descs
        BY <1>7, <1>12, <3>3, <4>1, HeapFacts
      <4>2. CASE a \notin Descs
        <5>1. PICK h \in Small : a = h.ptr - 1
          BY <3>3, <4>2 DEF InUse
        <5>2. Lengths[a] = units[a]
          BY <5>1, HeapFacts
        <5> QED BY <1>6, <1>7, <1>12, <3>3, <4>2, <5>2
      <4> QED BY <4>1, <4>2
    <3> QED BY <1>11, <3>1, <3>2, <3>3
  <2> QED BY <2>1, <2>2, BlocksFrom
<1>15. /\ held \subseteq [ptr : Nat, size : Sizes]
       /\ \A h, g \in held : h.ptr = g.ptr => h = g
       /\ \A h \in Small : h.ptr - 1 \notin Descs /\ units[h.ptr - 1] = SLOB_UNITS(h.size + UNIT)
  BY DEF IInv, HeldOK
<1>16. \A h \in Small : /\ h.ptr - 1 \in InUse /\ h.ptr - 1 # cur /\ h.ptr - 1 \notin Descs'
                        /\ units'[h.ptr - 1] = SLOB_UNITS(h.size + UNIT)
  BY <1>6, <1>7, <1>12, HeapFacts
<1>17. \A h \in held : h.ptr # cur + 1
  <2> SUFFICES ASSUME NEW h \in held, h.ptr = cur + 1 PROVE FALSE
    OBVIOUS
  <2>1. h \in Small
    BY <1>8, <1>10 DEF SmallOf
  <2>2. h.ptr - 1 = cur
    BY <1>10
  <2> QED BY <1>16, <2>1, <2>2
<1>18. /\ \A i, j \in DOMAIN bigblocks : i # j =>
            /\ bigblocks[i].at # bigblocks[j].at
            /\ PagesFrom(bigblocks[i].pages, bigblocks[i].order)
                 \cap PagesFrom(bigblocks[j].pages, bigblocks[j].order) = {}
       /\ \A i \in DOMAIN bigblocks :
            /\ PagesFrom(bigblocks[i].pages, bigblocks[i].order) \subseteq (1..NPages) \ (heap \cup frames)
            /\ \A h \in held : bigblocks[i].pages * U = h.ptr =>
                 h.size >= PAGE_SIZE - UNIT /\ bigblocks[i].order = find_order(h.size)
       /\ heap \cap frames = {}
  BY DEF IInv, BigOK
<1>effect. /\ UsedMore(Walk[k], SLOB_UNITS(op.size)) /\ heap' = heap
           /\ Walk[k] \in Listed /\ Walk[k] # arena /\ units[Walk[k]] >= SLOB_UNITS(op.size)
  <2>1. UsedMore(cur, n)
    BY <1>6, <1>7, <1>11, <1>12, <1>13 DEF UsedMore, Kept
  <2>2. heap' = heap /\ cur \in Listed /\ cur # arena /\ units[cur] >= n
    BY <1>1, <1>4, <1>6
  <2> QED BY <2>1, <2>2 DEF cur, n
<1>19. CASE op.big
  <2>1. op' = [op EXCEPT !.at = "pages", !.bb = cur] /\ held' = held
    BY <1>1, <1>19
  <2>2. op'.at = "pages" /\ op'.bb = cur
    BY <1>2, <2>1 DEF CallFacts
  <2>3. Small' = Small
    BY <1>8, <2>1
  <2>4. HeldOK'
    BY <1>15, <1>16, <2>1, <2>3 DEF HeldOK
  <2>5. \A i \in DOMAIN bigblocks : bigblocks[i].at # cur
    BY <1>7, HeapFacts
  <2>6. BigOK'
    BY <1>1, <1>8, <1>18, <2>1, <2>2, <2>5 DEF BigOK, Bigs
  <2>7. CallOK'
    <3>1. op' \in [at : {"slob", "pages"}, req : Sizes, size : Nat, big : BOOLEAN,
                   bb : Addrs \cup {NULL}, grown : {0, 1}]
      BY <1>2, <1>10, <2>1 DEF CallFacts
    <3>2. op'.big = op.big /\ op'.req = op.req /\ op'.size = op.size
      BY <1>2, <2>1 DEF CallFacts
    <3> QED BY <1>2, <1>10, <1>19, <2>2, <3>1, <3>2 DEF CallOK, CallFacts
  <2> QED BY <1>9, <1>14, <1>effect, <2>4, <2>6, <2>7 DEF IInv
<1>20. CASE ~op.big
  <2> DEFINE h0 == [ptr |-> cur + 1, size |-> op.req]
  <2>1. op' = Idle /\ held' = held \cup {h0} /\ op'.at = "idle"
    BY <1>1, <1>20 DEF Idle
  <2>2. h0 \in [ptr : Nat, size : Sizes] /\ h0.ptr = cur + 1 /\ h0.size = op.req
    BY <1>2, <1>10 DEF CallFacts
  <2> HIDE DEF h0
  <2>3. Small' = Small \cup {h0}
    BY <1>8, <1>10, <2>1, <2>2 DEF SmallOf
  <2>4. Descs' = Descs
    BY <1>1, <1>8, <2>1 DEF DescsOf
  <2>5. h0.ptr - 1 \notin Descs' /\ units'[h0.ptr - 1] = SLOB_UNITS(h0.size + UNIT)
    <3>1. h0.ptr - 1 = cur
      BY <1>10, <2>2
    <3>2. n = SLOB_UNITS(h0.size + UNIT)
      BY <1>2, <1>20, <2>2 DEF CallFacts, n
    <3>3. cur \notin Descs'
      BY <1>7, <2>4, HeapFacts
    <3> QED BY <1>6, <3>1, <3>2, <3>3
  <2>6. HeldOK'
    <3>1. held' \subseteq [ptr : Nat, size : Sizes]
      BY <1>15, <2>1, <2>2
    <3>2. \A h, g \in held' : h.ptr = g.ptr => h = g
      BY <1>15, <1>17, <2>1, <2>2
    <3>3. \A h \in Small' : h.ptr - 1 \notin Descs' /\ units'[h.ptr - 1] = SLOB_UNITS(h.size + UNIT)
      BY <1>16, <2>3, <2>5
    <3> QED BY <3>1, <3>2, <3>3 DEF HeldOK
  <2>7. BigOK'
    <3>1. \A i \in DOMAIN bigblocks : \A h \in held' : bigblocks[i].pages * U = h.ptr =>
            h.size >= PAGE_SIZE - UNIT /\ bigblocks[i].order = find_order(h.size)
      BY <1>10, <1>18, <2>1, <2>2
    <3> QED BY <1>1, <1>8, <1>18, <2>1, <3>1 DEF BigOK, Bigs
  <2>8. CallOK'
    BY <2>1 DEF CallOK
  <2> QED BY <1>9, <1>14, <1>effect, <2>6, <2>7, <2>8 DEF IInv
<1> QED BY <1>2, <1>19, <1>20 DEF CallFacts

\* What a call of slob_free leaves, from FreeStep.
LEMMA FreedBlocks ==
  ASSUME NEW T, NEW W, Tiling(Cells', Rest(T, W)), Listed' \cap W = {}, InUse' = W,
         \A a \in W : T[a] = IF a \in Descs' THEN 2 ELSE units'[a]
  PROVE  BlocksOK'
<1> DEFINE V == Rest(T, W)
<1>1. DOMAIN V = Listed' \cup W /\ \A a \in Listed' \cup W : V[a] = IF a \in W THEN T[a] ELSE units'[a]
  BY DEF Rest
<1> HIDE DEF V
<1>2. Descs' \subseteq W
  BY DEF InUse
<1>3. \A a \in Listed' \cup InUse' : V[a] = IF a \in Descs' THEN 2 ELSE units'[a]
  BY <1>1, <1>2
<1>4. Tiling(Cells', V)
  BY DEF V
<1> QED BY <1>1, <1>3, <1>4, BlocksFrom

LEMMA FreedHeld ==
  ASSUME IInv, held' \subseteq held, Small' \subseteq Small, Descs' \subseteq Descs,
         \A a \in InUse' : units'[a] = units[a]
  PROVE  HeldOK'
<1>1. /\ held \subseteq [ptr : Nat, size : Sizes]
      /\ \A h, g \in held : h.ptr = g.ptr => h = g
      /\ \A h \in Small : h.ptr - 1 \notin Descs /\ units[h.ptr - 1] = SLOB_UNITS(h.size + UNIT)
  BY DEF IInv, HeldOK
<1>2. \A h \in Small' : h.ptr - 1 \in InUse'
  BY DEF InUse
<1>3. \A h \in Small' : h.ptr - 1 \notin Descs' /\ units'[h.ptr - 1] = SLOB_UNITS(h.size + UNIT)
  BY <1>1, <1>2
<1> QED BY <1>1, <1>3 DEF HeldOK

\* Lengths of blocks that stay in use.
LEMMA LengthIs ==
  ASSUME IInv, NEW a \in InUse
  PROVE  /\ Lengths[a] = IF a \in Descs THEN 2 ELSE units[a]
         /\ a \in Addrs /\ a \notin Listed /\ a \in DOMAIN Lengths
<1>1. /\ Tiling(Cells, Lengths) /\ DOMAIN Lengths = Listed \cup InUse /\ Listed \cap InUse = {}
  BY HeapFacts
<1>2. a \in DOMAIN Lengths /\ a \notin Listed /\ a \in Addrs
  BY <1>1, TilingNumbers
<1> QED BY <1>2, UnitsIs DEF Lengths, Length

\* slob_alloc finds a block if there is one.
LEMMA FitsIs ==
  ASSUME IInv, NEW n
  PROVE  Fits(n) <=> \E a \in Listed : units[a] >= n
<1>1. TypeOK /\ Chain(Listed, next) /\ slobfree \in Listed
  BY DEF IInv, ListOK
<1>2. /\ Round \in 1..Cardinality(Addrs) /\ Cardinality(Addrs) \in Nat
      /\ \A a \in Listed : \E k \in 1..Round : Walk[k] = a
  BY <1>1, RoundIs, AddrFacts
<1>3. \A k \in 1..Round : Walk[k] \in Listed
  <2>1. \A k \in 1..Round : k \in 0..Cardinality(Addrs)
    BY <1>2
  <2> QED BY <1>1, <2>1, WalkIs
<1> QED BY <1>2, <1>3 DEF Fits

\* The cells of a page are no cells of other pages.
LEMMA PageNew ==
  ASSUME NEW hp \in SUBSET (1..NPages), NEW f \in 1..NPages, f \notin hp
  PROVE  Run(f * U, U) \cap CellsOf(hp) = {}
<1> DEFINE b == f * U
<1>1. SUFFICES ASSUME NEW x \in Run(b, U), x \in CellsOf(hp) PROVE FALSE
  OBVIOUS
<1>2. f \in Nat /\ f # 0 /\ U \in Nat /\ U > 2
  BY UnitsIs
<1>3. b \in Nat
  BY <1>2, PageApart
<1>4. x \in Nat /\ b <= x /\ x < b + U
  BY <1>1, <1>2, <1>3 DEF Run
<1>5. CASE x = arena
  <2>1. 0 * U + U <= f * U
    BY <1>2, PageApart
  <2>2. U <= b
    BY <1>2, <1>3, <2>1
  <2>3. x = 0
    BY <1>5, AddrFacts
  <2> HIDE DEF b
  <2> QED BY <1>2, <1>3, <1>4, <2>2, <2>3
<1>6. CASE x # arena
  <2>1. PICK g \in hp : x \in Run(g * U, U)
    BY <1>1, <1>6 DEF CellsOf
  <2>2. g \in Nat /\ g # f
    OBVIOUS
  <2> DEFINE y == g * U
  <2>3. y \in Nat
    BY <2>2, PageApart
  <2>4. y <= x /\ x < y + U
    BY <1>2, <1>4, <2>1, <2>3 DEF Run
  <2>5. (f < g => b + U <= y) /\ (g < f => y + U <= b)
    BY <1>2, <2>2, PageApart
  <2>6. f < g \/ g < f
    BY <1>2, <2>2
  <2> HIDE DEF y, b
  <2> QED BY <1>2, <1>3, <1>4, <2>3, <2>4, <2>5, <2>6
<1> QED BY <1>5, <1>6

\* The new page, as a block of its own.
WithPage(b) == [a \in Listed \cup InUse \cup {b} |-> IF a = b THEN U ELSE Lengths[a]]

LEMMA SlobGrowStep ==
  ASSUME IInv, NEW f \in frames, SlobGrow(f)
  PROVE  IInv' /\ UsedSame
<1> DEFINE b == f * U
           T == WithPage(b)
<1>1. /\ op.at = "slob" /\ ~Fits(SLOB_UNITS(op.size))
      /\ frames' = frames \ {f} /\ heap' = heap \cup {f}
      /\ SlobFree(b, SLOB_UNITS(PAGE_SIZE))
      /\ op' = [op EXCEPT !.grown = @ + 1]
      /\ bigblocks' = bigblocks /\ held' = held
  BY DEF SlobGrow
<1>2. CallFacts
  BY <1>1, CallIs
<1>3. /\ frames \in SUBSET (1..NPages) /\ heap \in SUBSET (1..NPages) /\ heap \cap frames = {}
      /\ bigblocks \in Seq(Bigs)
  BY HeapFacts DEF IInv, BigOK
<1>4. f \in Nat /\ f # 0 /\ f \in 1..NPages /\ f \notin heap
  BY <1>3
<1>5. U \in Nat \ {0} /\ SLOB_UNITS(PAGE_SIZE) = U
  BY UnitsIs
<1>6. b \in Nat /\ b \in Run(b, U)
  BY <1>4, <1>5, PageApart DEF Run
<1>7. Cells = CellsOf(heap) /\ Cells' = CellsOf(heap') /\ Cells' = Cells \cup Run(b, U)
  <2>1. Cells = CellsOf(heap) /\ Cells' = CellsOf(heap')
    BY SmallIs
  <2> QED BY <1>1, <2>1 DEF CellsOf
<1>8. Run(b, U) \subseteq Addrs /\ b \in Addrs /\ 1 \notin Cells'
  <2>1. heap' \in SUBSET (1..NPages)
    BY <1>1, <1>3, <1>4
  <2> QED BY <1>6, <1>7, <2>1, CellsIs
<1>9. Run(b, U) \cap Cells = {}
  BY <1>3, <1>4, <1>7, PageNew
<1> HIDE DEF b
<1>10. /\ Tiling(Cells, Lengths) /\ DOMAIN Lengths = Listed \cup InUse
       /\ Listed \cap InUse = {} /\ \A a \in Listed : Lengths[a] = units[a]
  BY HeapFacts
<1>11. /\ DOMAIN T = DOMAIN Lengths \cup {b} /\ T[b] = U
       /\ \A a \in Listed \cup InUse : a # b => T[a] = Lengths[a]
  BY <1>10 DEF WithPage
<1> HIDE DEF T
<1>12. Tiling(Cells', T) /\ b \notin DOMAIN Lengths
  <2>1. b \notin DOMAIN Lengths
    BY <1>6, <1>9, <1>10, TilingNumbers
  <2>2. \A a \in DOMAIN Lengths : T[a] = Lengths[a]
    BY <1>10, <1>11, <2>1
  <2>3. Tiling(Cells \cup Run(b, U), T)
    BY <1>5, <1>8, <1>9, <1>10, <1>11, <2>2, TilingAdd
  <2> QED BY <1>7, <2>1, <2>3
<1>13. /\ ListStep /\ Listed' \cap InUse = {}
       /\ \A a \in InUse : units'[a] = units[a]
       /\ Tiling(Cells', Rest(T, InUse))
       /\ \E a \in Listed' : units'[a] >= U
  <2>1. /\ DOMAIN T = Listed \cup InUse \cup {b} /\ b \notin InUse /\ InUse \cap Listed = {}
        /\ \A a \in Listed : T[a] = units[a] /\ b \in Addrs \ Listed
    BY <1>8, <1>10, <1>11, <1>12
  <2>2. SlobFree(b, U) /\ ListOK
    BY <1>1, <1>5 DEF IInv
  <2> QED BY <1>8, <1>11, <1>12, <2>1, <2>2, FreeStep
<1>14. op'.at = "slob" /\ op'.grown = op.grown + 1 /\ op'.req = op.req /\ op'.size = op.size
       /\ op'.big = op.big
  BY <1>1, <1>2 DEF CallFacts
<1>15. Descs' = Descs /\ Small' = Small /\ InUse' = InUse
  <2>1. Descs' = Descs
    BY <1>1, <1>14 DEF Descs
  <2>2. Small' = Small
    BY <1>1, <1>3, SmallIs
  <2> QED BY <2>1, <2>2 DEF InUse
<1>16. ListOK'
  <2>1. heap' \in SUBSET (1..NPages) /\ frames' \in SUBSET (1..NPages)
    BY <1>1, <1>3, <1>4
  <2> QED BY <1>13, <2>1, ListFrom
<1>17. BlocksOK'
  <2>1. ASSUME NEW a \in InUse PROVE T[a] = IF a \in Descs' THEN 2 ELSE units'[a]
    <3>1. a # b
      BY <1>10, <1>12
    <3> QED BY <1>11, <1>13, <1>15, <3>1, LengthIs
  <2> QED BY <1>13, <1>15, <2>1, FreedBlocks
<1>18. HeldOK'
  BY <1>1, <1>13, <1>15, FreedHeld
<1>19. BigOK'
  <2>1. heap' \cup frames' = heap \cup frames /\ heap' \cap frames' = {}
    BY <1>1, <1>3
  <2> QED BY <1>1, <1>14, <2>1 DEF IInv, BigOK
<1>20. CallOK'
  <2>1. op.grown = 0
    <3>1. SUFFICES ASSUME op.grown = 1 PROVE FALSE
      BY <1>2 DEF CallFacts
    <3>2. \E a \in Listed : units[a] >= SLOB_UNITS(op.size)
      BY <1>1, <3>1 DEF IInv, CallOK, Idle
    <3> QED BY <1>1, <3>2, FitsIs
  <2>2. op' \in [at : {"slob", "pages"}, req : Sizes, size : Nat, big : BOOLEAN,
                 bb : Addrs \cup {NULL}, grown : {0, 1}]
    <3>1. op.grown + 1 = 1
      BY <2>1
    <3> QED BY <1>1, <1>2, <3>1 DEF CallFacts
  <2>3. \E a \in Listed' : units'[a] >= SLOB_UNITS(op'.size)
    <3>1. PICK a \in Listed' : units'[a] >= U
      BY <1>13
    <3>2. units'[a] \in Nat
      BY <1>13, <3>1 DEF ListStep
    <3>3. SLOB_UNITS(op.size) \in Nat /\ SLOB_UNITS(op.size) <= U /\ U \in Nat
      BY <1>2, UnitsIs DEF CallFacts
    <3>4. units'[a] >= SLOB_UNITS(op.size)
      BY <3>1, <3>2, <3>3
    <3> QED BY <1>14, <3>4
  <2> QED BY <1>2, <1>14, <2>2, <2>3 DEF CallOK, CallFacts
<1>21. UsedSame
  BY <1>13, <1>15 DEF UsedSame, Kept
<1> QED BY <1>16, <1>17, <1>18, <1>19, <1>20, <1>21 DEF IInv

LEMMA BigPagesStep ==
  ASSUME IInv, NEW f \in frames, BigPages(f)
  PROVE  IInv' /\ UsedSame
<1> DEFINE o == find_order(op.req)
           r == [at |-> op.bb, order |-> o, pages |-> f]
           h0 == [ptr |-> f * U, size |-> op.req]
           M == Len(bigblocks)
<1>1. /\ op.at = "pages" /\ PagesFrom(f, o) \subseteq frames
      /\ frames' = frames \ PagesFrom(f, o)
      /\ bigblocks' = <<r>> \o bigblocks
      /\ units' = [units EXCEPT ![op.bb] = 0]
      /\ held' = held \cup {h0}
      /\ op' = Idle /\ next' = next /\ slobfree' = slobfree /\ heap' = heap
  BY DEF BigPages
<1>2. CallFacts /\ op.big /\ op.bb \in Addrs /\ op.bb \in Descs /\ op'.at = "idle"
  BY <1>1, CallIs DEF CallFacts, Descs, Idle
<1>3. /\ frames \in SUBSET (1..NPages) /\ heap \in SUBSET (1..NPages) /\ heap \cap frames = {}
      /\ bigblocks \in Seq(Bigs)
  BY HeapFacts DEF IInv, BigOK
<1>4. f \in Nat /\ f # 0 /\ f \in 1..NPages /\ f \notin heap
  BY <1>3
<1>5. o \in Nat /\ op.req \in Nat /\ op.req \in Sizes /\ op.req >= PAGE_SIZE - UNIT
  BY <1>2, OrderIs DEF CallFacts
<1>6. r \in Bigs /\ r.at = op.bb /\ r.order = o /\ r.pages = f
  BY <1>2, <1>4, <1>5 DEF Bigs
<1>7. h0 \in [ptr : Nat, size : Sizes] /\ h0.ptr = f * U /\ h0.size = op.req
  BY <1>4, <1>5, PageApart
<1> HIDE DEF o, r, h0
<1>8. M \in Nat /\ DOMAIN bigblocks = 1..M
  BY <1>3
<1>9. /\ bigblocks' \in Seq(Bigs) /\ DOMAIN bigblocks' = 1..(M + 1)
      /\ bigblocks'[1] = r /\ \A k \in 2..(M + 1) : bigblocks'[k] = bigblocks[k - 1]
  BY <1>1, <1>3, <1>6, HandFacts
<1>10. \A k \in 2..(M + 1) : k - 1 \in DOMAIN bigblocks
  BY <1>8
<1>11. f * U \notin Cells
  <2>1. Cells = CellsOf(heap)
    BY SmallIs
  <2> QED BY <1>3, <1>4, <2>1, CellsIs
<1>12. \A k \in DOMAIN bigblocks : bigblocks[k].pages * U # f * U
  <2> SUFFICES ASSUME NEW k \in DOMAIN bigblocks, bigblocks[k].pages * U = f * U PROVE FALSE
    OBVIOUS
  <2>1. bigblocks[k].pages \in Nat /\ bigblocks[k].pages \notin frames
    BY HeapFacts
  <2>2. bigblocks[k].pages = f
    BY <1>4, <2>1, PageApart
  <2> QED BY <2>1, <2>2
<1>13. Descs' = Descs /\ Small = SmallOf(held, bigblocks) /\ Small' = SmallOf(held', bigblocks')
       /\ Cells' = Cells
  <2>1. Descs = DescsOf(bigblocks, op) /\ Descs' = DescsOf(bigblocks', op')
        /\ Cells' = Cells
    BY <1>1, SmallIs
  <2>2. Descs = {bigblocks[k].at : k \in 1..M} \cup {op.bb}
        /\ Descs' = {bigblocks'[k].at : k \in 1..(M + 1)}
    BY <1>1, <1>2, <1>8, <1>9, <2>1 DEF DescsOf
  <2>3. ASSUME NEW a \in Descs PROVE a \in Descs'
    <3>1. CASE a = op.bb
      <4>1. 1 \in 1..(M + 1)
        BY <1>8
      <4> QED BY <1>6, <1>9, <2>2, <3>1, <4>1
    <3>2. CASE a # op.bb
      <4>1. PICK k \in 1..M : a = bigblocks[k].at
        BY <2>2, <3>2
      <4>2. k + 1 \in 2..(M + 1) /\ k + 1 - 1 = k /\ k + 1 \in 1..(M + 1)
        BY <1>8
      <4>3. bigblocks'[k + 1] = bigblocks[k]
        BY <1>9, <4>2
      <4> QED BY <2>2, <4>1, <4>2, <4>3
    <3> QED BY <3>1, <3>2
  <2>4. ASSUME NEW a \in Descs' PROVE a \in Descs
    <3>1. PICK k \in 1..(M + 1) : a = bigblocks'[k].at
      BY <2>2
    <3>2. CASE k = 1
      BY <1>6, <1>9, <2>2, <3>1, <3>2
    <3>3. CASE k # 1
      <4>1. k \in 2..(M + 1)
        BY <1>8, <3>3
      <4>2. bigblocks'[k] = bigblocks[k - 1] /\ k - 1 \in 1..M
        BY <1>8, <1>9, <1>10, <4>1
      <4> QED BY <2>2, <3>1, <4>2
    <3> QED BY <3>2, <3>3
  <2> QED BY <1>3, <1>9, <2>1, <2>3, <2>4, SmallIs
<1>14. /\ \A h, g \in held : h.ptr = g.ptr => h = g
       /\ held \subseteq [ptr : Nat, size : Sizes]
       /\ \A h \in Small : h.ptr - 1 \notin Descs /\ units[h.ptr - 1] = SLOB_UNITS(h.size + UNIT)
  BY DEF IInv, HeldOK
<1>15. \A h \in held : h.ptr # f * U
  <2> SUFFICES ASSUME NEW h \in held, h.ptr = f * U PROVE FALSE
    OBVIOUS
  <2>1. h \in Small
    BY <1>12, <1>13 DEF SmallOf
  <2> QED BY <1>11, <2>1, HeapFacts
<1>16. Small' = Small
  <2>1. ASSUME NEW h \in Small PROVE h \in Small'
    <3>1. h \in held /\ \A k \in DOMAIN bigblocks : bigblocks[k].pages * U # h.ptr
      BY <1>13 DEF SmallOf
    <3>2. ASSUME NEW k \in 1..(M + 1) PROVE bigblocks'[k].pages * U # h.ptr
      <4>1. CASE k = 1
        BY <1>6, <1>9, <1>15, <3>1, <4>1
      <4>2. CASE k # 1
        <5>1. k \in 2..(M + 1)
          BY <1>8, <4>2
        <5> QED BY <1>9, <1>10, <3>1, <5>1
      <4> QED BY <4>1, <4>2
    <3> QED BY <1>1, <1>9, <1>13, <3>1, <3>2 DEF SmallOf
  <2>2. ASSUME NEW h \in Small' PROVE h \in Small
    <3>1. h \in held' /\ \A k \in 1..(M + 1) : bigblocks'[k].pages * U # h.ptr
      BY <1>9, <1>13 DEF SmallOf
    <3>2. h # h0
      <4>1. 1 \in 1..(M + 1) /\ bigblocks'[1].pages = f
        BY <1>6, <1>8, <1>9
      <4> QED BY <1>7, <3>1, <4>1
    <3>3. ASSUME NEW k \in DOMAIN bigblocks PROVE bigblocks[k].pages * U # h.ptr
      <4>1. k + 1 \in 2..(M + 1) /\ k + 1 - 1 = k /\ k + 1 \in 1..(M + 1)
        BY <1>8
      <4>2. bigblocks'[k + 1] = bigblocks[k]
        BY <1>9, <4>1
      <4> QED BY <3>1, <4>1, <4>2
    <3> QED BY <1>1, <1>13, <3>1, <3>2, <3>3 DEF SmallOf
  <2> QED BY <2>1, <2>2
<1>17. InUse' = InUse
  BY <1>13, <1>16 DEF InUse
<1>18. Listed' = Listed /\ op.bb \notin Listed /\ op.bb \in InUse
  BY <1>1, <1>2, HeapFacts DEF Listed
<1>19. /\ units \in [Addrs -> Nat] /\ units' \in [Addrs -> Nat]
       /\ \A a \in Addrs : a # op.bb => units'[a] = units[a]
  <2>1. units \in [Addrs -> Nat]
    BY DEF IInv, ListOK, TypeOK
  <2> QED BY <1>1, <1>2, <2>1
<1>20. ListOK'
  <2>1. \A a \in Listed : units'[a] = units[a]
    BY <1>18, <1>19 DEF Listed
  <2>2. frames' \subseteq 1..NPages /\ heap' \subseteq 1..NPages
    BY <1>1, <1>3
  <2>3. TypeOK'
    BY <1>1, <1>19, <2>2 DEF IInv, ListOK, TypeOK
  <2>4. units'[arena] = 1
    BY <2>1 DEF IInv, ListOK, Chain
  <2> QED BY <1>1, <1>18, <2>1, <2>3, <2>4 DEF IInv, ListOK
<1>21. BlocksOK'
  <2>1. /\ Tiling(Cells', Lengths) /\ DOMAIN Lengths = Listed' \cup InUse' /\ Listed' \cap InUse' = {}
    BY <1>13, <1>17, <1>18, HeapFacts
  <2>2. ASSUME NEW a \in Listed' \cup InUse'
        PROVE  Lengths[a] = IF a \in Descs' THEN 2 ELSE units'[a]
    <3>1. CASE a \in Listed
      <4>1. a \notin Descs /\ a # op.bb /\ a \in Addrs
        BY <1>18, <3>1, HeapFacts DEF Listed
      <4> QED BY <1>13, <1>19, <3>1, <4>1, HeapFacts
    <3>2. CASE a \in InUse
      <4>1. Lengths[a] = (IF a \in Descs THEN 2 ELSE units[a]) /\ a \in Addrs
        BY <3>2, LengthIs
      <4>2. a \notin Descs => a # op.bb
        BY <1>2
      <4> QED BY <1>13, <1>19, <4>1, <4>2
    <3> QED BY <1>17, <1>18, <3>1, <3>2
  <2> QED BY <2>1, <2>2, BlocksFrom
<1>22. HeldOK'
  <2>1. \A h \in Small' : h.ptr - 1 \notin Descs' /\ units'[h.ptr - 1] = SLOB_UNITS(h.size + UNIT)
    <3> SUFFICES ASSUME NEW h \in Small
                 PROVE  h.ptr - 1 \notin Descs /\ units'[h.ptr - 1] = SLOB_UNITS(h.size + UNIT)
      BY <1>13, <1>16
    <3>1. h.ptr - 1 \notin Descs /\ h.ptr - 1 \in InUse
      BY HeapFacts
    <3>2. h.ptr - 1 \in Addrs /\ h.ptr - 1 # op.bb
      BY <1>2, <3>1, LengthIs
    <3> QED BY <1>14, <1>19, <3>1, <3>2
  <2>2. \A h, g \in held' : h.ptr = g.ptr => h = g
    BY <1>1, <1>7, <1>14, <1>15
  <2>3. held' \subseteq [ptr : Nat, size : Sizes]
    BY <1>1, <1>7, <1>14
  <2> QED BY <2>1, <2>2, <2>3 DEF HeldOK
<1>23. /\ \A i, j \in DOMAIN bigblocks : i # j =>
            /\ bigblocks[i].at # bigblocks[j].at
            /\ PagesFrom(bigblocks[i].pages, bigblocks[i].order)
                 \cap PagesFrom(bigblocks[j].pages, bigblocks[j].order) = {}
       /\ \A i \in DOMAIN bigblocks :
            /\ bigblocks[i].at # op.bb
            /\ PagesFrom(bigblocks[i].pages, bigblocks[i].order) \subseteq (1..NPages) \ (heap \cup frames)
            /\ \A h \in held : bigblocks[i].pages * U = h.ptr =>
                 h.size >= PAGE_SIZE - UNIT /\ bigblocks[i].order = find_order(h.size)
  BY <1>1 DEF IInv, BigOK
<1>24. BigOK'
  <2>1. ASSUME NEW i \in 1..(M + 1), NEW j \in 1..(M + 1), i # j
        PROVE  /\ bigblocks'[i].at # bigblocks'[j].at
               /\ PagesFrom(bigblocks'[i].pages, bigblocks'[i].order)
                    \cap PagesFrom(bigblocks'[j].pages, bigblocks'[j].order) = {}
    <3>1. CASE i = 1
      <4>1. j \in 2..(M + 1)
        BY <1>8, <2>1, <3>1
      <4>2. bigblocks'[j] = bigblocks[j - 1] /\ j - 1 \in DOMAIN bigblocks /\ bigblocks'[i] = r
        BY <1>9, <1>10, <3>1, <4>1
      <4> QED BY <1>1, <1>6, <1>23, <4>2
    <3>2. CASE j = 1
      <4>1. i \in 2..(M + 1)
        BY <1>8, <2>1, <3>2
      <4>2. bigblocks'[i] = bigblocks[i - 1] /\ i - 1 \in DOMAIN bigblocks /\ bigblocks'[j] = r
        BY <1>9, <1>10, <3>2, <4>1
      <4> QED BY <1>1, <1>6, <1>23, <4>2
    <3>3. CASE i # 1 /\ j # 1
      <4>1. i \in 2..(M + 1) /\ j \in 2..(M + 1) /\ i - 1 # j - 1
        BY <1>8, <2>1, <3>3
      <4>2. /\ bigblocks'[i] = bigblocks[i - 1] /\ i - 1 \in DOMAIN bigblocks
            /\ bigblocks'[j] = bigblocks[j - 1] /\ j - 1 \in DOMAIN bigblocks
        BY <1>9, <1>10, <4>1
      <4> QED BY <1>23, <4>1, <4>2
    <3> QED BY <3>1, <3>2, <3>3
  <2>2. ASSUME NEW i \in 1..(M + 1)
        PROVE  /\ PagesFrom(bigblocks'[i].pages, bigblocks'[i].order)
                    \subseteq (1..NPages) \ (heap' \cup frames')
               /\ \A h \in held' : bigblocks'[i].pages * U = h.ptr =>
                    h.size >= PAGE_SIZE - UNIT /\ bigblocks'[i].order = find_order(h.size)
    <3>1. CASE i = 1
      <4>1. bigblocks'[i] = r
        BY <1>9, <3>1
      <4>2. PagesFrom(f, o) \subseteq (1..NPages) \ (heap' \cup frames')
        BY <1>1, <1>3
      <4>3. o = find_order(op.req)
        BY DEF o
      <4> QED BY <1>1, <1>5, <1>6, <1>7, <1>15, <4>1, <4>2, <4>3
    <3>2. CASE i # 1
      <4>1. i \in 2..(M + 1)
        BY <1>8, <3>2
      <4>2. bigblocks'[i] = bigblocks[i - 1] /\ i - 1 \in DOMAIN bigblocks
        BY <1>9, <1>10, <4>1
      <4> QED BY <1>1, <1>7, <1>12, <1>23, <4>2
    <3> QED BY <3>1, <3>2
  <2>3. heap' \cap frames' = {}
    BY <1>1, <1>3
  <2> QED BY <1>2, <1>9, <2>1, <2>2, <2>3 DEF BigOK, Bigs
<1>25. CallOK'
  BY <1>1 DEF CallOK
<1>26. UsedSame
  <2>1. ASSUME NEW a \in InUse, a \notin Descs PROVE units'[a] = units[a]
    <3>1. a \in Addrs /\ a # op.bb
      BY <1>2, <2>1, LengthIs
    <3> QED BY <1>19, <3>1
  <2> QED BY <1>13, <1>17, <2>1 DEF UsedSame, Kept
<1> QED BY <1>20, <1>21, <1>22, <1>24, <1>25, <1>26 DEF IInv

\* A block in use goes back to the list.
LEMMA UsedFreed ==
  ASSUME IInv, NEW b \in InUse, SlobFree(b, Lengths[b]), heap' = heap, frames' \in SUBSET (1..NPages)
  PROVE  /\ ListOK' /\ Listed' \cap (InUse \ {b}) = {}
         /\ \A a \in InUse \ {b} : units'[a] = units[a]
         /\ Tiling(Cells', Rest(Lengths, InUse \ {b}))
<1> DEFINE W == InUse \ {b}
           n == Lengths[b]
<1>1. /\ Tiling(Cells, Lengths) /\ DOMAIN Lengths = Listed \cup InUse
      /\ Listed \cap InUse = {} /\ \A a \in Listed : Lengths[a] = units[a]
      /\ 1 \notin Cells /\ heap \in SUBSET (1..NPages)
  BY HeapFacts
<1>2. /\ DOMAIN Lengths = Listed \cup W \cup {b} /\ b \notin W /\ W \cap Listed = {}
      /\ b \in Addrs \ Listed
  BY <1>1, LengthIs
<1>3. ListOK /\ SlobFree(b, n) /\ Lengths[b] = n
  BY DEF IInv
<1> HIDE DEF n, W
<1>4. /\ ListStep /\ Listed' \cap W = {}
      /\ \A a \in W : units'[a] = units[a]
      /\ Tiling(Cells, Rest(Lengths, W))
  BY <1>1, <1>2, <1>3, FreeStep
<1>5. Cells' = Cells
  BY DEF Cells
<1>6. ListOK'
  BY <1>1, <1>4, ListFrom
<1> QED BY <1>4, <1>5, <1>6 DEF W

LEMMA UsedBlocks ==
  ASSUME IInv, NEW b \in InUse, SlobFree(b, Lengths[b]), heap' = heap, frames' \in SUBSET (1..NPages),
         InUse' = InUse \ {b}, \A a \in InUse \ {b} : a \in Descs' <=> a \in Descs
  PROVE  ListOK' /\ BlocksOK' /\ \A a \in InUse' : units'[a] = units[a]
<1>1. /\ ListOK' /\ Listed' \cap (InUse \ {b}) = {}
      /\ \A a \in InUse \ {b} : units'[a] = units[a]
      /\ Tiling(Cells', Rest(Lengths, InUse \ {b}))
  BY UsedFreed
<1>2. \A a \in InUse \ {b} : Lengths[a] = IF a \in Descs' THEN 2 ELSE units'[a]
  BY <1>1, LengthIs
<1>3. BlocksOK'
  BY <1>1, <1>2, FreedBlocks
<1> QED BY <1>1, <1>3

LEMMA BigFailsStep ==
  ASSUME IInv, BigFails
  PROVE  IInv' /\ UsedLess(op.bb)
<1> DEFINE b == op.bb
<1>1. /\ op.at = "pages" /\ SlobFree(b, SLOB_UNITS(BIGBLOCK)) /\ op' = Idle
      /\ bigblocks' = bigblocks /\ frames' = frames /\ heap' = heap /\ held' = held
      /\ op'.at = "idle"
  BY DEF BigFails, Idle
<1>2. bigblocks \in Seq(Bigs) /\ frames \in SUBSET (1..NPages)
  BY HeapFacts
<1>3. Descs = {bigblocks[i].at : i \in DOMAIN bigblocks} \cup {b}
      /\ Descs' = {bigblocks[i].at : i \in DOMAIN bigblocks} /\ Small' = Small
  BY <1>1, <1>2, SmallIs DEF DescsOf
<1>4. \A i \in DOMAIN bigblocks : bigblocks[i].at # b
  BY <1>1 DEF IInv, BigOK
<1>5. b \in Descs /\ b \in InUse /\ Descs' = Descs \ {b}
  BY <1>3, <1>4, HeapFacts
<1>6. InUse' = InUse \ {b}
  <2>1. \A h \in Small : h.ptr - 1 # b
    BY <1>5, HeapFacts
  <2> QED BY <1>3, <1>5, <2>1 DEF InUse
<1>7. SlobFree(b, Lengths[b])
  BY <1>1, <1>5, UnitsIs, HeapFacts
<1> HIDE DEF b
<1>8. ListOK' /\ BlocksOK' /\ \A a \in InUse' : units'[a] = units[a]
  BY <1>1, <1>2, <1>5, <1>6, <1>7, UsedBlocks
<1>9. HeldOK'
  BY <1>1, <1>3, <1>5, <1>8, FreedHeld
<1>10. BigOK'
  BY <1>1 DEF IInv, BigOK
<1>11. CallOK'
  BY <1>1 DEF CallOK
<1>12. UsedLess(b)
  BY <1>5, <1>6, <1>8 DEF UsedLess, Kept
<1> QED BY <1>8, <1>9, <1>10, <1>11, <1>12 DEF IInv, b

LEMMA KfreeSmall ==
  ASSUME IInv, NEW h \in held, Kfree(h), BigIndex(h.ptr) = {}
  PROVE  IInv' /\ UsedLess(h.ptr - 1) /\ frames' = frames /\ heap' = heap
<1> DEFINE b == h.ptr - 1
<1>1. /\ op = Idle /\ op' = op /\ held' = held \ {h} /\ SlobFree(b, units[b])
      /\ bigblocks' = bigblocks /\ frames' = frames /\ heap' = heap
  BY DEF Kfree
<1>2. bigblocks \in Seq(Bigs) /\ frames \in SUBSET (1..NPages) /\ h \in Small
  BY HeapFacts DEF Small
<1>3. Descs' = Descs /\ Small' = Small \ {h}
  <2>1. Small = SmallOf(held, bigblocks) /\ Small' = SmallOf(held', bigblocks) /\ Descs' = Descs
    BY <1>1, <1>2, SmallIs
  <2> QED BY <1>1, <2>1 DEF SmallOf
<1>4. b \in InUse /\ b \notin Descs /\ Lengths[b] = units[b] /\ h.ptr \in Nat
  BY <1>2, HeapFacts
<1>5. \A g \in Small \ {h} : g.ptr - 1 # b
  <2> SUFFICES ASSUME NEW g \in Small, g.ptr - 1 = b PROVE g = h
    OBVIOUS
  <2>1. g.ptr \in Nat /\ g \in held
    BY HeapFacts
  <2>2. g.ptr = h.ptr
    BY <1>4, <2>1
  <2> QED BY <2>1, <2>2 DEF IInv, HeldOK
<1>6. InUse' = InUse \ {b}
  BY <1>3, <1>4, <1>5 DEF InUse
<1> HIDE DEF b
<1>7. ListOK' /\ BlocksOK' /\ \A a \in InUse' : units'[a] = units[a]
  BY <1>1, <1>2, <1>3, <1>4, <1>6, UsedBlocks
<1>8. HeldOK'
  BY <1>1, <1>3, <1>7, FreedHeld
<1>9. BigOK'
  BY <1>1 DEF IInv, BigOK
<1>10. CallOK'
  BY <1>1 DEF CallOK
<1>11. UsedLess(b)
  BY <1>3, <1>4, <1>6, <1>7 DEF UsedLess, Kept
<1> QED BY <1>1, <1>7, <1>8, <1>9, <1>10, <1>11 DEF IInv, b

\* What is left of a sequence without its i-th element.
LEMMA DropImage ==
  ASSUME NEW S, NEW q \in Seq(S), NEW i \in DOMAIN q
  PROVE  LET m(j) == IF j < i THEN j ELSE j + 1
             r == RemoveAt(q, i) IN
         /\ r \in Seq(S)
         /\ \A j \in DOMAIN r : m(j) \in DOMAIN q /\ m(j) # i /\ r[j] = q[m(j)]
         /\ \A j, k \in DOMAIN r : j # k => m(j) # m(k)
         /\ \A k \in DOMAIN q : k # i => \E j \in DOMAIN r : r[j] = q[k]
<1> DEFINE m(j) == IF j < i THEN j ELSE j + 1
           r == RemoveAt(q, i)
<1>1. i \in 1..Len(q) /\ Len(q) \in Nat /\ DOMAIN q = 1..Len(q)
  OBVIOUS
<1>2. /\ r \in Seq(S) /\ Len(r) = Len(q) - 1
      /\ \A j \in 1..(Len(q) - 1) : r[j] = IF j < i THEN q[j] ELSE q[j + 1]
  BY <1>1, DropFacts DEF RemoveAt
<1> HIDE DEF r
<1>3. DOMAIN r = 1..(Len(q) - 1)
  BY <1>2
<1>4. \A j \in DOMAIN r : m(j) \in DOMAIN q /\ m(j) # i /\ r[j] = q[m(j)]
  BY <1>1, <1>2, <1>3
<1>5. \A j, k \in DOMAIN r : j # k => m(j) # m(k)
  BY <1>1, <1>3
<1>6. ASSUME NEW k \in DOMAIN q, k # i PROVE \E j \in DOMAIN r : r[j] = q[k]
  <2>1. CASE k < i
    BY <1>1, <1>2, <1>3, <2>1
  <2>2. CASE k > i
    <3>1. k - 1 \in DOMAIN r /\ ~(k - 1 < i) /\ k - 1 + 1 = k
      BY <1>1, <1>3, <2>2
    <3> QED BY <1>2, <1>3, <3>1
  <2> QED BY <1>1, <1>6, <2>1, <2>2
<1> QED BY <1>2, <1>4, <1>5, <1>6 DEF r

\* The pages F come back, from none of the heap's and none of the free ones.
PagesBack(F) == /\ F \subseteq (1..NPages) \ (heap \cup frames)
                /\ frames' = frames \cup F /\ heap' = heap

LEMMA KfreeBig ==
  ASSUME IInv, NEW h \in held, Kfree(h), BigIndex(h.ptr) # {}
  PROVE  IInv' /\ \E b, F : UsedLess(b) /\ PagesBack(F)
<1> DEFINE i == CHOOSE i \in BigIndex(h.ptr) : \A j \in BigIndex(h.ptr) : i <= j
           bb == bigblocks[i]
           b == bb.at
<1>1. /\ op = Idle /\ op' = op /\ held' = held \ {h}
      /\ bigblocks' = RemoveAt(bigblocks, i)
      /\ frames' = frames \cup PagesFrom(bb.pages, bb.order)
      /\ SlobFree(b, SLOB_UNITS(BIGBLOCK)) /\ heap' = heap
  BY DEF Kfree
<1>2. /\ frames \in SUBSET (1..NPages) /\ heap \in SUBSET (1..NPages) /\ heap \cap frames = {}
      /\ bigblocks \in Seq(Bigs)
  BY HeapFacts DEF IInv, BigOK
<1>3. i \in DOMAIN bigblocks /\ bb.pages * U = h.ptr
  <2>1. BigIndex(h.ptr) = {j \in DOMAIN bigblocks : bigblocks[j].pages * U = h.ptr}
    BY <1>2, SmallIs
  <2>2. BigIndex(h.ptr) \in SUBSET Nat
    BY <1>2, <2>1
  <2>3. \E j \in BigIndex(h.ptr) : \A k \in BigIndex(h.ptr) : j <= k
    BY <2>2, LeastNat
  <2>4. i \in BigIndex(h.ptr)
    BY <2>3
  <2> HIDE DEF i
  <2> QED BY <2>1, <2>4
<1> HIDE DEF i
<1>4. b \in Descs /\ b \in Addrs /\ b \in InUse /\ bb.order \in Nat
  BY <1>3, HeapFacts
<1> DEFINE m(j) == IF j < i THEN j ELSE j + 1
           r == bigblocks'
<1>5. /\ r \in Seq(Bigs)
      /\ \A j \in DOMAIN r : m(j) \in DOMAIN bigblocks /\ m(j) # i /\ r[j] = bigblocks[m(j)]
      /\ \A j, k \in DOMAIN r : j # k => m(j) # m(k)
      /\ \A k \in DOMAIN bigblocks : k # i => \E j \in DOMAIN r : r[j] = bigblocks[k]
  <2> DEFINE R == RemoveAt(bigblocks, i)
  <2>1. /\ R \in Seq(Bigs)
        /\ \A j \in DOMAIN R : m(j) \in DOMAIN bigblocks /\ m(j) # i /\ R[j] = bigblocks[m(j)]
        /\ \A j, k \in DOMAIN R : j # k => m(j) # m(k)
        /\ \A k \in DOMAIN bigblocks : k # i => \E j \in DOMAIN R : R[j] = bigblocks[k]
    BY <1>2, <1>3, DropImage
  <2>2. r = R
    BY <1>1
  <2> HIDE DEF R, m
  <2> QED BY <2>1, <2>2
<1> HIDE DEF m
<1>6. /\ \A j, k \in DOMAIN bigblocks : j # k =>
            /\ bigblocks[j].at # bigblocks[k].at
            /\ PagesFrom(bigblocks[j].pages, bigblocks[j].order)
                 \cap PagesFrom(bigblocks[k].pages, bigblocks[k].order) = {}
      /\ \A k \in DOMAIN bigblocks :
            /\ PagesFrom(bigblocks[k].pages, bigblocks[k].order) \subseteq (1..NPages) \ (heap \cup frames)
            /\ \A g \in held : bigblocks[k].pages * U = g.ptr =>
                 g.size >= PAGE_SIZE - UNIT /\ bigblocks[k].order = find_order(g.size)
  BY DEF IInv, BigOK
<1>7. op.at = "idle" /\ op'.at = "idle"
  BY <1>1 DEF Idle
<1>8. /\ Descs = {bigblocks[k].at : k \in DOMAIN bigblocks}
      /\ Descs' = {r[k].at : k \in DOMAIN r}
      /\ Small = SmallOf(held, bigblocks) /\ Small' = SmallOf(held', r)
  BY <1>2, <1>5, <1>7, SmallIs DEF DescsOf
<1>9. Descs' = Descs \ {b}
  <2>1. ASSUME NEW a \in Descs' PROVE a \in Descs \ {b}
    <3>1. PICK k \in DOMAIN r : a = r[k].at
      BY <1>8
    <3> QED BY <1>3, <1>5, <1>6, <1>8, <3>1
  <2>2. ASSUME NEW a \in Descs, a # b PROVE a \in Descs'
    <3>1. PICK k \in DOMAIN bigblocks : a = bigblocks[k].at
      BY <1>8
    <3>2. k # i
      BY <2>2, <3>1
    <3> QED BY <1>5, <1>8, <3>1, <3>2
  <2> QED BY <2>1, <2>2
<1>10. Small' = Small
  <2>1. h \notin Small
    BY <1>3, <1>8 DEF SmallOf
  <2>2. ASSUME NEW g \in Small PROVE g \in Small'
    <3>1. g \in held /\ g # h /\ \A k \in DOMAIN bigblocks : bigblocks[k].pages * U # g.ptr
      BY <1>8, <2>1 DEF SmallOf
    <3>2. \A k \in DOMAIN r : r[k].pages * U # g.ptr
      BY <1>5, <3>1
    <3> QED BY <1>1, <1>8, <3>1, <3>2 DEF SmallOf
  <2>3. ASSUME NEW g \in Small' PROVE g \in Small
    <3>1. g \in held /\ g # h /\ \A k \in DOMAIN r : r[k].pages * U # g.ptr
      BY <1>1, <1>8 DEF SmallOf
    <3>2. g.ptr # h.ptr
      BY <3>1 DEF IInv, HeldOK
    <3>3. ASSUME NEW k \in DOMAIN bigblocks PROVE bigblocks[k].pages * U # g.ptr
      <4>1. CASE k = i
        BY <1>3, <3>2, <4>1
      <4>2. CASE k # i
        BY <1>5, <3>1, <4>2
      <4> QED BY <4>1, <4>2
    <3> QED BY <1>8, <3>1, <3>3 DEF SmallOf
  <2> QED BY <2>2, <2>3
<1>11. InUse' = InUse \ {b}
  <2>1. \A g \in Small : g.ptr - 1 # b
    BY <1>4, HeapFacts
  <2> QED BY <1>9, <1>10, <2>1 DEF InUse
<1>12. SlobFree(b, Lengths[b])
  BY <1>1, <1>4, UnitsIs, HeapFacts
<1>13. frames' \in SUBSET (1..NPages) /\ heap' \cap frames' = {}
  BY <1>1, <1>2, <1>3, <1>6
<1>14. ListOK' /\ BlocksOK' /\ \A a \in InUse' : units'[a] = units[a]
  <2> HIDE DEF b
  <2>1. \A a \in InUse \ {b} : a \in Descs' <=> a \in Descs
    BY <1>9
  <2> QED BY <1>1, <1>4, <1>11, <1>12, <1>13, <2>1, UsedBlocks
<1>15. HeldOK'
  BY <1>1, <1>9, <1>10, <1>14, FreedHeld
<1>16. BigOK'
  <2>1. ASSUME NEW j \in DOMAIN r, NEW k \in DOMAIN r, j # k
        PROVE  /\ r[j].at # r[k].at
               /\ PagesFrom(r[j].pages, r[j].order) \cap PagesFrom(r[k].pages, r[k].order) = {}
    <3>1. /\ m(j) \in DOMAIN bigblocks /\ m(k) \in DOMAIN bigblocks /\ m(j) # m(k)
          /\ r[j] = bigblocks[m(j)] /\ r[k] = bigblocks[m(k)]
      BY <1>5, <2>1
    <3> QED BY <1>6, <3>1
  <2>2. ASSUME NEW k \in DOMAIN r
        PROVE  /\ PagesFrom(r[k].pages, r[k].order) \subseteq (1..NPages) \ (heap' \cup frames')
               /\ \A g \in held' : r[k].pages * U = g.ptr =>
                    g.size >= PAGE_SIZE - UNIT /\ r[k].order = find_order(g.size)
    <3>1. m(k) \in DOMAIN bigblocks /\ m(k) # i /\ r[k] = bigblocks[m(k)]
      BY <1>5
    <3>2. PagesFrom(r[k].pages, r[k].order) \cap PagesFrom(bb.pages, bb.order) = {}
      BY <1>3, <1>6, <3>1
    <3>3. /\ PagesFrom(r[k].pages, r[k].order) \subseteq (1..NPages) \ (heap \cup frames)
          /\ \A g \in held : r[k].pages * U = g.ptr =>
               g.size >= PAGE_SIZE - UNIT /\ r[k].order = find_order(g.size)
      BY <1>6, <3>1
    <3> QED BY <1>1, <3>2, <3>3
  <2> QED BY <1>5, <1>7, <1>13, <2>1, <2>2 DEF BigOK, Bigs
<1>17. CallOK'
  BY <1>1 DEF CallOK
<1>18. UsedLess(b)
  <2> HIDE DEF b
  <2> QED BY <1>4, <1>9, <1>11, <1>14 DEF UsedLess, Kept
<1>19. PagesBack(PagesFrom(bb.pages, bb.order))
  BY <1>1, <1>3, <1>6 DEF PagesBack
<1> QED BY <1>14, <1>15, <1>16, <1>17, <1>18, <1>19 DEF IInv

LEMMA InitOK ==
  ASSUME Init
  PROVE  IInv
<1>1. /\ units = [a \in Addrs |-> IF a = arena THEN 1 ELSE 0]
      /\ next = [a \in Addrs |-> IF a = arena THEN arena ELSE NULL]
      /\ slobfree = arena /\ bigblocks = <<>> /\ frames \in FreePages
      /\ heap = {} /\ held = {} /\ op = Idle /\ op.at = "idle"
  BY DEF Init, Idle
<1>2. arena = 0 /\ arena \in Addrs /\ NULL \notin Addrs /\ Addrs \subseteq Nat
  BY AddrFacts
<1>3. Listed = {arena} /\ units[arena] = 1 /\ next[arena] = arena
  BY <1>1, <1>2 DEF Listed
<1>4. bigblocks \in Seq(Bigs) /\ DOMAIN bigblocks = {}
  BY <1>1
<1>5. Descs = {} /\ Small = {} /\ InUse = {} /\ Cells = {arena}
  <2>1. Descs = {}
    BY <1>1, <1>4 DEF Descs
  <2>2. Small = {}
    BY <1>1 DEF Small
  <2>3. Cells = {arena}
    BY <1>1 DEF Cells
  <2> QED BY <2>1, <2>2, <2>3 DEF InUse
<1>6. Chain(Listed, next)
  BY <1>2, <1>3 DEF Chain
<1>7. ListOK
  <2>1. TypeOK
    BY <1>1, <1>2, SlobAssumption DEF TypeOK
  <2> QED BY <1>1, <1>2, <1>3, <1>6, <2>1 DEF ListOK
<1>8. BlocksOK
  <2>1. DOMAIN Lengths = {arena} /\ Lengths[arena] = 1
    BY <1>3, <1>5 DEF Lengths, Length
  <2>2. Run(arena, 1) = {arena}
    BY <1>2 DEF Run
  <2>3. Tiling(Cells, Lengths)
    BY <1>2, <1>5, <2>1, <2>2 DEF Tiling
  <2> QED BY <1>5, <2>3 DEF BlocksOK
<1>9. HeldOK
  BY <1>1, <1>5 DEF HeldOK
<1>10. BigOK
  BY <1>1, <1>4 DEF BigOK, Bigs
<1>11. CallOK
  BY <1>1 DEF CallOK
<1> QED BY <1>7, <1>8, <1>9, <1>10, <1>11 DEF IInv

LEMMA NextOK ==
  ASSUME IInv, [Next]_vars
  PROVE  IInv'
<1>1. ASSUME NEW size \in Sizes, Kmalloc(size) PROVE IInv'
  BY <1>1, KmallocStep
<1>2. ASSUME NEW k, SlobFound(k) PROVE IInv'
  BY <1>2, SlobFoundStep
<1>3. ASSUME NEW f \in frames, SlobGrow(f) PROVE IInv'
  BY <1>3, SlobGrowStep
<1>4. ASSUME NEW f \in frames, BigPages(f) PROVE IInv'
  BY <1>4, BigPagesStep
<1>5. ASSUME NEW h \in held, Kfree(h) PROVE IInv'
  BY <1>5, KfreeSmall, KfreeBig
<1> QED BY <1>1, <1>2, <1>3, <1>4, <1>5, SlobFailsStep, BigFailsStep, StutterStep DEF Next

\* The invariant that the results below rest on, over calls, failures and
\* growth of the heap in any order.
THEOREM SlobInvariant == Spec => []IInv
<1>1. Init => IInv
  BY InitOK
<1>2. IInv /\ [Next]_vars => IInv'
  BY NextOK
<1> QED BY <1>1, <1>2, PTL DEF Spec

LEMMA UsedIs ==
  ASSUME IInv
  PROVE  /\ DOMAIN Used = InUse
         /\ \A a \in InUse : Used[a] = Lengths[a]
<1>1. \A a \in InUse : a \in Listed \cup InUse
  OBVIOUS
<1> QED BY <1>1, UnitsIs DEF Used, InUse, Lengths, Length

LEMMA HeapImplied ==
  ASSUME SizesFit, IInv
  PROVE  HeapOK
<1>1. TypeOK /\ Chain(Listed, next) /\ slobfree \in Listed
      /\ \A a \in Listed : a + units[a] \notin Listed
  BY DEF IInv, ListOK
<1>2. {Walk[k] : k \in 0..Round} = Listed /\ Cardinality(Listed) = Round
  BY <1>1, RoundIs
<1>3. Cardinality({a \in Listed : next[a] <= a}) = 1
  <2>1. Listed \in SUBSET Addrs /\ Listed \subseteq Nat /\ Listed # {}
    BY <1>1, AddrFacts DEF Listed
  <2>2. PICK m \in Listed : \A a \in Listed : a <= m
    BY <2>1, Greatest
  <2>3. next[m] <= m
    BY <1>1, <2>2 DEF Chain
  <2>4. ASSUME NEW a \in Listed, a # m PROVE ~(next[a] <= a)
    <3>1. a < m
      BY <2>1, <2>2, <2>4
    <3>2. a < next[a] /\ next[a] \in Nat
      BY <1>1, <2>1, <3>1 DEF Chain
    <3> QED BY <2>1, <3>2
  <2>5. {a \in Listed : next[a] <= a} = {m}
    BY <2>2, <2>3, <2>4
  <2> QED BY <2>5, FS_Singleton
<1>4. /\ Tiling(Cells, Lengths) /\ DOMAIN Lengths = Listed \cup InUse /\ Listed \cap InUse = {}
      /\ \A a \in Listed : Lengths[a] = units[a]
      /\ DOMAIN Used = InUse /\ \A a \in InUse : Used[a] = Lengths[a]
  BY HeapFacts, UsedIs
<1>5. \A a \in Listed : units[a] > 0 /\ a + units[a] \notin Listed
  <2>1. \A a \in Listed : Lengths[a] > 0
    BY <1>4, TilingNumbers
  <2> QED BY <1>1, <1>4, <2>1
<1>6. Cells = (UNION {Run(a, units[a]) : a \in Listed})
              \cup (UNION {Run(a, Used[a]) : a \in DOMAIN Used})
  <2>1. ASSUME NEW x \in Cells
        PROVE  \/ \E a \in Listed : x \in Run(a, units[a])
               \/ \E a \in DOMAIN Used : x \in Run(a, Used[a])
    <3>1. PICK a \in Listed \cup InUse : x \in Run(a, Lengths[a])
      BY <1>4 DEF Tiling
    <3> QED BY <1>4, <3>1
  <2>2. \A a \in Listed : Run(a, units[a]) \subseteq Cells
    BY <1>4 DEF Tiling
  <2>3. \A a \in DOMAIN Used : Run(a, Used[a]) \subseteq Cells
    BY <1>4 DEF Tiling
  <2> QED BY <2>1, <2>2, <2>3
<1>7. \A a, b \in Listed \cup DOMAIN Used : a < b =>
        a + (IF a \in Listed THEN units[a] ELSE Used[a]) <= b
  <2> SUFFICES ASSUME NEW a \in Listed \cup InUse, NEW b \in Listed \cup InUse, a < b
               PROVE  a + (IF a \in Listed THEN units[a] ELSE Used[a]) <= b
    BY <1>4
  <2>1. a + Lengths[a] <= b
    BY <1>4 DEF Tiling
  <2>2. Lengths[a] = IF a \in Listed THEN units[a] ELSE Used[a]
    BY <1>4
  <2> QED BY <2>1, <2>2
<1>8. \A h \in Small : units[h.ptr - 1] = SLOB_UNITS(h.size + UNIT)
  BY HeapFacts
<1>9. ASSUME NEW h \in held PROVE ksize(h) >= h.size
  <2>1. h.size \in Nat /\ h.size \in Sizes
    BY SlobAssumption DEF IInv, HeldOK
  <2>2. CASE BigIndex(h.ptr) = {}
    <3>1. h \in Small
      BY <2>2 DEF Small
    <3>2. units[h.ptr - 1] = SLOB_UNITS(h.size + UNIT)
      BY <1>8, <3>1
    <3>3. PICK x \in Nat : x = SLOB_UNITS(h.size + UNIT) /\ 2 * x >= h.size + 2
      <4>1. h.size + UNIT \in Nat /\ UNIT = 2
        BY <2>1, UnitsIs
      <4> QED BY <4>1, UnitsIs
    <3>4. ksize(h) = x * 2
      BY <2>2, <3>2, <3>3, UnitsIs DEF ksize
    <3> QED BY <2>1, <3>3, <3>4
  <2>3. CASE BigIndex(h.ptr) # {}
    <3> DEFINE i == CHOOSE i \in BigIndex(h.ptr) : TRUE
    <3>1. i \in BigIndex(h.ptr)
      BY <2>3
    <3>2. ksize(h) = PAGE_SIZE * Pow2[bigblocks[i].order]
      BY <2>3 DEF ksize
    <3> HIDE DEF i
    <3>3. i \in DOMAIN bigblocks /\ bigblocks[i].pages * U = h.ptr
      BY <3>1, HeapFacts, SmallIs
    <3>4. h.size >= PAGE_SIZE - UNIT /\ bigblocks[i].order = find_order(h.size)
      BY <3>3 DEF IInv, BigOK
    <3> QED BY <2>1, <3>2, <3>4 DEF SizesFit
  <2> QED BY <2>2, <2>3
<1>10. op.at = "slob" => op.grown <= 1
  <2> SUFFICES ASSUME op.at = "slob" PROVE op.grown <= 1
    OBVIOUS
  <2>1. op.grown \in {0, 1}
    BY CallIs DEF CallFacts
  <2> QED BY <2>1
<1> QED BY <1>1, <1>2, <1>3, <1>4, <1>5, <1>6, <1>7, <1>8, <1>9, <1>10 DEF HeapOK

\* The heap: kmalloc and kfree keep the list of free blocks one ascending cycle
\* without two neighbours that touch, lose no unit and give none away twice, for
\* any page size, any number of pages and any sizes find_order has the pages for.
THEOREM HeapCorrect ==
  ASSUME SizesFit
  PROVE  Spec => []HeapOK
<1>1. IInv => HeapOK
  BY HeapImplied
<1> QED BY <1>1, SlobInvariant, PTL

----------------------------------------------------------------------------
(***************************************************************************)
(* Every step does what a heap promises: HeapSpec.                         *)
(***************************************************************************)
want == IF op.at = "slob" THEN SLOB_UNITS(op.size) ELSE 0
Cut(b) == [a \in DOMAIN Used \ {b} |-> Used[a]]
Longer(c, n) == [a \in DOMAIN Used \cup {c} |-> IF a = c THEN n ELSE Used[a]]

LEMMA UsedEffects ==
  /\ UsedSame => Used' = Used
  /\ \A b : UsedLess(b) => b \in DOMAIN Used /\ Used' = Cut(b)
  /\ \A c, n : UsedMore(c, n) => Used' = Longer(c, n)
<1>1. Used = [a \in InUse |-> IF a \in Descs THEN 2 ELSE units[a]]
  BY UnitsIs DEF Used, InUse
<1>2. Used' = [a \in InUse' |-> IF a \in Descs' THEN 2 ELSE units'[a]]
  BY UnitsIs DEF Used, InUse
<1>3. DOMAIN Used = InUse
  BY <1>1
<1>4. UsedSame => Used' = Used
  BY <1>1, <1>2 DEF UsedSame, Kept
<1>5. ASSUME NEW b, UsedLess(b) PROVE b \in DOMAIN Used /\ Used' = Cut(b)
  <2>1. InUse' = InUse \ {b} /\ b \in InUse /\ Kept(InUse \ {b})
    BY <1>5 DEF UsedLess
  <2>2. \A a \in InUse \ {b} : (IF a \in Descs' THEN 2 ELSE units'[a]) = Used[a]
    BY <1>1, <2>1 DEF Kept
  <2> QED BY <1>2, <1>3, <2>1, <2>2 DEF Cut
<1>6. ASSUME NEW c, NEW n, UsedMore(c, n) PROVE Used' = Longer(c, n)
  <2>1. InUse' = InUse \cup {c} /\ c \notin InUse /\ Kept(InUse) /\ units'[c] = n /\ (c \in Descs' => n = 2)
    BY <1>6 DEF UsedMore
  <2>2. \A a \in InUse \cup {c} :
          (IF a \in Descs' THEN 2 ELSE units'[a]) = IF a = c THEN n ELSE Used[a]
    BY <1>1, <2>1 DEF Kept
  <2> QED BY <1>2, <1>3, <2>1, <2>2 DEF Longer
<1> QED BY <1>4, <1>5, <1>6

\* What the blocks in use leave of the pages is in free blocks.
LEMMA FreeCells ==
  ASSUME IInv, NEW x \in Cells, \A a \in DOMAIN Used : x \notin Run(a, Used[a])
  PROVE  \E y \in Listed : x \in Run(y, units[y]) /\ y \in Nat /\ units[y] \in Nat
<1>1. /\ Tiling(Cells, Lengths) /\ DOMAIN Lengths = Listed \cup InUse
      /\ \A a \in Listed : Lengths[a] = units[a]
      /\ DOMAIN Used = InUse /\ \A a \in InUse : Used[a] = Lengths[a]
  BY HeapFacts, UsedIs
<1>2. PICK y \in Listed \cup InUse : x \in Run(y, Lengths[y])
  BY <1>1 DEF Tiling
<1>3. y \in Nat /\ Lengths[y] \in Nat
  BY <1>1, <1>2, TilingNumbers
<1> QED BY <1>1, <1>2, <1>3

\* The heap grows only when no free cells that lie together would do.
LEMMA NoRoom ==
  ASSUME IInv, NEW n \in Nat, n > 0, ~Fits(n)
  PROVE  ~Heap!Room(n)
<1>1. SUFFICES ASSUME NEW a \in Cells \ {arena}, Run(a, n) \subseteq Heap!Free PROVE FALSE
  BY DEF Heap!Room, Heap!Run, Run
<1>2. Cells \subseteq Nat
  BY HeapFacts, TilingNumbers
<1>3. \A x \in Run(a, n) : x \in Cells /\ \A u \in DOMAIN Used : x \notin Run(u, Used[u])
  BY <1>1 DEF Heap!Free, Heap!Run, Run
<1>4. a \in Nat /\ a \in Run(a, n)
  BY <1>1, <1>2 DEF Run
<1>5. PICK x \in Listed : a \in Run(x, units[x]) /\ x \in Nat /\ units[x] \in Nat
  BY <1>3, <1>4, FreeCells
<1>6. units[x] < n
  <2>1. ~(units[x] >= n)
    BY FitsIs
  <2> QED BY <1>5, <2>1
<1> DEFINE e == x + units[x]
<1>7. x <= a /\ a < e /\ e \in Run(a, n) /\ e \in Nat
  BY <1>4, <1>5, <1>6 DEF Run
<1>8. PICK y \in Listed : e \in Run(y, units[y]) /\ y \in Nat /\ units[y] \in Nat
  BY <1>3, <1>7, FreeCells
<1>9. y <= e /\ e < y + units[y]
  BY <1>7, <1>8 DEF Run
<1>10. /\ Tiling(Cells, Lengths) /\ x \in DOMAIN Lengths /\ y \in DOMAIN Lengths
       /\ Lengths[x] = units[x] /\ Lengths[y] = units[y]
  BY HeapFacts
<1>11. (x < y => x + units[x] <= y) /\ (y < x => y + units[y] <= x)
  BY <1>10 DEF Tiling
<1>12. y = e
  <2>1. x # y
    BY <1>5, <1>7, <1>9
  <2>2. ~(y < x)
    BY <1>5, <1>7, <1>8, <1>9, <1>11
  <2> QED BY <1>5, <1>7, <1>8, <1>9, <1>11, <2>1, <2>2
<1> QED BY <1>12, <1>8 DEF IInv, ListOK

\* The steps, each as a step of HeapSpec.
LEMMA RequestStep ==
  ASSUME IInv, NEW size \in Sizes, Kmalloc(size)
  PROVE  [Heap!SNext]_(Heap!svars)
<1>1. IInv' /\ UsedSame
  BY KmallocStep
<1>2. /\ op = Idle /\ op.at = "idle" /\ op'.at = "slob" /\ heap' = heap /\ frames' = frames
      /\ op'.size + UNIT < PAGE_SIZE
  BY DEF Kmalloc, Idle
<1>3. SLOB_UNITS(op'.size) \in 1..U
  <2>1. /\ op' \in [at : {"slob", "pages"}, req : Sizes, size : Nat, big : BOOLEAN,
                    bb : Addrs \cup {NULL}, grown : {0, 1}]
        /\ op'.size = IF op'.big THEN BIGBLOCK ELSE op'.req + UNIT
    BY <1>1, <1>2 DEF IInv, CallOK, Idle
  <2>2. op'.size \in Nat /\ op'.size >= 3
    <3>1. op'.req \in Nat /\ op'.req # 0 /\ op'.size \in Nat /\ UNIT = 2
      BY <2>1, SlobAssumption, UnitsIs
    <3> QED BY <2>1, <3>1 DEF BIGBLOCK
  <2>3. SLOB_UNITS(op'.size) \in Nat /\ SLOB_UNITS(op'.size) >= 2 /\ SLOB_UNITS(op'.size) <= U
    BY <1>2, <2>2, UnitsIs
  <2> QED BY <2>3, UnitsIs
<1>4. Used' = Used /\ Cells' = Cells
  BY <1>1, <1>2, UsedEffects DEF Cells
<1>5. Heap!Request(SLOB_UNITS(op'.size))
  BY <1>2, <1>4 DEF Heap!Request
<1> QED BY <1>3, <1>5 DEF Heap!SNext

LEMMA GiveStep ==
  ASSUME IInv, NEW k, SlobFound(k)
  PROVE  [Heap!SNext]_(Heap!svars)
<1> DEFINE n == SLOB_UNITS(op.size)
           c == Walk[k]
<1>1. /\ UsedMore(c, n) /\ heap' = heap /\ c \in Listed /\ c # arena /\ units[c] >= n
  BY SlobFoundStep
<1>2. op.at = "slob" /\ frames' = frames /\ op'.at # "slob"
  <2>1. op.at = "slob" /\ CallFacts
    BY CallIs DEF SlobFound
  <2>2. op.big \in BOOLEAN
    BY <2>1 DEF CallFacts
  <2>3. op.big => op'.at = "pages"
    BY <2>1 DEF SlobFound, CallFacts
  <2>4. ~op.big => op'.at = "idle"
    BY DEF SlobFound, Idle
  <2>5. frames' = frames
    BY DEF SlobFound
  <2> QED BY <2>1, <2>2, <2>3, <2>4, <2>5
<1>3. n \in Nat /\ n >= 2
  BY <1>2, CallIs DEF CallFacts
<1> HIDE DEF n, c
<1>4. Used' = Longer(c, n) /\ Cells' = Cells
  BY <1>1, UsedEffects DEF Cells
<1>5. /\ Tiling(Cells, Lengths) /\ c \in DOMAIN Lengths /\ Lengths[c] = units[c]
      /\ DOMAIN Lengths = Listed \cup InUse /\ Listed \cap InUse = {}
      /\ DOMAIN Used = InUse /\ \A a \in InUse : Used[a] = Lengths[a]
  BY <1>1, HeapFacts, UsedIs
<1>6. c \in Nat /\ Lengths[c] \in Nat /\ c \in Cells /\ Run(c, Lengths[c]) \subseteq Cells
  BY <1>5, TilingNumbers DEF Tiling
<1>7. Run(c, n) \subseteq Run(c, Lengths[c])
  BY <1>1, <1>3, <1>5, <1>6 DEF Run
<1>8. arena \notin Run(c, n)
  BY <1>1, <1>3, <1>6, AddrFacts DEF Run
<1>9. \A a \in DOMAIN Used : Run(a, Used[a]) \cap Run(c, n) = {}
  <2> SUFFICES ASSUME NEW a \in InUse, NEW x \in Run(a, Lengths[a]), x \in Run(c, Lengths[c]) PROVE FALSE
    BY <1>5, <1>7
  <2>1. a = c
    BY <1>5, TilingApart
  <2> QED BY <1>1, <1>5, <2>1
<1>10. Heap!Run(c, n) \subseteq Heap!Free
  <2>1. Run(c, n) \subseteq (Cells \ {arena}) \ UNION {Run(a, Used[a]) : a \in DOMAIN Used}
    BY <1>6, <1>7, <1>8, <1>9
  <2> QED BY <2>1 DEF Heap!Free, Heap!Run, Run
<1>11. Heap!Give(c)
  BY <1>2, <1>3, <1>4, <1>10 DEF Heap!Give, Longer, n
<1> QED BY <1>1, <1>6, <1>11 DEF Heap!SNext

LEMMA GrowStep ==
  ASSUME IInv, NEW f \in frames, SlobGrow(f)
  PROVE  [Heap!SNext]_(Heap!svars)
<1>1. /\ op.at = "slob" /\ ~Fits(SLOB_UNITS(op.size))
      /\ frames' = frames \ {f} /\ heap' = heap \cup {f}
      /\ op' = [op EXCEPT !.grown = @ + 1]
  BY DEF SlobGrow
<1>2. Used' = Used
  BY SlobGrowStep, UsedEffects
<1>3. CallFacts /\ op'.at = "slob" /\ op'.size = op.size
  BY <1>1, CallIs DEF CallFacts
<1>4. ~Heap!Room(SLOB_UNITS(op.size)) /\ SLOB_UNITS(op.size) > 0
  BY <1>1, <1>3, NoRoom DEF CallFacts
<1>5. Cells' \ {arena} = (Cells \ {arena}) \cup Heap!Cells(f)
  <2>1. Cells' = Cells \cup Run(f * U, U)
    BY <1>1 DEF Cells
  <2>2. f \in 1..NPages
    BY HeapFacts
  <2>3. f * U \in Nat
    BY <2>2, PageApart
  <2>4. Run(f * U, U) = Heap!Cells(f)
    BY <2>3 DEF Run, Heap!Cells
  <2>5. arena \notin Run(f * U, U)
    <3>1. Run(f * U, U) \cap CellsOf({}) = {}
      BY <2>2, PageNew
    <3> QED BY <3>1 DEF CellsOf
  <2> QED BY <2>1, <2>4, <2>5
<1>6. Heap!Grow(f)
  BY <1>1, <1>2, <1>3, <1>4, <1>5 DEF Heap!Grow
<1> QED BY <1>6 DEF Heap!SNext

LEMMA RefuseStep ==
  ASSUME IInv, SlobFails
  PROVE  [Heap!SNext]_(Heap!svars)
<1>1. /\ op.at = "slob" /\ ~Fits(SLOB_UNITS(op.size)) /\ frames = {}
      /\ frames' = frames /\ heap' = heap /\ op'.at = "idle"
  BY DEF SlobFails, Idle
<1>2. Used' = Used /\ Cells' = Cells
  BY <1>1, SlobFailsStep, UsedEffects DEF Cells
<1>3. ~Heap!Room(SLOB_UNITS(op.size)) /\ SLOB_UNITS(op.size) > 0
  BY <1>1, CallIs, NoRoom DEF CallFacts
<1>4. Heap!Refuse
  BY <1>1, <1>2, <1>3 DEF Heap!Refuse
<1> QED BY <1>4 DEF Heap!SNext

LEMMA TakePagesStep ==
  ASSUME IInv, NEW f \in frames, BigPages(f)
  PROVE  [Heap!SNext]_(Heap!svars)
<1> DEFINE F == PagesFrom(f, find_order(op.req))
<1>1. /\ op.at = "pages" /\ op'.at = "idle" /\ F \subseteq frames
      /\ frames' = frames \ F /\ heap' = heap
  BY DEF BigPages, Idle
<1>2. Used' = Used /\ Cells' = Cells
  BY <1>1, BigPagesStep, UsedEffects DEF Cells
<1>3. frames \subseteq 1..NPages
  BY HeapFacts
<1> HIDE DEF F
<1>4. Heap!TakePages(F)
  BY <1>1, <1>2 DEF Heap!TakePages
<1>5. F \in SUBSET (1..NPages)
  BY <1>1, <1>3
<1> QED BY <1>4, <1>5 DEF Heap!SNext

LEMMA ReleaseStep ==
  ASSUME IInv, BigFails
  PROVE  [Heap!SNext]_(Heap!svars)
<1>1. op.at = "pages" /\ op'.at = "idle" /\ frames' = frames /\ heap' = heap
  BY DEF BigFails, Idle
<1>2. Used' = Cut(op.bb) /\ op.bb \in DOMAIN Used /\ Cells' = Cells
  BY <1>1, BigFailsStep, UsedEffects DEF Cells
<1>3. Heap!Release(op.bb)
  BY <1>1, <1>2 DEF Heap!Release, Heap!Without, Cut
<1> QED BY <1>2, <1>3 DEF Heap!SNext

LEMMA KfreeRefines ==
  ASSUME IInv, NEW h \in held, Kfree(h)
  PROVE  [Heap!SNext]_(Heap!svars)
<1>1. op.at = "idle" /\ op' = op
  BY DEF Kfree, Idle
<1>2. CASE BigIndex(h.ptr) = {}
  <2>1. UsedLess(h.ptr - 1) /\ frames' = frames /\ heap' = heap
    BY <1>2, KfreeSmall
  <2>2. Used' = Cut(h.ptr - 1) /\ h.ptr - 1 \in DOMAIN Used /\ Cells' = Cells
    BY <2>1, UsedEffects DEF Cells
  <2>3. Heap!Release(h.ptr - 1)
    BY <1>1, <2>1, <2>2 DEF Heap!Release, Heap!Without, Cut
  <2> QED BY <2>2, <2>3 DEF Heap!SNext
<1>3. CASE BigIndex(h.ptr) # {}
  <2>1. PICK b, F : UsedLess(b) /\ PagesBack(F)
    BY <1>3, KfreeBig
  <2>2. /\ F \in SUBSET (1..NPages) /\ F \cap heap = {} /\ F \cap frames = {}
        /\ frames' = frames \cup F /\ heap' = heap
    BY <2>1 DEF PagesBack
  <2>3. Used' = Cut(b) /\ b \in DOMAIN Used /\ Cells' = Cells
    BY <2>1, <2>2, UsedEffects DEF Cells
  <2>4. ASSUME NEW f \in F PROVE Heap!Cells(f) \cap (Cells \ {arena}) = {}
    <3>1. f \in 1..NPages /\ f \notin heap /\ heap \in SUBSET (1..NPages) /\ f \in Nat
      BY <2>2, HeapFacts
    <3>2. Run(f * U, U) \cap Cells = {}
      BY <3>1, PageNew, SmallIs
    <3> QED BY <3>2 DEF Run, Heap!Cells
  <2>5. Heap!ReturnPages(F, b)
    BY <1>1, <2>2, <2>3, <2>4 DEF Heap!ReturnPages, Heap!Without, Cut
  <2> QED BY <2>2, <2>3, <2>5 DEF Heap!SNext
<1> QED BY <1>2, <1>3

LEMMA NextRefines ==
  ASSUME IInv, [Next]_vars
  PROVE  [Heap!SNext]_(Heap!svars)
<1>1. ASSUME UNCHANGED vars PROVE UNCHANGED Heap!svars
  <2>1. op' = op /\ frames' = frames /\ heap' = heap
    BY <1>1 DEF vars
  <2>2. Used' = Used /\ Cells' = Cells
    BY <1>1, <2>1, StutterStep, UsedEffects DEF Cells
  <2> QED BY <2>1, <2>2 DEF Heap!svars
<1>2. ASSUME NEW size \in Sizes, Kmalloc(size) PROVE [Heap!SNext]_(Heap!svars)
  BY <1>2, RequestStep
<1>3. ASSUME NEW k, SlobFound(k) PROVE [Heap!SNext]_(Heap!svars)
  BY <1>3, GiveStep
<1>4. ASSUME NEW f \in frames, SlobGrow(f) PROVE [Heap!SNext]_(Heap!svars)
  BY <1>4, GrowStep
<1>5. ASSUME NEW f \in frames, BigPages(f) PROVE [Heap!SNext]_(Heap!svars)
  BY <1>5, TakePagesStep
<1>6. ASSUME NEW h \in held, Kfree(h) PROVE [Heap!SNext]_(Heap!svars)
  BY <1>6, KfreeRefines
<1>7. CASE UNCHANGED vars
  BY <1>1, <1>7
<1>8. CASE Next
  BY <1>2, <1>3, <1>4, <1>5, <1>6, <1>8, RefuseStep, ReleaseStep DEF Next
<1> QED BY <1>7, <1>8

\* kmalloc and kfree give what a heap promises: cells of nobody else's block, a
\* new page only when no run of free cells is long enough, a refusal only when
\* there is no page either; so the first walk of slob_alloc misses nothing.
THEOREM HeapRefines == Spec => HeapRefinement
<1>1. Init => Used = <<>> /\ want = 0
  <2> SUFFICES ASSUME Init PROVE Used = <<>> /\ want = 0
    OBVIOUS
  <2>1. bigblocks = <<>> /\ held = {} /\ op.at = "idle"
    BY DEF Init, Idle
  <2>2. InUse = {}
    BY <2>1 DEF InUse, Small, Descs
  <2>3. Used = [a \in {} |-> IF a \in Descs THEN SLOB_UNITS(BIGBLOCK) ELSE units[a]]
    BY <2>2 DEF Used, InUse
  <2>4. Used = <<>>
    BY <2>3
  <2> QED BY <2>1, <2>4 DEF want
<1>2. IInv /\ [Next]_vars => [Heap!SNext]_(Heap!svars)
  BY NextRefines
<1>3. QED
  BY <1>1, <1>2, SlobInvariant, PTL DEF Spec, HeapRefinement, Heap!HSpec, want
=============================================================================
