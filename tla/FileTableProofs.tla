-------------------------- MODULE FileTableProofs --------------------------
(***************************************************************************)
(* For any number of processes, tables, slots and files: open_count of a   *)
(* slot, open_count and ref_count of an inode and files_count of a table   *)
(* equal what holds them and what was lost or leaked (FileTable says       *)
(* where), over every sequence of calls and every error path, and the      *)
(* assertions of file.c and fs.c that rest on them hold.                   *)
(***************************************************************************)
EXTENDS FileTable, FiniteSetTheorems, TLAPS

\* The call in progress: an open, by itself or inside an exec, or what an exec
\* does before it and after it.
OpenCall == [at : {"lookup", "vop_open", "opened", "load", "exit"}, p : All,
             fd : Fds, node : Devs \cup {NULL}, then : {"return", "exec"}]
ExecCall == [at : {"exec", "exit"}, p : All]

CallOK ==
  /\ op = Idle \/ op \in OpenCall \/ op \in ExecCall
  /\ op # Idle => state[op.p] = "run"
  /\ op.at \in {"vop_open", "opened"} => op.node \in Devs
  /\ op.at = "load" => IsOpen(filesp[op.p], op.fd)

\* Who sleeps in a read, and who has no table.
ProcOK ==
  \A p \in All :
    /\ state[p] = "asleep" <=> reading[p] # NoRead
    /\ state[p] = "none" => filesp[p] = NULL

IInv == SlotsOK /\ CountsOK /\ TablesOK /\ CallOK /\ ProcOK

----------------------------------------------------------------------------
(* The parts of the invariant, one slot, one inode and one table at a time *)

OpenAt(t, s) ==
  /\ op.at \in {"lookup", "vop_open", "opened"}
  /\ filesp[op.p] = t /\ op.fd = s

SlotOK(t, s) ==
  LET f == slot[t][s]
      n == Cardinality(Readers(t, s)) IN
  /\ f.count = n + (IF f.status = "OPENED" THEN 1 ELSE 0)
  /\ f.status \in {"NONE", "INIT"} => n = 0
  /\ f.status = "CLOSED" => n > 0
  /\ f.status = "INIT" <=> OpenAt(t, s)
  /\ files_count[t] = 0 => f = FD_NONE
  /\ \A p \in Readers(t, s) : f.node = reading[p].node

\* The references to n that vfs_open has left behind.
Leaked(n) == IF n \in Nodes /\ leaked \in [Nodes -> Nat] THEN leaked[n] ELSE 0

NodeOK(n) ==
  LET held == Cardinality(Holders(n)) IN
  /\ open[n] = held + (IF op.at = "opened" /\ op.node = n THEN 1 ELSE 0)
  /\ ref[n] = held
             + (IF op.at \in {"vop_open", "opened"} /\ op.node = n THEN 1 ELSE 0)
             + (IF n = stdin THEN 1 ELSE 0)
             + (IF n = root THEN 1 + Cardinality({t \in Tables : files_count[t] > 0})
                ELSE 0)
             + Leaked(n)

Users(t) == {p \in All : filesp[p] = t}
Used == {t \in Tables : files_count[t] > 0}

TableOK(t) == files_count[t] = lost[t] + Cardinality(Users(t))

HasTable == \A p \in All : state[p] \in {"run", "asleep"} => filesp[p] # NULL
DeadOK == \A p \in All : state[p] = "zombie" => ~mm[p]

\* The invariant, taken apart.
PartsOK ==
  IInv <=> /\ TypeOK /\ ~panic
           /\ \A t \in Tables, s \in Fds : SlotOK(t, s)
           /\ \A n \in Nodes : NodeOK(n)
           /\ \A t \in Tables : TableOK(t)
           /\ HasTable /\ DeadOK /\ CallOK /\ ProcOK

LEMMA Parts == PartsOK
<1>1. ASSUME TypeOK
      PROVE  CountsOK <=> \A n \in Nodes : NodeOK(n)
  BY <1>1 DEF TypeOK, CountsOK, NodeOK, Leaked
<1>2. SlotsOK <=> TypeOK /\ ~panic /\ \A t \in Tables, s \in Fds : SlotOK(t, s)
  BY DEF SlotsOK, SlotOK, OpenAt
<1>3. TablesOK <=> (\A t \in Tables : TableOK(t)) /\ HasTable /\ DeadOK
  BY DEF TablesOK, TableOK, Users, HasTable, DeadOK
<1> QED BY <1>1, <1>2, <1>3 DEF PartsOK, IInv

LEMMA PartsNext == PartsOK'
BY Parts, PTL

----------------------------------------------------------------------------
(* Counting *)

\* Every set the counters count is finite.
LEMMA Finite ==
  /\ IsFiniteSet(All) /\ IsFiniteSet(Fds) /\ IsFiniteSet(Tables)
  /\ IsFiniteSet(Tables \X Fds)
<1>1. IsFiniteSet(All)
  BY FileTableAssumption, FS_AddElement DEF FileTableAssumption, All
<1>2. IsFiniteSet(Fds)
  BY FileTableAssumption, FS_Interval DEF FileTableAssumption, Fds
<1>3. IsFiniteSet(Tables)
  BY FileTableAssumption DEF FileTableAssumption
<1>4. IsFiniteSet(Tables \X Fds)
  BY <1>2, <1>3, FS_Product
<1> QED BY <1>1, <1>2, <1>3, <1>4

\* A part of a finite set is finite and has a cardinality.
LEMMA Part ==
  ASSUME NEW S, IsFiniteSet(S), NEW T, T \subseteq S
  PROVE  IsFiniteSet(T) /\ Cardinality(T) \in Nat
BY FS_Subset, FS_CardinalityType

\* One more, one less.
LEMMA Plus ==
  ASSUME NEW S, IsFiniteSet(S), NEW x, x \notin S, NEW T, T = S \cup {x}
  PROVE  Cardinality(T) = Cardinality(S) + 1
BY FS_AddElement

LEMMA Minus ==
  ASSUME NEW S, IsFiniteSet(S), NEW x \in S, NEW T, T = S \ {x}
  PROVE  Cardinality(T) = Cardinality(S) - 1 /\ Cardinality(S) > 0
<1>1. Cardinality(T) = Cardinality(S) - 1
  BY FS_RemoveElement
<1>2. Cardinality(T) \in Nat /\ Cardinality(S) \in Nat
  BY FS_RemoveElement, FS_CardinalityType
<1> QED BY <1>1, <1>2

\* A row of a product is as large as the set of its second components.
LEMMA Row ==
  ASSUME NEW R, IsFiniteSet(R), NEW t
  PROVE  IsFiniteSet({t} \X R) /\ Cardinality({t} \X R) = Cardinality(R)
<1> DEFINE f == [s \in R |-> <<t, s>>]
<1>1. f \in Bijection(R, {t} \X R)
  <2>1. f \in [R -> {t} \X R]
    OBVIOUS
  <2>2. \A a, b \in R : f[a] = f[b] => a = b
    OBVIOUS
  <2>3. \A h \in {t} \X R : \E s \in R : f[s] = h
    OBVIOUS
  <2> QED BY <2>1, <2>2, <2>3 DEF Bijection, Injection, Surjection, IsInjective
<1> QED BY <1>1, FS_Bijection DEF ExistsBijection

\* Adding a row that was not there, and taking one away.
LEMMA MoreRow ==
  ASSUME NEW H, IsFiniteSet(H), NEW R, IsFiniteSet(R), NEW t,
         H \cap ({t} \X R) = {}
  PROVE  Cardinality(H \cup ({t} \X R)) = Cardinality(H) + Cardinality(R)
<1>1. IsFiniteSet({t} \X R) /\ Cardinality({t} \X R) = Cardinality(R)
  BY Row
<1>2. Cardinality(H \cup ({t} \X R))
        = Cardinality(H) + Cardinality({t} \X R) - Cardinality(H \cap ({t} \X R))
  BY <1>1, FS_Union
<1>3. Cardinality(H \cap ({t} \X R)) = 0
  BY FS_EmptySet
<1>4. Cardinality(H) \in Nat /\ Cardinality(R) \in Nat
  BY FS_CardinalityType
<1> QED BY <1>1, <1>2, <1>3, <1>4

LEMMA LessRow ==
  ASSUME NEW H, IsFiniteSet(H), NEW R, IsFiniteSet(R), NEW t,
         {t} \X R \subseteq H
  PROVE  Cardinality(H \ ({t} \X R)) = Cardinality(H) - Cardinality(R)
<1>1. IsFiniteSet({t} \X R) /\ Cardinality({t} \X R) = Cardinality(R)
  BY Row
<1>2. Cardinality(H \ ({t} \X R)) = Cardinality(H) - Cardinality(H \cap ({t} \X R))
  BY <1>1, FS_Difference
<1>3. H \cap ({t} \X R) = {t} \X R
  OBVIOUS
<1> QED BY <1>1, <1>2, <1>3

----------------------------------------------------------------------------
(* What holds an inode *)

HoldsNode(f, n) == f.status \in {"OPENED", "CLOSED"} /\ f.node = n

\* The slots of tables sl that hold n.
Held(sl, n) == {h \in Tables \X Fds : HoldsNode(sl[h[1]][h[2]], n)}

LEMMA HeldIsHolders == \A n : Holders(n) = Held(slot, n)
BY DEF Holders, Held, HoldsNode

LEMMA HeldFinite ==
  ASSUME NEW sl, NEW n
  PROVE  IsFiniteSet(Held(sl, n)) /\ Cardinality(Held(sl, n)) \in Nat
<1>1. Held(sl, n) \subseteq Tables \X Fds
  BY DEF Held
<1> QED BY <1>1, Finite, Part

LEMMA HeldSame ==
  ASSUME NEW sl, NEW tl, NEW n,
         \A u \in Tables, r \in Fds : HoldsNode(tl[u][r], n) <=> HoldsNode(sl[u][r], n)
  PROVE  Cardinality(Held(tl, n)) = Cardinality(Held(sl, n))
<1>1. Held(tl, n) = Held(sl, n)
  BY DEF Held
<1> QED BY <1>1

\* The slots among S of table t that name n.
Named(sl, t, S, n) == {s \in S : sl[t][s].node = n}

\* From sl to tl, slots S of table t stop holding inodes and the others hold
\* what they did.
Drops(sl, tl, t, S, n) ==
  /\ t \in Tables /\ S \subseteq Fds
  /\ \A s \in S : /\ sl[t][s].status \in {"OPENED", "CLOSED"}
                   /\ tl[t][s].status \notin {"OPENED", "CLOSED"}
  /\ \A u \in Tables, r \in Fds :
       ~(u = t /\ r \in S) => (HoldsNode(tl[u][r], n) <=> HoldsNode(sl[u][r], n))

LEMMA HeldLess ==
  ASSUME NEW sl, NEW tl, NEW n, NEW t, NEW S, Drops(sl, tl, t, S, n)
  PROVE  /\ Cardinality(Held(tl, n))
              = Cardinality(Held(sl, n)) - Cardinality(Named(sl, t, S, n))
         /\ Cardinality(Named(sl, t, S, n)) \in Nat
<1> DEFINE R == Named(sl, t, S, n)
<1>0. S \subseteq Fds /\ t \in Tables
  BY DEF Drops
<1>1. IsFiniteSet(R) /\ Cardinality(R) \in Nat
  BY <1>0, Finite, Part DEF Named
<1>2. {t} \X R \subseteq Held(sl, n)
  BY DEF Held, HoldsNode, Named, Drops
<1>3. Held(tl, n) = Held(sl, n) \ ({t} \X R)
  <2>1. ASSUME NEW h \in Tables \X Fds
        PROVE  h \in Held(tl, n) <=> h \in Held(sl, n) /\ h \notin {t} \X R
    <3>1. h[1] \in Tables /\ h[2] \in Fds /\ h = <<h[1], h[2]>>
      OBVIOUS
    <3>2. h \in {t} \X R <=> h[1] = t /\ h[2] \in R
      BY <3>1
    <3>3. CASE h[1] = t /\ h[2] \in S
      BY <3>1, <3>2, <3>3 DEF Held, HoldsNode, Named, Drops
    <3>4. CASE ~(h[1] = t /\ h[2] \in S)
      BY <3>1, <3>2, <3>4 DEF Held, Named, Drops
    <3> QED BY <3>3, <3>4
  <2> QED BY <2>1 DEF Held
<1>4. Cardinality(Held(sl, n) \ ({t} \X R)) = Cardinality(Held(sl, n)) - Cardinality(R)
  <2> HIDE DEF R
  <2> QED BY <1>1, <1>2, HeldFinite, LessRow
<1> QED BY <1>1, <1>3, <1>4

\* The other way round, they come to hold inodes.
LEMMA HeldMore ==
  ASSUME NEW sl, NEW tl, NEW n, NEW t, NEW S, Drops(tl, sl, t, S, n)
  PROVE  /\ Cardinality(Held(tl, n))
              = Cardinality(Held(sl, n)) + Cardinality(Named(tl, t, S, n))
         /\ Cardinality(Named(tl, t, S, n)) \in Nat
<1>1. /\ Cardinality(Held(sl, n))
           = Cardinality(Held(tl, n)) - Cardinality(Named(tl, t, S, n))
      /\ Cardinality(Named(tl, t, S, n)) \in Nat
  BY HeldLess
<1>2. Cardinality(Held(sl, n)) \in Nat /\ Cardinality(Held(tl, n)) \in Nat
  BY HeldFinite
<1> QED BY <1>1, <1>2

\* One slot holds one inode.
LEMMA OneSlot ==
  ASSUME NEW s, NEW sl, NEW t, NEW n
  PROVE  Cardinality(Named(sl, t, {s}, n)) = IF sl[t][s].node = n THEN 1 ELSE 0
<1>1. CASE sl[t][s].node = n
  <2>1. Named(sl, t, {s}, n) = {s}
    BY <1>1 DEF Named
  <2> QED BY <1>1, <2>1, FS_Singleton
<1>2. CASE sl[t][s].node # n
  <2>1. Named(sl, t, {s}, n) = {}
    BY <1>2 DEF Named
  <2> QED BY <1>2, <2>1, FS_EmptySet
<1> QED BY <1>1, <1>2

\* What the counters of an inode have in them besides the slots: the open in
\* progress, the device list, the boot file system, the working directories.
OpenMore(n) == IF op.at = "opened" /\ op.node = n THEN 1 ELSE 0
RefMore(n) == (IF op.at \in {"vop_open", "opened"} /\ op.node = n THEN 1 ELSE 0)
              + (IF n = stdin THEN 1 ELSE 0)
              + (IF n = root THEN 1 + Cardinality(Used) ELSE 0)
              + Leaked(n)

NodeSum ==
  \A n : /\ NodeOK(n) <=> /\ open[n] = Cardinality(Held(slot, n)) + OpenMore(n)
                          /\ ref[n] = Cardinality(Held(slot, n)) + RefMore(n)
         /\ OpenMore(n) \in Nat /\ RefMore(n) \in Nat

LEMMA NodeParts == NodeSum
<1> SUFFICES ASSUME NEW n
             PROVE  /\ NodeOK(n) <=>
                         /\ open[n] = Cardinality(Held(slot, n)) + OpenMore(n)
                         /\ ref[n] = Cardinality(Held(slot, n)) + RefMore(n)
                    /\ OpenMore(n) \in Nat /\ RefMore(n) \in Nat
  BY DEF NodeSum
<1>1. NodeOK(n) <=> /\ open[n] = Cardinality(Held(slot, n)) + OpenMore(n)
                    /\ ref[n] = Cardinality(Held(slot, n)) + RefMore(n)
  <2> DEFINE c == Cardinality(Held(slot, n))
             a == IF op.at \in {"vop_open", "opened"} /\ op.node = n THEN 1 ELSE 0
             b == IF n = stdin THEN 1 ELSE 0
             d == IF n = root THEN 1 + Cardinality(Used) ELSE 0
             e == Leaked(n)
  <2>1. Cardinality(Holders(n)) = c
    BY HeldIsHolders
  <2>2. c \in Nat /\ a \in Int /\ b \in Int
    BY HeldFinite
  <2>3. d \in Int /\ e \in Int
    BY Finite, Part DEF Used, Leaked
  <2>4. c + a + b + d + e = c + (a + b + d + e)
    <3> HIDE DEF a, b, c, d, e
    <3> QED BY <2>2, <2>3
  <2> QED BY <2>1, <2>4 DEF NodeOK, OpenMore, RefMore, Leaked, Used
<1>2. OpenMore(n) \in Nat
  BY DEF OpenMore
<1>3. RefMore(n) \in Nat
  <2>1. Cardinality(Used) \in Nat
    BY Finite, Part DEF Used
  <2> QED BY <2>1 DEF RefMore, Leaked
<1> QED BY <1>1, <1>2, <1>3

LEMMA NodePartsNext == NodeSum'
BY NodeParts, PTL

----------------------------------------------------------------------------
(* Types *)

TypeRest ==
  /\ state \in [All -> {"none", "run", "asleep", "zombie"}]
  /\ mm \in [All -> BOOLEAN]
  /\ filesp \in [All -> Tables \cup {NULL}]
  /\ reading \in [All -> [fd : Fds, node : Devs] \cup {NoRead}]
  /\ files_count \in [Tables -> Nat]
  /\ slot \in [Tables -> [Fds -> Slot]]
  /\ lost \in [Tables -> Nat] /\ leaked \in [Nodes -> Nat]
  /\ panic \in BOOLEAN

\* The counters of inodes are natural numbers because they count.
LEMMA CountersNext ==
  ASSUME TypeRest', \A n \in Nodes : NodeOK(n)',
         ref' = [n \in Nodes |-> ref'[n]], open' = [n \in Nodes |-> open'[n]]
  PROVE  TypeOK'
<1>1. ASSUME NEW n \in Nodes
      PROVE  ref'[n] \in Nat /\ open'[n] \in Nat
  <2>1. Cardinality(Held(slot', n)) \in Nat
    BY HeldFinite
  <2>2. /\ open'[n] = Cardinality(Held(slot', n)) + OpenMore(n)'
        /\ ref'[n] = Cardinality(Held(slot', n)) + RefMore(n)'
        /\ OpenMore(n)' \in Nat /\ RefMore(n)' \in Nat
    BY NodePartsNext DEF NodeSum
  <2> QED BY <2>1, <2>2
<1>2. ref' \in [Nodes -> Nat] /\ open' \in [Nodes -> Nat]
  BY <1>1
<1> QED BY <1>2 DEF TypeOK, TypeRest

LEMMA SlotValues ==
  /\ FD_NONE \in Slot /\ FD_INIT \in Slot
  /\ FD_NONE.status = "NONE" /\ FD_NONE.count = 0
  /\ FD_INIT.status = "INIT" /\ FD_INIT.count = 0
  /\ \A n \in Devs \cup {NULL}, pos \in 0..MaxPos :
       /\ Opened(n, pos) \in Slot
       /\ Opened(n, pos).status = "OPENED" /\ Opened(n, pos).count = 1
       /\ Opened(n, pos).node = n
<1>1. 0 \in 0..MaxPos
  BY FileTableAssumption DEF FileTableAssumption
<1> QED BY <1>1 DEF FD_NONE, FD_INIT, Opened, Slot

\* One slot of one table changes.
LEMMA SetSlot ==
  ASSUME NEW sl \in [Tables -> [Fds -> Slot]], NEW t \in Tables, NEW s \in Fds,
         NEW x \in Slot, NEW tl, tl = [sl EXCEPT ![t][s] = x]
  PROVE  /\ tl \in [Tables -> [Fds -> Slot]]
         /\ \A u \in Tables, r \in Fds :
              tl[u][r] = IF u = t /\ r = s THEN x ELSE sl[u][r]
OBVIOUS

\* All slots of one table change.
LEMMA SetRow ==
  ASSUME NEW sl \in [Tables -> [Fds -> Slot]], NEW t \in Tables,
         NEW row \in [Fds -> Slot], NEW tl, tl = [sl EXCEPT ![t] = row]
  PROVE  /\ tl \in [Tables -> [Fds -> Slot]]
         /\ \A u \in Tables, r \in Fds :
              tl[u][r] = IF u = t THEN row[r] ELSE sl[u][r]
OBVIOUS

----------------------------------------------------------------------------
(* What stays when processes and files_count stay *)

LEMMA Running ==
  ASSUME IInv, NEW p \in All, state[p] \in {"run", "asleep"}
  PROVE  filesp[p] \in Tables
BY DEF IInv, SlotsOK, TypeOK, TablesOK

\* A table that a process uses is not free.
LEMMA InUse ==
  ASSUME IInv, NEW p \in All, filesp[p] \in Tables
  PROVE  files_count[filesp[p]] > 0
<1> DEFINE t == filesp[p]
<1>1. files_count[t] = lost[t] + Cardinality(Users(t)) /\ lost[t] \in Nat
  BY Parts DEF PartsOK, TypeOK, TableOK
<1>2. IsFiniteSet(Users(t)) /\ p \in Users(t)
  BY Finite, Part DEF Users
<1>3. Cardinality(Users(t)) > 0
  <2> HIDE DEF t
  <2>1. Cardinality(Users(t)) \in Nat /\ Cardinality(Users(t)) # 0
    BY <1>2, FS_EmptySet, FS_CardinalityType
  <2> QED BY <2>1
<1> QED BY <1>1, <1>3, <1>2, FS_CardinalityType

LEMMA Frame ==
  ASSUME IInv, UNCHANGED <<state, filesp, reading, files_count, lost>>
  PROVE  /\ \A t \in Tables : TableOK(t)'
         /\ HasTable' /\ ProcOK' /\ (mm' = mm => DeadOK')
         /\ Used' = Used
         /\ \A t, s : Readers(t, s)' = Readers(t, s)
         /\ \A t \in Tables, s \in Fds :
              slot'[t][s] = slot[t][s] /\ (OpenAt(t, s)' <=> OpenAt(t, s))
                => SlotOK(t, s)'
<1>1. \A t \in Tables : TableOK(t)'
  BY Parts DEF PartsOK, TableOK, Users
<1>2. HasTable' /\ ProcOK' /\ (mm' = mm => DeadOK')
  BY Parts DEF PartsOK, HasTable, DeadOK, ProcOK
<1>3. Used' = Used
  BY DEF Used
<1>4. \A t, s : Readers(t, s)' = Readers(t, s)
  BY DEF Readers
<1>5. ASSUME NEW t \in Tables, NEW s \in Fds, slot'[t][s] = slot[t][s],
             OpenAt(t, s)' <=> OpenAt(t, s)
      PROVE  SlotOK(t, s)'
  <2>1. SlotOK(t, s) /\ Readers(t, s)' = Readers(t, s)
    BY Parts, <1>4 DEF PartsOK
  <2> QED BY <2>1, <1>5 DEF SlotOK
<1> QED BY <1>1, <1>2, <1>3, <1>4, <1>5

----------------------------------------------------------------------------
(* Opening a file *)

\* No open is in progress.
Quiet == op.at \notin {"lookup", "vop_open", "opened"}

LEMMA OpenAllocStep ==
  ASSUME IInv, NEW p \in All, NEW s \in Fds, NEW then \in {"return", "exec"},
         state[p] = "run", Quiet, OpenAlloc(p, s, then)
  PROVE  IInv'
<1> DEFINE t == filesp[p]
<1> USE DEF procVars, nodeVars
<1>1. t \in Tables /\ files_count[t] > 0 /\ TypeOK
  BY Running, InUse, Parts DEF PartsOK
<1>2. /\ slot' \in [Tables -> [Fds -> Slot]]
      /\ \A u \in Tables, r \in Fds :
           slot'[u][r] = IF u = t /\ r = s THEN FD_INIT ELSE slot[u][r]
  <2>1. slot \in [Tables -> [Fds -> Slot]] /\ slot' = [slot EXCEPT ![t][s] = FD_INIT]
    BY <1>1 DEF TypeOK, OpenAlloc
  <2> HIDE DEF t
  <2> QED BY <1>1, <2>1, SlotValues, SetSlot
<1>3. slot[t][s].status = "NONE" /\ slot[t][s].count = 0 /\ Cardinality(Readers(t, s)) = 0
  <2>1. slot[t][s].status = "NONE"
    BY DEF OpenAlloc, LowestFree
  <2>2. SlotOK(t, s)
    BY <1>1, Parts DEF PartsOK
  <2> QED BY <2>1, <2>2 DEF SlotOK
<1>4. /\ op' = [at |-> "lookup", p |-> p, fd |-> s, node |-> NULL, then |-> then]
      /\ UNCHANGED <<state, mm, filesp, reading, files_count, ref, open, lost, leaked>>
      /\ panic' = FALSE
  BY <1>3 DEF OpenAlloc, AllocAssert
<1>5. \A u, r : /\ OpenAt(u, r)' <=> u = t /\ r = s
                /\ ~OpenAt(u, r)
  BY <1>4 DEF OpenAt, Quiet
<1>6. ASSUME NEW u \in Tables, NEW r \in Fds
      PROVE  SlotOK(u, r)'
  <2>1. CASE u = t /\ r = s
    <3>1. Readers(u, r)' = Readers(t, s) /\ Readers(t, s) = {}
      BY <1>3, <1>4, <2>1, Frame, Finite, Part, FS_EmptySet DEF Readers
    <3> QED BY <1>1, <1>2, <1>3, <1>4, <1>5, <2>1, <3>1, SlotValues DEF SlotOK
  <2>2. CASE ~(u = t /\ r = s)
    BY <1>2, <1>4, <1>5, <2>2, Frame
  <2> QED BY <2>1, <2>2
<1>7. ASSUME NEW n \in Nodes
      PROVE  NodeOK(n)'
  <2>1. Cardinality(Held(slot', n)) = Cardinality(Held(slot, n))
    BY <1>2, <1>3, HeldSame, SlotValues DEF HoldsNode
  <2>2. OpenMore(n)' = OpenMore(n) /\ RefMore(n)' = RefMore(n)
    BY <1>4, Frame DEF OpenMore, RefMore, Leaked, Quiet
  <2>3. NodeOK(n)
    BY Parts DEF PartsOK
  <2> QED BY <1>4, <2>1, <2>2, <2>3, NodeParts, NodePartsNext DEF NodeSum
<1>8. TypeOK'
  BY <1>1, <1>2, <1>4 DEF TypeOK
<1>9. CallOK'
  BY <1>4 DEF CallOK, OpenCall
<1> QED
  BY <1>4, <1>6, <1>7, <1>8, <1>9, Frame, PartsNext DEF PartsOK

LEMMA OpenStep ==
  ASSUME IInv, NEW p \in All, NEW s \in Fds, Open(p, s)
  PROVE  IInv'
BY OpenAllocStep DEF Open, Ready, Quiet, Idle

LEMMA ExecOpenStep ==
  ASSUME IInv, NEW s \in Fds, ExecOpen(s)
  PROVE  IInv'
<1>1. op \in ExecCall /\ state[op.p] = "run" /\ Quiet
  BY DEF ExecOpen, IInv, CallOK, OpenCall, Idle, Quiet
<1>2. op.p \in All
  BY <1>1 DEF ExecCall
<1> QED BY <1>1, <1>2, OpenAllocStep DEF ExecOpen

\* The slot that an open in progress has taken.
LEMMA OpenSlot ==
  ASSUME IInv, ~Quiet
  PROVE  LET t == filesp[op.p]
             s == op.fd
         IN  /\ op \in OpenCall /\ op.p \in All /\ s \in Fds /\ state[op.p] = "run"
             /\ t \in Tables /\ files_count[t] > 0
             /\ slot[t][s].status = "INIT" /\ Readers(t, s) = {}
             /\ \A u, r : OpenAt(u, r) <=> u = t /\ r = s
<1> DEFINE t == filesp[op.p]
           s == op.fd
<1>1. op \in OpenCall /\ state[op.p] = "run"
  BY DEF IInv, CallOK, ExecCall, Idle, Quiet
<1>2. op.p \in All /\ s \in Fds
  BY <1>1 DEF OpenCall
<1>3. t \in Tables /\ files_count[t] > 0
  BY <1>1, <1>2, Running, InUse
<1>4. \A u, r : OpenAt(u, r) <=> u = t /\ r = s
  BY DEF OpenAt, Quiet
<1>5. SlotOK(t, s) /\ OpenAt(t, s)
  BY <1>2, <1>3, <1>4, Parts DEF PartsOK
<1>6. slot[t][s].status = "INIT" /\ Cardinality(Readers(t, s)) = 0
  BY <1>5 DEF SlotOK
<1>7. Readers(t, s) = {}
  BY <1>6, Finite, Part, FS_EmptySet DEF Readers
<1> QED BY <1>1, <1>2, <1>3, <1>4, <1>6, <1>7

\* The counters without what the open in progress has added to them.
RefOpen(n) == IF op.at \in {"vop_open", "opened"} /\ op.node = n THEN 1 ELSE 0

LEMMA OpenFailedStep ==
  ASSUME IInv, ~Quiet, OpenFailed, UNCHANGED <<procVars, files_count, lost, panic>>,
         leaked' \in [Nodes -> Nat],
         open' = [n \in Nodes |-> open[n] - OpenMore(n)],
         ref' = [n \in Nodes |-> ref[n] - RefOpen(n) + (leaked'[n] - leaked[n])]
  PROVE  IInv'
<1> DEFINE t == filesp[op.p]
           s == op.fd
<1> USE DEF procVars
<1>1. /\ op \in OpenCall /\ op.p \in All /\ s \in Fds /\ state[op.p] = "run"
      /\ t \in Tables /\ files_count[t] > 0
      /\ slot[t][s].status = "INIT" /\ Readers(t, s) = {}
      /\ \A u, r : OpenAt(u, r) <=> u = t /\ r = s
  BY OpenSlot
<1>2. TypeOK /\ panic = FALSE
  BY Parts DEF PartsOK, TypeOK
<1>3. /\ slot' \in [Tables -> [Fds -> Slot]]
      /\ \A u \in Tables, r \in Fds :
           slot'[u][r] = IF u = t /\ r = s THEN FD_NONE ELSE slot[u][r]
  <2>1. slot \in [Tables -> [Fds -> Slot]] /\ slot' = [slot EXCEPT ![t][s] = FD_NONE]
    BY <1>2 DEF TypeOK, OpenFailed
  <2> HIDE DEF t, s
  <2> QED BY <1>1, <2>1, SlotValues, SetSlot
<1>4. op' = Idle \/ (op' \in OpenCall /\ op'.at = "exit" /\ op'.p = op.p)
  BY <1>1 DEF OpenFailed, OpenCall
<1>5. \A u, r : ~OpenAt(u, r)'
  BY <1>4 DEF OpenAt, Idle
<1>6. ASSUME NEW u \in Tables, NEW r \in Fds
      PROVE  SlotOK(u, r)'
  <2>1. CASE u = t /\ r = s
    <3>1. Readers(u, r)' = {}
      BY <1>1, <2>1, Frame
    <3> QED BY <1>1, <1>3, <1>5, <2>1, <3>1, SlotValues, FS_EmptySet DEF SlotOK
  <2>2. CASE ~(u = t /\ r = s)
    BY <1>1, <1>3, <1>5, <2>2, Frame
  <2> QED BY <2>1, <2>2
<1>7. ASSUME NEW n \in Nodes
      PROVE  NodeOK(n)'
  <2>1. Cardinality(Held(slot', n)) = Cardinality(Held(slot, n))
    BY <1>1, <1>3, HeldSame, SlotValues DEF HoldsNode
  <2>2. /\ OpenMore(n)' = 0
        /\ RefMore(n)' = RefMore(n) - RefOpen(n) + (leaked'[n] - leaked[n])
    <3>1. OpenMore(n)' = 0
      BY <1>4 DEF OpenMore, Idle
    <3>2. ~(op'.at \in {"vop_open", "opened"})
      BY <1>4 DEF Idle
    <3>3. Cardinality(Used) \in Nat /\ Used' = Used
      BY Finite, Part, Frame DEF Used
    <3>4. leaked[n] \in Nat /\ leaked'[n] \in Nat
      BY <1>2 DEF TypeOK
    <3>5. Leaked(n) = leaked[n] /\ Leaked(n)' = leaked'[n]
      BY <1>2 DEF TypeOK, Leaked
    <3> QED BY <3>1, <3>2, <3>3, <3>4, <3>5 DEF RefMore, RefOpen
  <2>3. NodeOK(n)
    BY Parts DEF PartsOK
  <2>4. open'[n] = open[n] - OpenMore(n) /\ ref'[n] = ref[n] - RefOpen(n) + (leaked'[n] - leaked[n])
    OBVIOUS
  <2>5. /\ RefOpen(n) \in Nat /\ Cardinality(Held(slot, n)) \in Nat
        /\ leaked[n] \in Nat /\ leaked'[n] \in Nat
    BY <1>2, HeldFinite DEF RefOpen, TypeOK
  <2> QED BY <2>1, <2>2, <2>3, <2>4, <2>5, NodeParts, NodePartsNext DEF NodeSum
<1>8. TypeOK'
  <2>1. TypeRest'
    BY <1>2, <1>3 DEF TypeOK, TypeRest
  <2> QED BY <1>7, <2>1, CountersNext
<1>9. CallOK'
  BY <1>1, <1>4 DEF CallOK, OpenCall, Idle
<1> QED
  BY <1>2, <1>6, <1>7, <1>8, <1>9, Frame, PartsNext DEF PartsOK

LEMMA LookupFailsStep ==
  ASSUME IInv, LookupFails
  PROVE  IInv'
<1>1. \A n : OpenMore(n) = 0 /\ RefOpen(n) = 0
  BY DEF LookupFails, OpenMore, RefOpen
<1>2. ref \in [Nodes -> Nat] /\ open \in [Nodes -> Nat] /\ leaked \in [Nodes -> Nat]
  BY DEF IInv, SlotsOK, TypeOK
<1>3. /\ open = [n \in Nodes |-> open[n] - OpenMore(n)]
      /\ ref = [n \in Nodes |-> ref[n] - RefOpen(n) + (leaked[n] - leaked[n])]
  BY <1>1, <1>2
<1> QED BY <1>2, <1>3, OpenFailedStep DEF LookupFails, Quiet, nodeVars

\* The reference of the lookup stays, and is counted.
LEMMA OpenExistsStep ==
  ASSUME IInv, OpenExists
  PROVE  IInv'
<1>1. ref \in [Nodes -> Nat] /\ open \in [Nodes -> Nat] /\ leaked \in [Nodes -> Nat]
  BY DEF IInv, SlotsOK, TypeOK
<1>2. op.at = "vop_open" /\ ~Quiet /\ op.node \in Nodes
  <2>1. op.at = "vop_open" /\ ~Quiet
    BY DEF OpenExists, Quiet
  <2> QED BY <2>1 DEF IInv, CallOK, Nodes
<1>3. leaked' = [leaked EXCEPT ![op.node] = @ + 1]
  BY DEF OpenExists
<1>4. leaked' \in [Nodes -> Nat]
  BY <1>1, <1>2, <1>3
<1>5. open = [n \in Nodes |-> open[n] - OpenMore(n)]
  BY <1>1, <1>2 DEF OpenMore
<1>6. ref = [n \in Nodes |-> ref[n] - RefOpen(n) + (leaked'[n] - leaked[n])]
  <2>1. ASSUME NEW n \in Nodes
        PROVE  leaked'[n] - leaked[n] = RefOpen(n) /\ RefOpen(n) \in Nat
    BY <1>1, <1>2, <1>3 DEF RefOpen
  <2>2. \A n \in Nodes : ref[n] = ref[n] - RefOpen(n) + (leaked'[n] - leaked[n])
    BY <1>1, <2>1
  <2> QED BY <1>1, <2>2
<1> QED BY <1>2, <1>4, <1>5, <1>6, OpenFailedStep DEF OpenExists, nodeVars

LEMMA VopOpenFailsStep ==
  ASSUME IInv, VopOpenFails
  PROVE  IInv'
<1>1. ref \in [Nodes -> Nat] /\ open \in [Nodes -> Nat] /\ leaked \in [Nodes -> Nat]
  BY DEF IInv, SlotsOK, TypeOK
<1>2. open = [n \in Nodes |-> open[n] - OpenMore(n)]
  BY <1>1 DEF VopOpenFails, OpenMore
<1>3. ref' = [n \in Nodes |-> ref[n] - RefOpen(n) + (leaked[n] - leaked[n])]
  <2>1. ASSUME NEW n \in Nodes
        PROVE  ref'[n] = ref[n] - RefOpen(n) + (leaked[n] - leaked[n])
    BY <1>1 DEF VopOpenFails, RefOpen
  <2>2. ref' = [n \in Nodes |-> ref'[n]]
    BY <1>1 DEF VopOpenFails
  <2> QED BY <2>1, <2>2
<1> QED BY <1>1, <1>2, <1>3, OpenFailedStep DEF VopOpenFails, Quiet

LEMMA OpenLateFailsStep ==
  ASSUME IInv, OpenLateFails
  PROVE  IInv'
<1>1. ref \in [Nodes -> Nat] /\ open \in [Nodes -> Nat] /\ leaked \in [Nodes -> Nat]
  BY DEF IInv, SlotsOK, TypeOK
<1>2. open' = [n \in Nodes |-> open[n] - OpenMore(n)]
  <2>1. ASSUME NEW n \in Nodes
        PROVE  open'[n] = open[n] - OpenMore(n)
    BY <1>1 DEF OpenLateFails, OpenMore
  <2>2. open' = [n \in Nodes |-> open'[n]]
    BY <1>1 DEF OpenLateFails
  <2> QED BY <2>1, <2>2
<1>3. ref' = [n \in Nodes |-> ref[n] - RefOpen(n) + (leaked[n] - leaked[n])]
  <2>1. ASSUME NEW n \in Nodes
        PROVE  ref'[n] = ref[n] - RefOpen(n) + (leaked[n] - leaked[n])
    BY <1>1 DEF OpenLateFails, RefOpen
  <2>2. ref' = [n \in Nodes |-> ref'[n]]
    BY <1>1 DEF OpenLateFails
  <2> QED BY <2>1, <2>2
<1> QED BY <1>1, <1>2, <1>3, OpenFailedStep DEF OpenLateFails, Quiet

\* The steps of an open that leave the tables as they are.
LEMMA OpenNodeStep ==
  ASSUME IInv, ~Quiet, UNCHANGED <<procVars, tableVars, lost, leaked, panic>>,
         op' \in OpenCall, op'.at \in {"vop_open", "opened"}, op'.node \in Devs,
         op'.p = op.p, op'.fd = op.fd,
         open' = [n \in Nodes |-> open[n] + OpenMore(n)' - OpenMore(n)],
         ref' = [n \in Nodes |-> ref[n] + RefOpen(n)' - RefOpen(n)]
  PROVE  IInv'
<1> USE DEF procVars, tableVars
<1>1. TypeOK /\ panic = FALSE
  BY Parts DEF PartsOK, TypeOK
<1>2. \A u, r : OpenAt(u, r)' <=> OpenAt(u, r)
  BY DEF OpenAt, Quiet
<1>3. \A u \in Tables, r \in Fds : SlotOK(u, r)'
  BY <1>2, Frame
<1>4. ASSUME NEW n \in Nodes
      PROVE  NodeOK(n)'
  <2>1. Cardinality(Held(slot', n)) = Cardinality(Held(slot, n))
    OBVIOUS
  <2>2. RefMore(n)' = RefMore(n) + RefOpen(n)' - RefOpen(n)
    <3>1. Cardinality(Used) \in Nat /\ Used' = Used
      BY Finite, Part, Frame DEF Used
    <3> QED BY <3>1 DEF RefMore, Leaked, RefOpen
  <2>3. NodeOK(n)
    BY Parts DEF PartsOK
  <2>4. /\ open'[n] = open[n] + OpenMore(n)' - OpenMore(n)
        /\ ref'[n] = ref[n] + RefOpen(n)' - RefOpen(n)
    OBVIOUS
  <2>5. /\ RefOpen(n) \in Nat /\ RefOpen(n)' \in Nat
        /\ Cardinality(Held(slot, n)) \in Nat
    BY HeldFinite DEF RefOpen
  <2>6. /\ open[n] = Cardinality(Held(slot, n)) + OpenMore(n)
        /\ ref[n] = Cardinality(Held(slot, n)) + RefMore(n)
        /\ OpenMore(n) \in Nat /\ RefMore(n) \in Nat
        /\ OpenMore(n)' \in Nat /\ RefMore(n)' \in Nat
    BY <2>3, NodeParts, NodePartsNext DEF NodeSum
  <2>7. /\ open'[n] = Cardinality(Held(slot, n)) + OpenMore(n)'
        /\ ref'[n] = Cardinality(Held(slot, n)) + RefMore(n)'
    BY <2>2, <2>4, <2>5, <2>6
  <2> QED BY <2>1, <2>7, NodePartsNext DEF NodeSum
<1>5. TypeOK'
  <2>1. TypeRest'
    BY <1>1 DEF TypeOK, TypeRest
  <2> QED BY <1>4, <2>1, CountersNext
<1>6. CallOK'
  BY OpenSlot DEF CallOK
<1> QED
  BY <1>1, <1>3, <1>4, <1>5, <1>6, Frame, PartsNext DEF PartsOK

LEMMA LookupStep ==
  ASSUME IInv, NEW n \in Devs, Lookup(n)
  PROVE  IInv'
<1>1. op.at = "lookup" /\ ~Quiet
  BY DEF Lookup, Quiet
<1>2. op \in OpenCall
  BY <1>1, OpenSlot
<1>3. op' = [op EXCEPT !.at = "vop_open", !.node = n]
  BY DEF Lookup
<1>4. /\ op' \in OpenCall /\ op'.at = "vop_open" /\ op'.node = n
      /\ op'.p = op.p /\ op'.fd = op.fd
  BY <1>2, <1>3 DEF OpenCall
<1>5. ref \in [Nodes -> Nat] /\ open \in [Nodes -> Nat]
  BY DEF IInv, SlotsOK, TypeOK
<1>6. open' = [m \in Nodes |-> open[m] + OpenMore(m)' - OpenMore(m)]
  BY <1>1, <1>4, <1>5 DEF Lookup, OpenMore
<1>7. ref' = [m \in Nodes |-> ref[m] + RefOpen(m)' - RefOpen(m)]
  <2>1. ASSUME NEW m \in Nodes
        PROVE  ref'[m] = ref[m] + RefOpen(m)' - RefOpen(m)
    BY <1>1, <1>4, <1>5 DEF Lookup, RefOpen
  <2>2. ref' = [m \in Nodes |-> ref'[m]]
    BY <1>5 DEF Lookup
  <2> QED BY <2>1, <2>2
<1> QED BY <1>1, <1>4, <1>6, <1>7, OpenNodeStep DEF Lookup

LEMMA VopOpenStep ==
  ASSUME IInv, VopOpen
  PROVE  IInv'
<1>1. op.at = "vop_open" /\ ~Quiet
  BY DEF VopOpen, Quiet
<1>2. op \in OpenCall /\ op.node \in Devs
  BY <1>1, OpenSlot DEF IInv, CallOK
<1>3. op' = [op EXCEPT !.at = "opened"]
  BY DEF VopOpen
<1>4. /\ op' \in OpenCall /\ op'.at = "opened" /\ op'.node = op.node
      /\ op'.p = op.p /\ op'.fd = op.fd
  BY <1>2, <1>3 DEF OpenCall
<1>5. ref \in [Nodes -> Nat] /\ open \in [Nodes -> Nat]
  BY DEF IInv, SlotsOK, TypeOK
<1>6. open' = [m \in Nodes |-> open[m] + OpenMore(m)' - OpenMore(m)]
  <2>1. ASSUME NEW m \in Nodes
        PROVE  open'[m] = open[m] + OpenMore(m)' - OpenMore(m)
    BY <1>1, <1>4, <1>5 DEF VopOpen, OpenMore
  <2>2. open' = [m \in Nodes |-> open'[m]]
    BY <1>5 DEF VopOpen
  <2> QED BY <2>1, <2>2
<1>7. ref' = [m \in Nodes |-> ref[m] + RefOpen(m)' - RefOpen(m)]
  <2>1. \A m \in Nodes : RefOpen(m)' = RefOpen(m) /\ RefOpen(m) \in Nat
    BY <1>1, <1>4 DEF RefOpen
  <2>2. \A m \in Nodes : ref[m] + RefOpen(m)' - RefOpen(m) = ref[m]
    BY <1>5, <2>1
  <2> QED BY <1>5, <2>2 DEF VopOpen
<1> QED BY <1>1, <1>2, <1>4, <1>6, <1>7, OpenNodeStep DEF VopOpen

LEMMA OpenDoneStep ==
  ASSUME IInv, NEW pos \in {0, MaxPos}, OpenDone(pos)
  PROVE  IInv'
<1> DEFINE t == filesp[op.p]
           s == op.fd
<1> USE DEF procVars, nodeVars
<1>1. op.at = "opened" /\ ~Quiet
  BY DEF OpenDone, Quiet
<1>2. /\ op \in OpenCall /\ op.p \in All /\ s \in Fds /\ state[op.p] = "run"
      /\ t \in Tables /\ files_count[t] > 0
      /\ slot[t][s].status = "INIT" /\ Readers(t, s) = {}
      /\ \A u, r : OpenAt(u, r) <=> u = t /\ r = s
  BY <1>1, OpenSlot
<1>3. TypeOK /\ panic = FALSE /\ op.node \in Devs
  BY <1>1, Parts DEF PartsOK, TypeOK, CallOK
<1>4. /\ slot' \in [Tables -> [Fds -> Slot]]
      /\ \A u \in Tables, r \in Fds :
           slot'[u][r] = IF u = t /\ r = s THEN Opened(op.node, pos) ELSE slot[u][r]
  <2>1. /\ slot \in [Tables -> [Fds -> Slot]]
        /\ slot' = [slot EXCEPT ![t][s] = Opened(op.node, pos)]
    BY <1>3 DEF TypeOK, OpenDone
  <2>2. Opened(op.node, pos) \in Slot
    <3>1. pos \in 0..MaxPos
      BY FileTableAssumption DEF FileTableAssumption
    <3> QED BY <1>3, <3>1, SlotValues
  <2> HIDE DEF t, s
  <2> QED BY <1>2, <2>1, <2>2, SetSlot
<1>5. /\ Opened(op.node, pos).status = "OPENED" /\ Opened(op.node, pos).count = 1
      /\ Opened(op.node, pos).node = op.node
  BY DEF Opened
<1>6. op' = Idle \/ (op' \in OpenCall /\ op'.at = "load" /\ op'.p = op.p /\ op'.fd = s)
  BY <1>2 DEF OpenDone, OpenCall
<1>7. \A u, r : ~OpenAt(u, r)'
  BY <1>6 DEF OpenAt, Idle
<1>8. ASSUME NEW u \in Tables, NEW r \in Fds
      PROVE  SlotOK(u, r)'
  <2>1. CASE u = t /\ r = s
    <3>1. Readers(u, r)' = {} /\ files_count' = files_count
      BY <1>2, <2>1, Frame DEF OpenDone
    <3> QED BY <1>2, <1>4, <1>5, <1>7, <2>1, <3>1, FS_EmptySet DEF SlotOK
  <2>2. CASE ~(u = t /\ r = s)
    BY <1>2, <1>4, <1>7, <2>2, Frame DEF OpenDone
  <2> QED BY <2>1, <2>2
<1>9. ASSUME NEW n \in Nodes
      PROVE  NodeOK(n)'
  <2>1. /\ Cardinality(Held(slot', n))
              = Cardinality(Held(slot, n)) + Cardinality(Named(slot', t, {s}, n))
    <3>1. Drops(slot', slot, t, {s}, n)
      BY <1>2, <1>4, <1>5 DEF Drops, HoldsNode
    <3> QED BY <3>1, HeldMore
  <2>2. Cardinality(Named(slot', t, {s}, n)) = OpenMore(n)
    <3>1. slot'[t][s].node = op.node
      BY <1>2, <1>4, <1>5
    <3>2. Cardinality(Named(slot', t, {s}, n)) = IF slot'[t][s].node = n THEN 1 ELSE 0
      BY OneSlot
    <3> QED BY <1>1, <3>1, <3>2 DEF OpenMore
  <2>3. OpenMore(n)' = 0 /\ RefMore(n)' = RefMore(n) - OpenMore(n)
    <3>1. OpenMore(n)' = 0
      BY <1>6 DEF OpenMore, Idle
    <3>2. ~(op'.at \in {"vop_open", "opened"})
      BY <1>6 DEF Idle
    <3>3. Cardinality(Used) \in Nat /\ Used' = Used
      BY Finite, Part, Frame DEF Used, OpenDone
    <3>4. Leaked(n)' = Leaked(n) /\ Leaked(n) \in Nat
      BY DEF OpenDone, Leaked
    <3> QED BY <1>1, <3>1, <3>2, <3>3, <3>4 DEF RefMore, OpenMore
  <2>4. NodeOK(n) /\ open' = open /\ ref' = ref
    BY Parts DEF PartsOK, OpenDone
  <2>5. Cardinality(Held(slot, n)) \in Nat
    BY HeldFinite
  <2> QED BY <2>1, <2>2, <2>3, <2>4, <2>5, NodeParts, NodePartsNext DEF NodeSum
<1>10. TypeOK'
  BY <1>3, <1>4 DEF TypeOK, OpenDone
<1>11. CallOK'
  <2>1. slot'[t][s].status = "OPENED" /\ filesp' = filesp
    BY <1>2, <1>4, <1>5 DEF OpenDone
  <2> QED BY <1>2, <1>6, <2>1 DEF CallOK, OpenDone, IsOpen, Idle
<1> QED
  BY <1>3, <1>8, <1>9, <1>10, <1>11, Frame, PartsNext DEF PartsOK, OpenDone

----------------------------------------------------------------------------
(* Closing *)

\* What fd_array_close makes of one slot.
LEMMA ClosedSlot ==
  ASSUME IInv, NEW t \in Tables, NEW S, S \subseteq Fds, NEW s \in Fds
  PROVE  LET f == slot[t][s]
             g == ClosedSlots(t, S)[s]
         IN  /\ s \in Freed(t, S) => f.status = "OPENED" /\ g = FD_NONE
                                     /\ Readers(t, s) = {}
             /\ s \in S /\ s \notin Freed(t, S) /\ f.status = "OPENED"
                  => /\ g.status = "CLOSED" /\ g.count = f.count - 1 /\ g.node = f.node
                     /\ Cardinality(Readers(t, s)) > 0
             /\ s \notin S \/ f.status # "OPENED" => g = f
             /\ g \in Slot
<1> DEFINE f == slot[t][s]
           g == ClosedSlots(t, S)[s]
<1>1. f \in Slot /\ SlotOK(t, s) /\ Cardinality(Readers(t, s)) \in Nat
  BY Parts, Finite, Part DEF PartsOK, TypeOK, Readers
<1>2. CASE s \in Freed(t, S)
  <2>1. f.status = "OPENED" /\ f.count = 1 /\ g = FD_NONE /\ s \in S
    BY <1>2 DEF Freed, IsOpen, ClosedSlots
  <2>2. Cardinality(Readers(t, s)) = 0
    BY <1>1, <2>1 DEF SlotOK
  <2>3. Readers(t, s) = {}
    BY <2>2, Finite, Part, FS_EmptySet DEF Readers
  <2> QED BY <1>2, <2>1, <2>3, SlotValues
<1>3. CASE s \in S /\ s \notin Freed(t, S) /\ f.status = "OPENED"
  <2>1. g = [f EXCEPT !.status = "CLOSED", !.count = @ - 1]
    BY <1>3 DEF ClosedSlots, IsOpen
  <2>2. f.count = Cardinality(Readers(t, s)) + 1 /\ f.count # 1
    BY <1>1, <1>3 DEF SlotOK, Freed, IsOpen
  <2>3. f.count - 1 \in Nat /\ Cardinality(Readers(t, s)) > 0
    BY <1>1, <2>2
  <2>4. g \in Slot /\ g.status = "CLOSED" /\ g.count = f.count - 1 /\ g.node = f.node
    BY <1>1, <2>1, <2>3 DEF Slot
  <2> QED BY <1>3, <2>3, <2>4
<1>4. CASE s \notin S \/ f.status # "OPENED"
  <2>1. s \notin Freed(t, S)
    BY <1>4 DEF Freed, IsOpen
  <2>2. g = f
    BY <1>4, <2>1 DEF ClosedSlots, IsOpen
  <2> QED BY <1>1, <1>4, <2>1, <2>2
<1> QED BY <1>2, <1>3, <1>4

\* Closing slots S of a table keeps the tables and the counters right.
LEMMA CloseCore ==
  ASSUME IInv, NEW t \in Tables, files_count[t] > 0, NEW S, S \subseteq Fds,
         slot' = [slot EXCEPT ![t] = ClosedSlots(t, S)], VfsClose(t, Freed(t, S)),
         Quiet, Quiet', UNCHANGED <<state, filesp, reading, files_count, lost, leaked>>
  PROVE  /\ \A u \in Tables, r \in Fds : SlotOK(u, r)'
         /\ \A n \in Nodes : NodeOK(n)'
         /\ slot' \in [Tables -> [Fds -> Slot]]
         /\ ref' = [n \in Nodes |-> ref'[n]] /\ open' = [n \in Nodes |-> open'[n]]
<1> DEFINE F == Freed(t, S)
<1>1. F \subseteq S /\ F \subseteq Fds
  BY DEF Freed
<1>2. /\ slot' \in [Tables -> [Fds -> Slot]]
      /\ \A u \in Tables, r \in Fds :
           slot'[u][r] = IF u = t THEN ClosedSlots(t, S)[r] ELSE slot[u][r]
  <2>1. slot \in [Tables -> [Fds -> Slot]]
    BY Parts DEF PartsOK, TypeOK
  <2>2. ClosedSlots(t, S) \in [Fds -> Slot]
    <3>1. \A s \in Fds : ClosedSlots(t, S)[s] \in Slot
      BY ClosedSlot
    <3> QED BY <3>1 DEF ClosedSlots
  <2> QED BY <2>1, <2>2, SetRow
<1>3. \A u, r : ~OpenAt(u, r) /\ ~OpenAt(u, r)'
  BY DEF OpenAt, Quiet
<1>4. ASSUME NEW u \in Tables, NEW r \in Fds
      PROVE  SlotOK(u, r)'
  <2>1. CASE slot'[u][r] = slot[u][r]
    BY <1>3, <2>1, Frame
  <2>2. CASE slot'[u][r] # slot[u][r]
    <3>1. u = t /\ slot'[u][r] = ClosedSlots(t, S)[r]
      BY <1>2, <2>2
    <3>2. r \in S /\ slot[t][r].status = "OPENED"
      BY <2>2, <3>1, ClosedSlot
    <3>3. SlotOK(u, r) /\ Readers(u, r)' = Readers(u, r)
      BY Frame, Parts DEF PartsOK
    <3>4. CASE r \in F
      <4>1. slot'[u][r] = FD_NONE /\ Readers(u, r) = {}
        BY <3>1, <3>4, ClosedSlot
      <4> QED BY <1>3, <3>3, <4>1, SlotValues, FS_EmptySet DEF SlotOK
    <3>5. CASE r \notin F
      <4>1. /\ slot'[u][r].status = "CLOSED" /\ slot'[u][r].count = slot[u][r].count - 1
            /\ slot'[u][r].node = slot[u][r].node
            /\ Cardinality(Readers(u, r)) > 0
        BY <3>1, <3>2, <3>5, ClosedSlot
      <4>2. Cardinality(Readers(u, r)) \in Nat
        BY Finite, Part DEF Readers
      <4>3. slot'[u][r].count = Cardinality(Readers(u, r))
        BY <3>1, <3>2, <3>3, <4>1, <4>2 DEF SlotOK
      <4>4. files_count'[u] # 0
        BY <3>1
      <4>5. \A p \in Readers(u, r)' : slot'[u][r].node = reading'[p].node
        BY <3>3, <4>1 DEF SlotOK
      <4>6. Cardinality(Readers(u, r)') = Cardinality(Readers(u, r))
        BY <3>3
      <4> QED BY <1>3, <4>1, <4>2, <4>3, <4>4, <4>5, <4>6 DEF SlotOK
    <3> QED BY <3>4, <3>5
  <2> QED BY <2>1, <2>2
<1>5. ASSUME NEW n \in Nodes
      PROVE  NodeOK(n)'
  <2>1. /\ Cardinality(Held(slot', n)) = Cardinality(Held(slot, n)) - Members(t, F, n)
        /\ Members(t, F, n) \in Nat
    <3>1. Drops(slot, slot', t, F, n)
      <4>1. \A s \in F : slot[t][s].status = "OPENED" /\ slot'[t][s] = FD_NONE
        BY <1>1, <1>2, ClosedSlot
      <4>2. ASSUME NEW u \in Tables, NEW r \in Fds, ~(u = t /\ r \in F)
            PROVE  HoldsNode(slot'[u][r], n) <=> HoldsNode(slot[u][r], n)
        <5>1. CASE u # t
          BY <1>2, <5>1
        <5>2. CASE u = t
          <6>1. r \notin F /\ slot'[u][r] = ClosedSlots(t, S)[r]
            BY <1>2, <4>2, <5>2
          <6>2. CASE r \in S /\ slot[t][r].status = "OPENED"
            <7>1. /\ slot'[u][r].status = "CLOSED"
                  /\ slot'[u][r].node = slot[u][r].node
              BY <5>2, <6>1, <6>2, ClosedSlot
            <7> QED BY <5>2, <6>2, <7>1 DEF HoldsNode
          <6>3. CASE ~(r \in S /\ slot[t][r].status = "OPENED")
            <7>1. slot'[u][r] = slot[u][r]
              BY <5>2, <6>1, <6>3, ClosedSlot
            <7> QED BY <7>1
          <6> QED BY <6>2, <6>3
        <5> QED BY <5>1, <5>2
      <4> QED BY <1>1, <4>1, <4>2, SlotValues DEF Drops
    <3>2. Cardinality(Named(slot, t, F, n)) = Members(t, F, n)
      BY DEF Named, Members
    <3> HIDE DEF F
    <3> QED BY <3>1, <3>2, HeldLess
  <2>2. /\ open'[n] = open[n] - Members(t, F, n)
        /\ ref'[n] = ref[n] - Members(t, F, n)
    BY DEF VfsClose
  <2>3. /\ OpenMore(n) = 0 /\ OpenMore(n)' = 0 /\ RefMore(n)' = RefMore(n)
    BY Frame DEF Quiet, OpenMore, RefMore, Leaked
  <2>4. /\ open[n] = Cardinality(Held(slot, n)) + OpenMore(n)
        /\ ref[n] = Cardinality(Held(slot, n)) + RefMore(n)
        /\ RefMore(n) \in Nat /\ Cardinality(Held(slot, n)) \in Nat
    BY Parts, NodeParts, HeldFinite DEF PartsOK, NodeSum
  <2>5. /\ open'[n] = Cardinality(Held(slot', n)) + OpenMore(n)'
        /\ ref'[n] = Cardinality(Held(slot', n)) + RefMore(n)'
    <3> HIDE DEF F
    <3> QED BY <2>1, <2>2, <2>3, <2>4
  <2> QED BY <2>5, NodePartsNext DEF NodeSum
<1>6. ref' = [n \in Nodes |-> ref'[n]] /\ open' = [n \in Nodes |-> open'[n]]
  BY DEF VfsClose
<1> QED BY <1>2, <1>4, <1>5, <1>6

LEMMA CloseStep ==
  ASSUME IInv, NEW p \in All, NEW s \in Fds, Close(p, s)
  PROVE  IInv'
<1> DEFINE t == filesp[p]
<1> USE DEF procVars
<1>1. t \in Tables /\ files_count[t] > 0
  BY Running, InUse DEF Close, Ready
<1>2. Quiet /\ Quiet' /\ op' = Idle
  BY DEF Close, Ready, Quiet, Idle
<1>3. TypeOK /\ panic = FALSE
  BY Parts DEF PartsOK, TypeOK
<1>4. /\ \A u \in Tables, r \in Fds : SlotOK(u, r)'
      /\ \A n \in Nodes : NodeOK(n)'
      /\ slot' \in [Tables -> [Fds -> Slot]]
      /\ ref' = [n \in Nodes |-> ref'[n]] /\ open' = [n \in Nodes |-> open'[n]]
  <2>1. /\ slot' = [slot EXCEPT ![t] = ClosedSlots(t, {s})]
        /\ VfsClose(t, Freed(t, {s})) /\ {s} \subseteq Fds
    BY DEF Close
  <2>2. UNCHANGED <<state, filesp, reading, files_count, lost, leaked>>
    BY DEF Close
  <2> HIDE DEF t
  <2> QED BY <1>1, <1>2, <2>1, <2>2, CloseCore
<1>5. TypeOK'
  <2>1. TypeRest'
    BY <1>3, <1>4 DEF TypeOK, TypeRest, Close
  <2> QED BY <1>4, <2>1, CountersNext
<1>6. CallOK'
  BY <1>2 DEF CallOK, Idle
<1> QED
  BY <1>3, <1>4, <1>5, <1>6, Frame, PartsNext DEF PartsOK, Close

LEMMA ExecStep ==
  ASSUME IInv, NEW p \in All, Exec(p)
  PROVE  IInv'
<1> DEFINE t == filesp[p]
<1> USE DEF procVars
<1>1. t \in Tables /\ files_count[t] > 0
  BY Running, InUse DEF Exec, Ready
<1>2. Quiet /\ Quiet' /\ op' = [at |-> "exec", p |-> p]
  BY DEF Exec, Ready, Quiet, Idle
<1>3. TypeOK /\ panic = FALSE
  BY Parts DEF PartsOK, TypeOK
<1>4. /\ \A u \in Tables, r \in Fds : SlotOK(u, r)'
      /\ \A n \in Nodes : NodeOK(n)'
      /\ slot' \in [Tables -> [Fds -> Slot]]
      /\ ref' = [n \in Nodes |-> ref'[n]] /\ open' = [n \in Nodes |-> open'[n]]
  <2>1. /\ slot' = [slot EXCEPT ![t] = ClosedSlots(t, Fds \ {0, 1})]
        /\ VfsClose(t, Freed(t, Fds \ {0, 1})) /\ Fds \ {0, 1} \subseteq Fds
    BY DEF Exec
  <2>2. UNCHANGED <<state, filesp, reading, files_count, lost, leaked>>
    BY DEF Exec
  <2> HIDE DEF t
  <2> QED BY <1>1, <1>2, <2>1, <2>2, CloseCore
<1>5. TypeOK'
  <2>1. TypeRest'
    BY <1>3, <1>4 DEF TypeOK, TypeRest, Exec
  <2> QED BY <1>4, <2>1, CountersNext
<1>6. CallOK'
  BY <1>2 DEF CallOK, ExecCall, Exec, Ready
<1> QED
  BY <1>3, <1>4, <1>5, <1>6, Frame, PartsNext DEF PartsOK, Exec

LEMMA LoadIcodeStep ==
  ASSUME IInv, NEW ok \in BOOLEAN, LoadIcode(ok)
  PROVE  IInv'
<1> DEFINE t == filesp[op.p]
<1>1. op \in OpenCall /\ op.p \in All /\ op.fd \in Fds /\ state[op.p] = "run"
  <2>1. op \in OpenCall /\ state[op.p] = "run"
    BY DEF IInv, CallOK, ExecCall, Idle, LoadIcode
  <2> QED BY <2>1 DEF OpenCall
<1>2. t \in Tables /\ files_count[t] > 0
  BY <1>1, Running, InUse
<1>3. Quiet /\ Quiet' /\ (op' = Idle \/ op' = [at |-> "exit", p |-> op.p])
  BY DEF LoadIcode, Quiet, Idle
<1>4. TypeOK /\ panic = FALSE
  BY Parts DEF PartsOK, TypeOK
<1>5. /\ \A u \in Tables, r \in Fds : SlotOK(u, r)'
      /\ \A n \in Nodes : NodeOK(n)'
      /\ slot' \in [Tables -> [Fds -> Slot]]
      /\ ref' = [n \in Nodes |-> ref'[n]] /\ open' = [n \in Nodes |-> open'[n]]
  <2>1. /\ slot' = [slot EXCEPT ![t] = ClosedSlots(t, {op.fd})]
        /\ VfsClose(t, Freed(t, {op.fd})) /\ {op.fd} \subseteq Fds
    BY <1>1 DEF LoadIcode
  <2>2. UNCHANGED <<state, filesp, reading, files_count, lost, leaked>>
    BY DEF LoadIcode
  <2> HIDE DEF t
  <2> QED BY <1>2, <1>3, <2>1, <2>2, CloseCore
<1>6. TypeOK'
  <2>1. mm' \in [All -> BOOLEAN]
    BY <1>4 DEF LoadIcode, TypeOK
  <2>2. TypeRest'
    BY <1>4, <1>5, <2>1 DEF TypeOK, TypeRest, LoadIcode
  <2> QED BY <1>5, <2>2, CountersNext
<1>7. CallOK'
  BY <1>1, <1>3 DEF CallOK, ExecCall, Idle, LoadIcode
<1>8. DeadOK'
  BY <1>1, <1>4, Parts DEF PartsOK, DeadOK, LoadIcode, TypeOK
<1>9. UNCHANGED <<state, filesp, reading, files_count, lost, leaked, panic>>
  BY DEF LoadIcode
<1> QED
  BY <1>4, <1>5, <1>6, <1>7, <1>8, <1>9, Frame, PartsNext DEF PartsOK

LEMMA ExecNoFdStep ==
  ASSUME IInv, ExecNoFd
  PROVE  IInv'
<1> USE DEF procVars, tableVars, nodeVars
<1>1. op \in ExecCall /\ op.p \in All /\ state[op.p] = "run" /\ Quiet
  <2>1. op \in ExecCall /\ state[op.p] = "run"
    BY DEF IInv, CallOK, OpenCall, Idle, ExecNoFd
  <2> QED BY <2>1 DEF ExecCall, ExecNoFd, Quiet
<1>2. op' = [at |-> "exit", p |-> op.p] /\ Quiet'
  BY DEF ExecNoFd, Quiet
<1>3. TypeOK /\ panic = FALSE
  BY Parts DEF PartsOK, TypeOK
<1>4. ASSUME NEW u \in Tables, NEW r \in Fds
      PROVE  SlotOK(u, r)'
  <2>1. ~OpenAt(u, r) /\ ~OpenAt(u, r)'
    BY <1>1, <1>2 DEF OpenAt, Quiet
  <2> QED BY <2>1, Frame DEF ExecNoFd
<1>5. ASSUME NEW n \in Nodes
      PROVE  NodeOK(n)'
  <2>1. OpenMore(n)' = OpenMore(n) /\ RefMore(n)' = RefMore(n)
    BY <1>1, <1>2, Frame DEF Quiet, OpenMore, RefMore, Leaked, ExecNoFd
  <2>2. NodeOK(n) /\ UNCHANGED <<slot, ref, open>>
    BY Parts DEF PartsOK, ExecNoFd
  <2> QED BY <2>1, <2>2, NodeParts, NodePartsNext DEF NodeSum
<1>6. TypeOK'
  BY <1>3 DEF TypeOK, ExecNoFd
<1>7. CallOK'
  BY <1>1, <1>2 DEF CallOK, ExecCall, ExecNoFd
<1> QED
  BY <1>3, <1>4, <1>5, <1>6, <1>7, Frame, PartsNext DEF PartsOK, ExecNoFd

----------------------------------------------------------------------------
(* Duplicating, moving, reading *)

LEMMA DupStep ==
  ASSUME IInv, NEW p \in All, NEW s \in Fds, NEW r \in Fds, Dup(p, s, r)
  PROVE  IInv'
<1> DEFINE t == filesp[p]
           n == slot[t][s].node
           pos == slot[t][s].pos
<1> USE DEF procVars
<1>1. t \in Tables /\ files_count[t] > 0
  BY Running, InUse DEF Dup, Ready
<1>2. TypeOK /\ panic = FALSE /\ Quiet /\ op = Idle /\ op' = Idle
  BY Parts DEF PartsOK, TypeOK, Dup, Ready, Quiet, Idle
<1>3. n \in Devs \cup {NULL} /\ pos \in 0..MaxPos
  BY <1>1, <1>2 DEF TypeOK, Slot
<1>4. /\ slot' \in [Tables -> [Fds -> Slot]]
      /\ \A u \in Tables, q \in Fds :
           slot'[u][q] = IF u = t /\ q = r THEN Opened(n, pos) ELSE slot[u][q]
  <2>1. slot \in [Tables -> [Fds -> Slot]] /\ slot' = [slot EXCEPT ![t][r] = Opened(n, pos)]
    BY <1>2 DEF TypeOK, Dup
  <2>2. Opened(n, pos) \in Slot
    BY <1>3, SlotValues
  <2> HIDE DEF t, n, pos
  <2> QED BY <1>1, <2>1, <2>2, SetSlot
<1>5. /\ Opened(n, pos).status = "OPENED" /\ Opened(n, pos).count = 1
      /\ Opened(n, pos).node = n
  BY DEF Opened
<1>6. slot[t][r].status = "NONE" /\ slot[t][r].count = 0 /\ Readers(t, r) = {}
  <2>1. slot[t][r].status = "NONE" /\ SlotOK(t, r)
    BY <1>1, Parts DEF PartsOK, Dup
  <2>2. slot[t][r].count = 0 /\ Cardinality(Readers(t, r)) = 0
    BY <2>1 DEF SlotOK
  <2> QED BY <2>1, <2>2, Finite, Part, FS_EmptySet DEF Readers
<1>7. /\ UNCHANGED <<state, mm, filesp, reading, files_count, lost, leaked>> /\ panic' = FALSE
      /\ ref' = [ref EXCEPT ![n] = @ + 1] /\ open' = [open EXCEPT ![n] = @ + 1]
  BY <1>6 DEF Dup, AllocAssert
<1>8. \A u, q : ~OpenAt(u, q) /\ ~OpenAt(u, q)'
  BY <1>2 DEF OpenAt, Idle
<1>9. ASSUME NEW u \in Tables, NEW q \in Fds
      PROVE  SlotOK(u, q)'
  <2>1. CASE u = t /\ q = r
    <3>1. Readers(u, q)' = {}
      BY <1>6, <1>7, <2>1, Frame
    <3> QED BY <1>1, <1>4, <1>5, <1>7, <1>8, <2>1, <3>1, FS_EmptySet DEF SlotOK
  <2>2. CASE ~(u = t /\ q = r)
    BY <1>4, <1>7, <1>8, <2>2, Frame
  <2> QED BY <2>1, <2>2
<1>10. ASSUME NEW m \in Nodes
       PROVE  NodeOK(m)'
  <2> DEFINE one == IF n = m THEN 1 ELSE 0
  <2>1. Cardinality(Held(slot', m)) = Cardinality(Held(slot, m)) + one
    <3>1. Drops(slot', slot, t, {r}, m)
      BY <1>1, <1>4, <1>5, <1>6 DEF Drops, HoldsNode
    <3>2. slot'[t][r].node = n
      BY <1>1, <1>4, <1>5
    <3>3. Cardinality(Named(slot', t, {r}, m)) = IF slot'[t][r].node = m THEN 1 ELSE 0
      BY OneSlot
    <3>4. Cardinality(Held(slot', m))
            = Cardinality(Held(slot, m)) + Cardinality(Named(slot', t, {r}, m))
      BY <3>1, HeldMore
    <3> QED BY <3>2, <3>3, <3>4
  <2>2. open'[m] = open[m] + one /\ ref'[m] = ref[m] + one
    <3>1. open[m] \in Nat /\ ref[m] \in Nat
      BY <1>2 DEF TypeOK
    <3> QED BY <1>2, <1>7, <3>1 DEF TypeOK
  <2>3. OpenMore(m)' = OpenMore(m) /\ RefMore(m)' = RefMore(m)
    BY <1>2, <1>7, Frame DEF OpenMore, RefMore, Leaked
  <2>4. /\ open[m] = Cardinality(Held(slot, m)) + OpenMore(m)
        /\ ref[m] = Cardinality(Held(slot, m)) + RefMore(m)
        /\ OpenMore(m) \in Nat /\ RefMore(m) \in Nat
        /\ Cardinality(Held(slot, m)) \in Nat
    BY Parts, NodeParts, HeldFinite DEF PartsOK, NodeSum
  <2>5. /\ open'[m] = Cardinality(Held(slot', m)) + OpenMore(m)'
        /\ ref'[m] = Cardinality(Held(slot', m)) + RefMore(m)'
    BY <2>1, <2>2, <2>3, <2>4
  <2> QED BY <2>5, NodePartsNext DEF NodeSum
<1>11. TypeOK'
  <2>1. TypeRest'
    BY <1>2, <1>4, <1>7 DEF TypeOK, TypeRest
  <2>2. ref' = [m \in Nodes |-> ref'[m]] /\ open' = [m \in Nodes |-> open'[m]]
    BY <1>2, <1>7 DEF TypeOK
  <2> QED BY <1>10, <2>1, <2>2, CountersNext
<1>12. CallOK'
  BY <1>2 DEF CallOK, Idle
<1> QED
  BY <1>7, <1>9, <1>10, <1>11, <1>12, Frame, PartsNext DEF PartsOK

LEMMA MoveStep ==
  ASSUME IInv, NEW p \in All, NEW s \in Fds, NEW pos \in 0..MaxPos, Move(p, s, pos)
  PROVE  IInv'
<1> DEFINE t == filesp[p]
           x == [slot[t][s] EXCEPT !.pos = pos]
<1> USE DEF procVars, nodeVars
<1>1. t \in Tables /\ files_count[t] > 0
  BY Running, InUse DEF Move, Ready
<1>2. TypeOK /\ panic = FALSE /\ op = Idle /\ op' = Idle
  BY Parts DEF PartsOK, TypeOK, Move, Ready, Idle
<1>3. /\ x \in Slot /\ x.status = slot[t][s].status /\ x.count = slot[t][s].count
      /\ x.node = slot[t][s].node /\ slot[t][s].status = "OPENED"
  <2>1. slot[t][s] \in Slot
    BY <1>1, <1>2 DEF TypeOK
  <2> QED BY <2>1 DEF Slot, Move, IsOpen
<1>4. /\ slot' \in [Tables -> [Fds -> Slot]]
      /\ \A u \in Tables, q \in Fds :
           slot'[u][q] = IF u = t /\ q = s THEN x ELSE slot[u][q]
  <2>1. slot \in [Tables -> [Fds -> Slot]] /\ slot' = [slot EXCEPT ![t][s] = x]
    BY <1>2 DEF TypeOK, Move
  <2> HIDE DEF t, x
  <2> QED BY <1>1, <1>3, <2>1, SetSlot
<1>5. UNCHANGED <<state, mm, filesp, reading, files_count, ref, open, lost, leaked, panic>>
  BY DEF Move
<1>6. \A u, q : ~OpenAt(u, q) /\ ~OpenAt(u, q)'
  BY <1>2 DEF OpenAt, Idle
<1>7. ASSUME NEW u \in Tables, NEW q \in Fds
      PROVE  SlotOK(u, q)'
  <2>1. CASE u = t /\ q = s
    <3>1. Readers(u, q)' = Readers(u, q) /\ SlotOK(u, q)
      BY <1>5, Frame, Parts DEF PartsOK
    <3>2. /\ slot'[u][q].status = slot[u][q].status
          /\ slot'[u][q].count = slot[u][q].count
          /\ slot'[u][q].node = slot[u][q].node
          /\ files_count'[u] # 0 /\ reading' = reading
      <4> HIDE DEF x
      <4>1. slot'[u][q] = x /\ slot[u][q] = slot[t][s] /\ files_count'[u] > 0
        BY <1>1, <1>4, <1>5, <2>1
      <4> QED BY <1>3, <1>5, <4>1
    <3> QED BY <1>6, <3>1, <3>2 DEF SlotOK
  <2>2. CASE ~(u = t /\ q = s)
    BY <1>4, <1>5, <1>6, <2>2, Frame
  <2> QED BY <2>1, <2>2
<1>8. ASSUME NEW m \in Nodes
      PROVE  NodeOK(m)'
  <2>1. Cardinality(Held(slot', m)) = Cardinality(Held(slot, m))
    <3>1. \A u \in Tables, q \in Fds :
            HoldsNode(slot'[u][q], m) <=> HoldsNode(slot[u][q], m)
      BY <1>3, <1>4 DEF HoldsNode
    <3> QED BY <3>1, HeldSame
  <2>2. OpenMore(m)' = OpenMore(m) /\ RefMore(m)' = RefMore(m)
    BY <1>2, <1>5, Frame DEF OpenMore, RefMore, Leaked
  <2>3. NodeOK(m)
    BY Parts DEF PartsOK
  <2> QED BY <1>5, <2>1, <2>2, <2>3, NodeParts, NodePartsNext DEF NodeSum
<1>9. TypeOK'
  BY <1>2, <1>4, <1>5 DEF TypeOK
<1>10. CallOK'
  BY <1>2 DEF CallOK, Idle
<1> QED
  BY <1>2, <1>5, <1>7, <1>8, <1>9, <1>10, Frame, PartsNext DEF PartsOK

\* Falling asleep and waking up leave the references to tables as they are.
LEMMA SleepFrame ==
  ASSUME IInv, UNCHANGED <<mm, filesp, files_count, lost, leaked, op>>, op = Idle,
         NEW p \in All, state[p] \in {"run", "asleep"}, NEW st \in {"run", "asleep"},
         state' = [state EXCEPT ![p] = st],
         \A q \in All \ {p} : reading'[q] = reading[q],
         st = "asleep" <=> reading'[p] # NoRead
  PROVE  /\ \A t \in Tables : TableOK(t)'
         /\ HasTable' /\ DeadOK' /\ CallOK' /\ ProcOK'
         /\ Used' = Used
         /\ \A n : OpenMore(n)' = OpenMore(n) /\ RefMore(n)' = RefMore(n)
         /\ \A u, r : ~OpenAt(u, r) /\ ~OpenAt(u, r)'
<1>1. \A q \in All : state'[q] = IF q = p THEN st ELSE state[q]
  BY Parts DEF PartsOK, TypeOK
<1>2. \A t \in Tables : TableOK(t)'
  BY Parts DEF PartsOK, TableOK, Users
<1>3. HasTable'
  BY <1>1, Parts DEF PartsOK, HasTable
<1>4. DeadOK'
  BY <1>1, Parts DEF PartsOK, DeadOK
<1>5. ProcOK'
  BY <1>1, Parts DEF PartsOK, ProcOK
<1>6. CallOK'
  BY DEF CallOK, Idle
<1>7. Used' = Used
  BY DEF Used
<1>8. \A n : OpenMore(n)' = OpenMore(n) /\ RefMore(n)' = RefMore(n)
  BY <1>7 DEF OpenMore, RefMore, Leaked
<1>9. \A u, r : ~OpenAt(u, r) /\ ~OpenAt(u, r)'
  BY DEF OpenAt, Idle
<1> QED BY <1>2, <1>3, <1>4, <1>5, <1>6, <1>7, <1>8, <1>9

LEMMA ReadSleepStep ==
  ASSUME IInv, NEW p \in All, NEW s \in Fds, ReadSleep(p, s)
  PROVE  IInv'
<1> DEFINE t == filesp[p]
           f == slot[t][s]
           x == [f EXCEPT !.count = @ + 1]
<1> USE DEF nodeVars
<1>1. t \in Tables /\ files_count[t] > 0 /\ state[p] = "run"
  BY Running, InUse DEF ReadSleep, Ready
<1>2. TypeOK /\ panic = FALSE /\ op = Idle /\ f \in Slot /\ SlotOK(t, s)
  BY <1>1, Parts DEF PartsOK, TypeOK, ReadSleep, Ready
<1>3. f.status = "OPENED" /\ f.node = stdin
  BY DEF ReadSleep, IsOpen
<1>4. x \in Slot /\ x.status = "OPENED" /\ x.count = f.count + 1 /\ x.node = stdin
  BY <1>2, <1>3 DEF Slot
<1>5. /\ slot' \in [Tables -> [Fds -> Slot]]
      /\ \A u \in Tables, q \in Fds :
           slot'[u][q] = IF u = t /\ q = s THEN x ELSE slot[u][q]
  <2>1. slot \in [Tables -> [Fds -> Slot]] /\ slot' = [slot EXCEPT ![t][s] = x]
    BY <1>2 DEF TypeOK, ReadSleep
  <2> HIDE DEF t, f, x
  <2> QED BY <1>1, <1>4, <2>1, SetSlot
<1>6. /\ UNCHANGED <<mm, filesp, files_count, ref, open, op, lost, leaked, panic>>
      /\ state' = [state EXCEPT ![p] = "asleep"]
  BY DEF ReadSleep
<1>7. /\ reading[p] = NoRead
      /\ \A q \in All : reading'[q] = IF q = p THEN [fd |-> s, node |-> stdin]
                                      ELSE reading[q]
      /\ [fd |-> s, node |-> stdin] # NoRead
  <2>1. reading[p] = NoRead
    BY <1>1, Parts DEF PartsOK, ProcOK
  <2>2. reading' = [reading EXCEPT ![p] = [fd |-> s, node |-> stdin]]
    BY DEF ReadSleep
  <2>3. s # -1
    BY FileTableAssumption DEF Fds, FileTableAssumption
  <2> QED BY <1>2, <2>1, <2>2, <2>3 DEF TypeOK, NoRead
<1>8. /\ \A u \in Tables : TableOK(u)'
      /\ HasTable' /\ DeadOK' /\ CallOK' /\ ProcOK'
      /\ \A n : OpenMore(n)' = OpenMore(n) /\ RefMore(n)' = RefMore(n)
      /\ \A u, q : ~OpenAt(u, q) /\ ~OpenAt(u, q)'
  <2>1. \A q \in All \ {p} : reading'[q] = reading[q]
    BY <1>7
  <2>2. reading'[p] # NoRead
    BY <1>7
  <2> QED BY <1>1, <1>2, <1>6, <2>1, <2>2, SleepFrame
<1>9. ASSUME NEW u \in Tables, NEW q \in Fds, u = t /\ q = s
      PROVE  p \notin Readers(u, q) /\ Readers(u, q)' = Readers(u, q) \cup {p}
  <2>1. q # -1
    BY FileTableAssumption DEF Fds, FileTableAssumption
  <2> QED BY <1>6, <1>7, <1>9, <2>1 DEF Readers, NoRead
<1>10. ASSUME NEW u \in Tables, NEW q \in Fds, ~(u = t /\ q = s)
       PROVE  Readers(u, q)' = Readers(u, q)
  <2>1. q # -1
    BY FileTableAssumption DEF Fds, FileTableAssumption
  <2> QED BY <1>6, <1>7, <1>10, <2>1 DEF Readers, NoRead
<1>11. ASSUME NEW u \in Tables, NEW q \in Fds
       PROVE  SlotOK(u, q)'
  <2>1. CASE u = t /\ q = s
    <3>1. IsFiniteSet(Readers(u, q)) /\ Cardinality(Readers(u, q)) \in Nat
      BY Finite, Part DEF Readers
    <3>2. /\ Readers(u, q)' = Readers(u, q) \cup {p}
          /\ Cardinality(Readers(u, q)') = Cardinality(Readers(u, q)) + 1
      BY <1>9, <2>1, <3>1, Plus
    <3>3. /\ slot[u][q].count = Cardinality(Readers(u, q)) + 1
          /\ \A z \in Readers(u, q) : reading[z].node = stdin
      BY <1>2, <1>3, <2>1 DEF SlotOK
    <3>4. \A z \in Readers(u, q)' : reading'[z].node = stdin
      BY <1>7, <3>2, <3>3 DEF Readers
    <3>5. /\ slot'[u][q].status = "OPENED" /\ slot'[u][q].node = stdin
          /\ slot'[u][q].count = Cardinality(Readers(u, q)') + 1
          /\ files_count'[u] # 0
      <4> HIDE DEF x
      <4>1. slot'[u][q] = x /\ slot[u][q] = f /\ files_count'[u] > 0
        BY <1>1, <1>5, <1>6, <2>1
      <4> HIDE DEF f
      <4> QED BY <1>4, <3>1, <3>2, <3>3, <4>1
    <3> QED BY <1>8, <3>4, <3>5 DEF SlotOK
  <2>2. CASE ~(u = t /\ q = s)
    <3>1. slot'[u][q] = slot[u][q] /\ Readers(u, q)' = Readers(u, q) /\ SlotOK(u, q)
      BY <1>5, <1>10, <2>2, Parts DEF PartsOK
    <3>2. \A z \in Readers(u, q) : reading'[z] = reading[z]
      <4>1. p \notin Readers(u, q)
        <5>1. q # -1
          BY FileTableAssumption DEF Fds, FileTableAssumption
        <5> QED BY <1>7, <5>1 DEF Readers, NoRead
      <4> QED BY <1>7, <4>1 DEF Readers
    <3> QED BY <1>6, <1>8, <3>1, <3>2 DEF SlotOK
  <2> QED BY <2>1, <2>2
<1>12. ASSUME NEW m \in Nodes
       PROVE  NodeOK(m)'
  <2>1. Cardinality(Held(slot', m)) = Cardinality(Held(slot, m))
    <3>1. \A u \in Tables, q \in Fds :
            HoldsNode(slot'[u][q], m) <=> HoldsNode(slot[u][q], m)
      BY <1>3, <1>4, <1>5 DEF HoldsNode
    <3> QED BY <3>1, HeldSame
  <2>2. NodeOK(m)
    BY Parts DEF PartsOK
  <2> QED BY <1>6, <1>8, <2>1, <2>2, NodeParts, NodePartsNext DEF NodeSum
<1>13. TypeOK'
  <2>1. state' \in [All -> {"none", "run", "asleep", "zombie"}]
    BY <1>2, <1>6 DEF TypeOK
  <2>2. reading' \in [All -> [fd : Fds, node : Devs] \cup {NoRead}]
    <3>1. [fd |-> s, node |-> stdin] \in [fd : Fds, node : Devs]
      BY DEF Devs
    <3> QED BY <1>2, <3>1 DEF TypeOK, ReadSleep
  <2> QED BY <1>2, <1>5, <1>6, <2>1, <2>2 DEF TypeOK
<1> QED
  BY <1>2, <1>6, <1>8, <1>11, <1>12, <1>13, PartsNext DEF PartsOK

LEMMA ReadReturnStep ==
  ASSUME IInv, NEW p \in All, NEW pos \in 0..MaxPos, ReadReturn(p, pos)
  PROVE  IInv'
<1> DEFINE t == filesp[p]
           s == reading[p].fd
           f == slot[t][s]
           x == Released(f, pos)
<1>1. t \in Tables /\ files_count[t] > 0 /\ state[p] = "asleep"
  BY Running, InUse DEF ReadReturn
<1>2. TypeOK /\ panic = FALSE /\ op = Idle
  BY Parts DEF PartsOK, TypeOK, ReadReturn
<1>3. s \in Fds /\ reading[p] # NoRead
  <2>1. reading[p] # NoRead
    BY <1>1, Parts DEF PartsOK, ProcOK
  <2>2. reading[p] \in [fd : Fds, node : Devs]
    BY <1>2, <2>1 DEF TypeOK
  <2> QED BY <2>1, <2>2
<1>4. f \in Slot /\ SlotOK(t, s)
  BY <1>1, <1>2, <1>3, Parts DEF PartsOK, TypeOK
<1>5. p \in Readers(t, s) /\ IsFiniteSet(Readers(t, s)) /\ Cardinality(Readers(t, s)) \in Nat
  BY Finite, Part DEF Readers
<1>6. Cardinality(Readers(t, s)) > 0
  <2> HIDE DEF t, s
  <2> QED BY <1>5, FS_EmptySet
<1>7. /\ \/ f.status = "OPENED" /\ f.count = Cardinality(Readers(t, s)) + 1
         \/ f.status = "CLOSED" /\ f.count = Cardinality(Readers(t, s))
      /\ f.count > 0 /\ f.count \in Nat
      /\ f.count = 1 => f.status = "CLOSED" /\ Cardinality(Readers(t, s)) = 1
  <2>1. f.status \in {"OPENED", "CLOSED"}
    BY <1>4, <1>6 DEF SlotOK, Slot
  <2>2. \/ f.status = "OPENED" /\ f.count = Cardinality(Readers(t, s)) + 1
        \/ f.status = "CLOSED" /\ f.count = Cardinality(Readers(t, s))
    BY <1>4, <1>5, <2>1 DEF SlotOK
  <2> HIDE DEF f, t, s
  <2> QED BY <1>5, <1>6, <2>2
<1>8. /\ UNCHANGED <<mm, filesp, files_count, op, lost, leaked>> /\ panic' = FALSE
      /\ state' = [state EXCEPT ![p] = "run"]
  BY <1>7 DEF ReadReturn
<1>9. \A q \in All : reading'[q] = IF q = p THEN NoRead ELSE reading[q]
  BY <1>2 DEF ReadReturn, TypeOK
<1>10. /\ x \in Slot
       /\ f.count = 1 => x = FD_NONE
       /\ f.count # 1 => /\ x.status = f.status /\ x.node = f.node
                         /\ x.count = f.count - 1
  <2>1. CASE f.count = 1
    BY <2>1, SlotValues DEF Released
  <2>2. CASE f.count # 1
    <3>1. x = [f EXCEPT !.count = @ - 1, !.pos = IF f.status = "OPENED" THEN pos ELSE @]
      BY <2>2 DEF Released
    <3>2. f.count - 1 \in Nat
      BY <1>7
    <3> HIDE DEF f
    <3> QED BY <1>4, <2>2, <3>1, <3>2 DEF Slot
  <2> QED BY <2>1, <2>2
<1>11. /\ slot' \in [Tables -> [Fds -> Slot]]
       /\ \A u \in Tables, q \in Fds :
            slot'[u][q] = IF u = t /\ q = s THEN x ELSE slot[u][q]
  <2>1. slot \in [Tables -> [Fds -> Slot]] /\ slot' = [slot EXCEPT ![t][s] = x]
    BY <1>2 DEF TypeOK, ReadReturn
  <2>2. x \in Slot
    BY <1>10
  <2> HIDE DEF t, s, f, x
  <2> QED BY <1>1, <1>3, <2>1, <2>2, SetSlot
<1>12. /\ \A u \in Tables : TableOK(u)'
       /\ HasTable' /\ DeadOK' /\ CallOK' /\ ProcOK'
       /\ \A n : OpenMore(n)' = OpenMore(n) /\ RefMore(n)' = RefMore(n)
       /\ \A u, q : ~OpenAt(u, q) /\ ~OpenAt(u, q)'
  <2>1. \A q \in All \ {p} : reading'[q] = reading[q]
    BY <1>9
  <2>2. reading'[p] = NoRead
    BY <1>9
  <2> QED BY <1>1, <1>2, <1>8, <2>1, <2>2, SleepFrame
<1>13. ASSUME NEW u \in Tables, NEW q \in Fds
       PROVE  Readers(u, q)' = IF u = t /\ q = s THEN Readers(u, q) \ {p} ELSE Readers(u, q)
  <2>1. q # -1
    BY FileTableAssumption DEF Fds, FileTableAssumption
  <2> QED BY <1>8, <1>9, <2>1 DEF Readers, NoRead
<1>14. ASSUME NEW u \in Tables, NEW q \in Fds
       PROVE  SlotOK(u, q)'
  <2>0. SlotOK(u, q)
    BY Parts DEF PartsOK
  <2>1. CASE u = t /\ q = s
    <3>1. /\ Readers(u, q)' = Readers(u, q) \ {p} /\ p \in Readers(u, q)
          /\ IsFiniteSet(Readers(u, q))
      BY <1>5, <1>13, <2>1
    <3>2. Cardinality(Readers(u, q)') = Cardinality(Readers(u, q)) - 1
      BY <3>1, Minus
    <3>3. slot'[u][q] = x /\ slot[u][q] = f /\ files_count'[u] # 0
      <4> HIDE DEF x
      <4> QED BY <1>1, <1>8, <1>11, <2>1
    <3>4. \A z \in Readers(u, q)' : z # p /\ z \in Readers(u, q) /\ reading'[z] = reading[z]
      BY <1>9, <3>1 DEF Readers
    <3>5. Cardinality(Readers(u, q)) = Cardinality(Readers(t, s))
      BY <2>1
    <3>6. CASE f.count = 1
      <4>1. Cardinality(Readers(u, q)') = 0 /\ slot'[u][q] = FD_NONE
        BY <1>7, <1>10, <3>2, <3>3, <3>5, <3>6
      <4>2. Readers(u, q)' = {}
        <5>1. IsFiniteSet(Readers(u, q)')
          BY <3>1, FS_RemoveElement
        <5> QED BY <4>1, <5>1, FS_EmptySet
      <4> QED BY <1>12, <4>1, <4>2, SlotValues DEF SlotOK
    <3>7. CASE f.count # 1
      <4>1. /\ slot'[u][q].status = slot[u][q].status
            /\ slot'[u][q].node = slot[u][q].node
            /\ slot'[u][q].count = slot[u][q].count - 1
        <5> HIDE DEF x, f
        <5> QED BY <1>10, <3>3, <3>7
      <4>2. \/ /\ slot[u][q].status = "OPENED"
               /\ slot'[u][q].count = Cardinality(Readers(u, q)') + 1
            \/ /\ slot[u][q].status = "CLOSED"
               /\ slot'[u][q].count = Cardinality(Readers(u, q)')
               /\ Cardinality(Readers(u, q)') > 0
        <5> HIDE DEF x, f, t, s
        <5> QED BY <1>5, <1>7, <3>2, <3>3, <3>5, <3>7, <4>1
      <4>3. \A z \in Readers(u, q)' : slot'[u][q].node = reading'[z].node
        BY <2>0, <3>4, <4>1 DEF SlotOK
      <4>4. Cardinality(Readers(u, q)') \in Nat /\ files_count'[u] # 0
        BY <3>1, <3>3, FS_RemoveElement, FS_CardinalityType
      <4> QED BY <1>12, <4>1, <4>2, <4>3, <4>4 DEF SlotOK
    <3> QED BY <3>6, <3>7
  <2>2. CASE ~(u = t /\ q = s)
    <3>1. slot'[u][q] = slot[u][q] /\ Readers(u, q)' = Readers(u, q)
      BY <1>11, <1>13, <2>2
    <3>2. \A z \in Readers(u, q) : reading'[z] = reading[z]
      BY <1>9, <2>2 DEF Readers
    <3> QED BY <1>8, <1>12, <2>0, <3>1, <3>2 DEF SlotOK
  <2> QED BY <2>1, <2>2
<1>15. ASSUME NEW m \in Nodes
       PROVE  NodeOK(m)'
  <2>1. /\ open[m] = Cardinality(Held(slot, m)) + OpenMore(m)
        /\ ref[m] = Cardinality(Held(slot, m)) + RefMore(m)
        /\ OpenMore(m) \in Nat /\ RefMore(m) \in Nat
        /\ Cardinality(Held(slot, m)) \in Nat
    BY Parts, NodeParts, HeldFinite DEF PartsOK, NodeSum
  <2>2. CASE f.count = 1
    <3>1. VfsClose(t, {s})
      BY <2>2 DEF ReadReturn
    <3>2. Drops(slot, slot', t, {s}, m)
      <4>1. slot'[t][s] = FD_NONE
        BY <1>1, <1>3, <1>10, <1>11, <2>2
      <4> HIDE DEF x
      <4> QED BY <1>1, <1>3, <1>7, <1>11, <2>2, <4>1, SlotValues DEF Drops, HoldsNode
    <3>3. /\ Cardinality(Held(slot', m)) = Cardinality(Held(slot, m)) - Members(t, {s}, m)
          /\ Members(t, {s}, m) \in Nat
      <4>1. Cardinality(Named(slot, t, {s}, m)) = Members(t, {s}, m)
        BY DEF Named, Members
      <4> HIDE DEF t, s
      <4> QED BY <3>2, <4>1, HeldLess
    <3>4. /\ open'[m] = open[m] - Members(t, {s}, m)
          /\ ref'[m] = ref[m] - Members(t, {s}, m)
      BY <3>1 DEF VfsClose
    <3>5. /\ open'[m] = Cardinality(Held(slot', m)) + OpenMore(m)'
          /\ ref'[m] = Cardinality(Held(slot', m)) + RefMore(m)'
      <4> HIDE DEF t, s
      <4> QED BY <1>12, <2>1, <3>3, <3>4
    <3> QED BY <3>5, NodePartsNext DEF NodeSum
  <2>3. CASE f.count # 1
    <3>1. Cardinality(Held(slot', m)) = Cardinality(Held(slot, m))
      <4>1. x.status = f.status /\ x.node = f.node
        BY <1>10, <2>3
      <4>2. \A u \in Tables, q \in Fds :
              HoldsNode(slot'[u][q], m) <=> HoldsNode(slot[u][q], m)
        <5> HIDE DEF x
        <5> QED BY <1>11, <4>1 DEF HoldsNode
      <4> QED BY <4>2, HeldSame
    <3>2. open' = open /\ ref' = ref
      BY <2>3 DEF ReadReturn, nodeVars
    <3> QED BY <1>12, <2>1, <3>1, <3>2, NodePartsNext DEF NodeSum
  <2> QED BY <2>2, <2>3
<1>16. TypeOK'
  <2>1. state' \in [All -> {"none", "run", "asleep", "zombie"}]
    BY <1>2, <1>8 DEF TypeOK
  <2>2. reading' \in [All -> [fd : Fds, node : Devs] \cup {NoRead}]
    BY <1>2 DEF TypeOK, ReadReturn
  <2>3. TypeRest'
    BY <1>2, <1>8, <1>11, <2>1, <2>2 DEF TypeOK, TypeRest
  <2>4. ref' = [n \in Nodes |-> ref'[n]] /\ open' = [n \in Nodes |-> open'[n]]
    BY <1>2 DEF TypeOK, ReadReturn, VfsClose, nodeVars
  <2> QED BY <1>15, <2>3, <2>4, CountersNext
<1> QED
  BY <1>8, <1>12, <1>14, <1>15, <1>16, PartsNext DEF PartsOK

----------------------------------------------------------------------------
(* fork, exit and wait *)

\* A process that is not in a read comes to a table or leaves it.
LEMMA SameReaders ==
  ASSUME IInv, NEW p \in All, state[p] # "asleep", reading' = reading,
         \A q \in All \ {p} : filesp'[q] = filesp[q]
  PROVE  \A u \in Tables, r \in Fds : Readers(u, r)' = Readers(u, r)
<1>1. reading[p] = NoRead
  BY Parts DEF PartsOK, ProcOK
<1>2. \A r \in Fds : r # -1
  BY FileTableAssumption DEF Fds, FileTableAssumption
<1> QED BY <1>1, <1>2 DEF Readers, NoRead

LEMMA SlotKept ==
  ASSUME IInv, reading' = reading, Quiet, Quiet', NEW u \in Tables, NEW r \in Fds,
         Readers(u, r)' = Readers(u, r), slot'[u][r] = slot[u][r],
         files_count'[u] = 0 => files_count[u] = 0
  PROVE  SlotOK(u, r)'
<1>1. SlotOK(u, r) /\ ~OpenAt(u, r) /\ ~OpenAt(u, r)'
  BY Parts DEF PartsOK, OpenAt, Quiet
<1> QED BY <1>1 DEF SlotOK

LEMMA CountsKept ==
  ASSUME IInv, UNCHANGED <<slot, ref, open, leaked>>, Used' = Used, Quiet, Quiet'
  PROVE  \A n \in Nodes : NodeOK(n)'
<1> TAKE n \in Nodes
<1>1. OpenMore(n)' = OpenMore(n) /\ RefMore(n)' = RefMore(n)
  BY DEF OpenMore, RefMore, Leaked, Quiet
<1>2. NodeOK(n)
  BY Parts DEF PartsOK
<1> QED BY <1>1, <1>2, NodeParts, NodePartsNext DEF NodeSum

\* The new process of a fork, whichever table it gets.
LEMMA NewProcStep ==
  ASSUME IInv, NEW p \in All, NEW c \in Procs, NEW t \in Tables, NewProc(p, c, t)
  PROVE  /\ c \in All /\ state[c] = "none" /\ filesp[c] = NULL
         /\ filesp[p] \in Tables /\ files_count[filesp[p]] > 0
         /\ op = Idle /\ op' = Idle /\ Quiet /\ Quiet'
         /\ UNCHANGED <<reading, lost, leaked>> /\ panic' = FALSE
         /\ \A q \in All : filesp'[q] = IF q = c THEN t ELSE filesp[q]
         /\ \A u \in Tables : Users(u)' = IF u = t THEN Users(u) \cup {c} ELSE Users(u)
         /\ c \notin Users(t)
         /\ \A u \in Tables, r \in Fds : Readers(u, r)' = Readers(u, r)
         /\ HasTable' /\ DeadOK' /\ CallOK' /\ ProcOK'
         /\ state' \in [All -> {"none", "run", "asleep", "zombie"}]
         /\ mm' \in [All -> BOOLEAN] /\ filesp' \in [All -> Tables \cup {NULL}]
<1>1. c \in All /\ state[c] = "none" /\ filesp[c] = NULL
  BY Parts DEF PartsOK, ProcOK, NewProc, All
<1>2. filesp[p] \in Tables /\ files_count[filesp[p]] > 0
  BY Running, InUse DEF NewProc, Ready
<1>3. TypeOK /\ panic = FALSE
  BY Parts DEF PartsOK, TypeOK
<1>4. /\ op = Idle /\ op' = Idle /\ Quiet /\ Quiet'
      /\ UNCHANGED <<reading, lost, leaked>> /\ panic' = FALSE
  BY <1>3 DEF NewProc, Ready, Quiet, Idle
<1>5. /\ \A q \in All : filesp'[q] = IF q = c THEN t ELSE filesp[q]
      /\ \A q \in All : state'[q] = IF q = c THEN "run" ELSE state[q]
      /\ \A q \in All : mm'[q] = IF q = c THEN mm[p] ELSE mm[q]
  BY <1>3 DEF NewProc, TypeOK
<1>6. c \notin Users(t)
  BY <1>1, FileTableAssumption DEF Users, FileTableAssumption
<1>7. \A u \in Tables : Users(u)' = IF u = t THEN Users(u) \cup {c} ELSE Users(u)
  BY <1>1, <1>5, FileTableAssumption DEF Users, FileTableAssumption
<1>8. \A u \in Tables, r \in Fds : Readers(u, r)' = Readers(u, r)
  BY <1>1, <1>4, <1>5, SameReaders
<1>9. HasTable'
  BY <1>5, Parts, FileTableAssumption DEF PartsOK, HasTable, FileTableAssumption
<1>10. DeadOK'
  BY <1>5, Parts DEF PartsOK, DeadOK
<1>11. ProcOK'
  BY <1>1, <1>4, <1>5, Parts DEF PartsOK, ProcOK
<1>12. CallOK'
  BY <1>4 DEF CallOK, Idle
<1>13. /\ state' \in [All -> {"none", "run", "asleep", "zombie"}]
       /\ mm' \in [All -> BOOLEAN] /\ filesp' \in [All -> Tables \cup {NULL}]
  BY <1>1, <1>3 DEF NewProc, TypeOK
<1> QED BY <1>1, <1>2, <1>4, <1>5, <1>6, <1>7, <1>8, <1>9, <1>10, <1>11, <1>12, <1>13

LEMMA ForkShareStep ==
  ASSUME IInv, NEW p \in All, NEW c \in Procs, ForkShare(p, c)
  PROVE  IInv'
<1>1. filesp[p] \in Tables
  BY Running DEF ForkShare, NewProc, Ready
<1>2. PICK t \in Tables : t = filesp[p]
  BY <1>1
<1>3. NewProc(p, c, t) /\ files_count[t] > 0
  BY <1>2, InUse DEF ForkShare
<1>4. TypeOK
  BY Parts DEF PartsOK
<1>5. /\ UNCHANGED <<slot, ref, open>>
      /\ \A u \in Tables : files_count'[u] = IF u = t THEN files_count[u] + 1
                                             ELSE files_count[u]
      /\ files_count' \in [Tables -> Nat]
  BY <1>2, <1>4 DEF ForkShare, nodeVars, TypeOK
<1>6. /\ Quiet /\ Quiet' /\ UNCHANGED <<reading, lost, leaked>> /\ panic' = FALSE
      /\ \A u \in Tables : Users(u)' = IF u = t THEN Users(u) \cup {c} ELSE Users(u)
      /\ c \notin Users(t)
      /\ \A u \in Tables, r \in Fds : Readers(u, r)' = Readers(u, r)
      /\ HasTable' /\ DeadOK' /\ CallOK' /\ ProcOK'
  BY <1>3, NewProcStep
<1>7. ASSUME NEW u \in Tables
      PROVE  TableOK(u)'
  <2>1. IsFiniteSet(Users(u)) /\ Cardinality(Users(u)) \in Nat
    BY Finite, Part DEF Users
  <2>2. TableOK(u) /\ lost[u] \in Nat
    BY <1>4, Parts DEF PartsOK, TypeOK
  <2>3. CASE u = t
    <3>1. Cardinality(Users(u)') = Cardinality(Users(u)) + 1
      BY <1>6, <2>1, <2>3, Plus
    <3> QED BY <1>5, <1>6, <2>1, <2>2, <2>3, <3>1 DEF TableOK
  <2>4. CASE u # t
    BY <1>5, <1>6, <2>2, <2>4 DEF TableOK
  <2> QED BY <2>3, <2>4
<1>8. \A u \in Tables : files_count'[u] > 0 <=> files_count[u] > 0
  <2>1. \A u \in Tables : files_count[u] \in Nat
    BY <1>4 DEF TypeOK
  <2> QED BY <1>3, <1>5, <2>1
<1>9. \A u \in Tables, r \in Fds : SlotOK(u, r)'
  <2>1. \A u \in Tables : files_count'[u] = 0 => files_count[u] = 0
    <3>1. \A u \in Tables : files_count[u] \in Nat
      BY <1>4 DEF TypeOK
    <3> QED BY <1>5, <3>1
  <2> QED BY <1>5, <1>6, <2>1, SlotKept
<1>10. \A n \in Nodes : NodeOK(n)'
  <2>1. Used' = Used
    BY <1>8 DEF Used
  <2> QED BY <1>5, <1>6, <2>1, CountsKept
<1>11. TypeOK'
  BY <1>3, <1>4, <1>5, <1>6, NewProcStep DEF TypeOK
<1> QED BY <1>6, <1>7, <1>9, <1>10, <1>11, PartsNext DEF PartsOK

LEMMA ForkCopyStep ==
  ASSUME IInv, NEW p \in All, NEW c \in Procs, NEW t \in Tables, ForkCopy(p, c, t)
  PROVE  IInv'
<1> DEFINE from == filesp[p]
           S == {s \in Fds : IsOpen(from, s)}
           row == [s \in Fds |-> IF s \in S
                                 THEN Opened(slot[from][s].node, slot[from][s].pos)
                                 ELSE FD_NONE]
<1>1. TypeOK
  BY Parts DEF PartsOK
<1>2. /\ Quiet /\ Quiet' /\ UNCHANGED <<reading, lost, leaked>> /\ panic' = FALSE
      /\ from \in Tables /\ files_count[from] > 0
      /\ \A u \in Tables : Users(u)' = IF u = t THEN Users(u) \cup {c} ELSE Users(u)
      /\ c \notin Users(t)
      /\ \A u \in Tables, r \in Fds : Readers(u, r)' = Readers(u, r)
      /\ HasTable' /\ DeadOK' /\ CallOK' /\ ProcOK'
  BY NewProcStep DEF ForkCopy
<1>3. /\ files_count[t] = 0 /\ from # t
      /\ \A u \in Tables : files_count'[u] = IF u = t THEN 1 ELSE files_count[u]
      /\ files_count' \in [Tables -> Nat]
  BY <1>1, <1>2 DEF ForkCopy, TypeOK
<1>4. \A s \in Fds : slot[t][s] = FD_NONE /\ Readers(t, s) = {}
  <2> TAKE s \in Fds
  <2>1. SlotOK(t, s)
    BY Parts DEF PartsOK
  <2>2. slot[t][s] = FD_NONE /\ Cardinality(Readers(t, s)) = 0
    BY <1>3, <2>1, SlotValues DEF SlotOK
  <2> QED BY <2>2, Finite, Part, FS_EmptySet DEF Readers
<1>5. /\ row \in [Fds -> Slot]
      /\ \A s \in S : /\ row[s].status = "OPENED" /\ row[s].count = 1
                      /\ row[s].node = slot[from][s].node
      /\ \A s \in Fds \ S : row[s] = FD_NONE
  <2>1. ASSUME NEW s \in S
        PROVE  /\ row[s] = Opened(slot[from][s].node, slot[from][s].pos)
               /\ row[s] \in Slot
               /\ row[s].status = "OPENED" /\ row[s].count = 1
               /\ row[s].node = slot[from][s].node
    <3>1. slot[from][s].node \in Devs \cup {NULL} /\ slot[from][s].pos \in 0..MaxPos
      BY <1>1, <1>2 DEF TypeOK, Slot
    <3>2. row[s] = Opened(slot[from][s].node, slot[from][s].pos)
      OBVIOUS
    <3> HIDE DEF row
    <3> QED BY <3>1, <3>2, SlotValues
  <2> QED BY <2>1, SlotValues
<1>6. /\ slot' \in [Tables -> [Fds -> Slot]]
      /\ \A u \in Tables, r \in Fds :
           slot'[u][r] = IF u = t THEN row[r] ELSE slot[u][r]
  <2>1. slot \in [Tables -> [Fds -> Slot]] /\ slot' = [slot EXCEPT ![t] = row]
    BY <1>1 DEF TypeOK, ForkCopy
  <2>2. row \in [Fds -> Slot]
    BY <1>5
  <2> HIDE DEF row
  <2> QED BY <2>1, <2>2, SetRow
<1>7. ASSUME NEW u \in Tables
      PROVE  TableOK(u)'
  <2>1. IsFiniteSet(Users(u)) /\ Cardinality(Users(u)) \in Nat
    BY Finite, Part DEF Users
  <2>2. TableOK(u) /\ lost[u] \in Nat
    BY <1>1, Parts DEF PartsOK, TypeOK
  <2>3. CASE u = t
    <3>1. Cardinality(Users(u)') = Cardinality(Users(u)) + 1
      BY <1>2, <2>1, <2>3, Plus
    <3>2. lost[u] = 0 /\ Cardinality(Users(u)) = 0
      BY <1>3, <2>1, <2>2, <2>3 DEF TableOK
    <3> QED BY <1>2, <1>3, <2>3, <3>1, <3>2 DEF TableOK
  <2>4. CASE u # t
    BY <1>2, <1>3, <2>2, <2>4 DEF TableOK
  <2> QED BY <2>3, <2>4
<1>8. ASSUME NEW u \in Tables, NEW r \in Fds
      PROVE  SlotOK(u, r)'
  <2>1. CASE u = t
    <3>1. Readers(u, r)' = {} /\ ~OpenAt(u, r)'
      BY <1>2, <1>4, <2>1 DEF OpenAt, Quiet
    <3>2. slot'[u][r] = row[r] /\ files_count'[u] = 1
      BY <1>3, <1>6, <2>1
    <3>3. CASE r \in S
      <4>1. row[r].status = "OPENED" /\ row[r].count = 1
        BY <1>5, <3>3
      <4> HIDE DEF row
      <4> QED BY <3>1, <3>2, <4>1, FS_EmptySet DEF SlotOK
    <3>4. CASE r \notin S
      <4>1. row[r] = FD_NONE
        BY <3>4
      <4> HIDE DEF row
      <4> QED BY <3>1, <3>2, <4>1, SlotValues, FS_EmptySet DEF SlotOK
    <3> QED BY <3>3, <3>4
  <2>2. CASE u # t
    <3>1. slot'[u][r] = slot[u][r]
      BY <1>6, <2>2
    <3> QED BY <1>2, <1>3, <2>2, <3>1, SlotKept
  <2> QED BY <2>1, <2>2
<1>9. ASSUME NEW n \in Nodes
      PROVE  NodeOK(n)'
  <2> DEFINE dir == IF n = root THEN 1 ELSE 0
  <2>1. /\ Cardinality(Held(slot', n)) = Cardinality(Held(slot, n)) + Members(from, S, n)
        /\ Members(from, S, n) \in Nat
    <3>1. \A s \in Fds : slot'[t][s] = row[s] /\ slot[t][s] = FD_NONE
      BY <1>4, <1>6
    <3>2. Drops(slot', slot, t, S, n)
      <4>1. \A s \in S : slot'[t][s].status = "OPENED"
        BY <1>5, <3>1
      <4>2. \A s \in Fds \ S : slot'[t][s] = FD_NONE
        BY <1>5, <3>1
      <4>3. \A u \in Tables, r \in Fds : u # t => slot'[u][r] = slot[u][r]
        BY <1>6
      <4>4. S \subseteq Fds
        OBVIOUS
      <4> HIDE DEF S, row
      <4> QED BY <3>1, <4>1, <4>2, <4>3, <4>4, SlotValues DEF Drops, HoldsNode
    <3>3. Named(slot', t, S, n) = {s \in S : slot[from][s].node = n}
      <4>1. \A s \in S : slot'[t][s].node = slot[from][s].node
        BY <1>5, <3>1
      <4> HIDE DEF S, from, row
      <4> QED BY <4>1 DEF Named
    <3>4. Cardinality(Named(slot', t, S, n)) = Members(from, S, n)
      BY <3>3 DEF Members
    <3> HIDE DEF S, from
    <3> QED BY <3>2, <3>4, HeldMore
  <2>2. /\ open'[n] = open[n] + Members(from, S, n)
        /\ ref'[n] = ref[n] + Members(from, S, n) + dir
    BY DEF ForkCopy
  <2>3. Cardinality(Used') = Cardinality(Used) + 1 /\ Cardinality(Used) \in Nat
    <3>1. IsFiniteSet(Used) /\ Cardinality(Used) \in Nat
      BY Finite, Part DEF Used
    <3>2. t \notin Used /\ Used' = Used \cup {t}
      BY <1>3 DEF Used
    <3> QED BY <3>1, <3>2, Plus
  <2>4. OpenMore(n) = 0 /\ OpenMore(n)' = 0 /\ RefMore(n)' = RefMore(n) + dir
    BY <1>2, <2>3 DEF Quiet, OpenMore, RefMore, Leaked
  <2>5. /\ open[n] = Cardinality(Held(slot, n)) + OpenMore(n)
        /\ ref[n] = Cardinality(Held(slot, n)) + RefMore(n)
        /\ RefMore(n) \in Nat /\ Cardinality(Held(slot, n)) \in Nat
    BY Parts, NodeParts, HeldFinite DEF PartsOK, NodeSum
  <2>6. /\ open'[n] = Cardinality(Held(slot', n)) + OpenMore(n)'
        /\ ref'[n] = Cardinality(Held(slot', n)) + RefMore(n)'
    <3>1. dir \in Nat
      OBVIOUS
    <3> HIDE DEF S, from, dir
    <3> QED BY <2>1, <2>2, <2>4, <2>5, <3>1
  <2> QED BY <2>6, NodePartsNext DEF NodeSum
<1>10. TypeOK'
  <2>1. /\ state' \in [All -> {"none", "run", "asleep", "zombie"}]
        /\ mm' \in [All -> BOOLEAN] /\ filesp' \in [All -> Tables \cup {NULL}]
    BY NewProcStep DEF ForkCopy
  <2>2. TypeRest'
    BY <1>1, <1>2, <1>3, <1>6, <2>1 DEF TypeOK, TypeRest
  <2>3. ref' = [n \in Nodes |-> ref'[n]] /\ open' = [n \in Nodes |-> open'[n]]
    BY DEF ForkCopy
  <2> QED BY <1>9, <2>2, <2>3, CountersNext
<1> QED BY <1>2, <1>7, <1>8, <1>9, <1>10, PartsNext DEF PartsOK

\* The exit of a process that has no address space, and so keeps its table, and
\* of one whose table others use: no descriptor is closed.
LEMMA ExitKeeps ==
  ASSUME IInv, NEW p \in All, NEW t \in Tables, t = filesp[p], state[p] = "run",
         Quiet, Quiet', ExitWith(p), ~(mm[p] /\ LastUser(t))
  PROVE  /\ \A u \in Tables, r \in Fds : SlotOK(u, r)'
         /\ \A n \in Nodes : NodeOK(n)'
         /\ panic' = FALSE /\ slot' \in [Tables -> [Fds -> Slot]]
         /\ ref' = [n \in Nodes |-> ref'[n]] /\ open' = [n \in Nodes |-> open'[n]]
<1>1. TypeOK /\ panic = FALSE /\ files_count[t] > 0
  BY Parts, InUse DEF PartsOK, TypeOK
<1>2. UNCHANGED <<slot, ref, open, panic, reading>>
  BY DEF ExitWith, PutFiles, nodeVars, tableVars
<1>3. \A u \in Tables : files_count'[u] > 0 <=> files_count[u] > 0
  <2>1. CASE mm[p]
    <3>1. files_count' = [files_count EXCEPT ![t] = @ - 1] /\ files_count[t] # 1
      BY <2>1 DEF ExitWith, PutFiles, LastUser
    <3>2. \A u \in Tables : files_count[u] \in Nat
      BY <1>1 DEF TypeOK
    <3>3. \A u \in Tables : files_count'[u] = IF u = t THEN files_count[t] - 1
                                              ELSE files_count[u]
      BY <1>1, <3>1 DEF TypeOK
    <3> QED BY <1>1, <3>1, <3>2, <3>3
  <2>2. CASE ~mm[p]
    BY <2>2 DEF ExitWith, tableVars
  <2> QED BY <2>1, <2>2
<1>4. \A u \in Tables, r \in Fds : Readers(u, r)' = Readers(u, r)
  <2>1. \A q \in All \ {p} : filesp'[q] = filesp[q]
    BY <1>1 DEF ExitWith, TypeOK
  <2> QED BY <1>2, <2>1, SameReaders
<1>5. \A u \in Tables, r \in Fds : SlotOK(u, r)'
  <2>1. \A u \in Tables : files_count'[u] = 0 => files_count[u] = 0
    <3>1. \A u \in Tables : files_count[u] \in Nat
      BY <1>1 DEF TypeOK
    <3> QED BY <1>3, <3>1
  <2> QED BY <1>2, <1>4, <2>1, SlotKept
<1>6. \A n \in Nodes : NodeOK(n)'
  <2>1. Used' = Used
    BY <1>3 DEF Used
  <2>2. leaked' = leaked
    BY DEF ExitWith
  <2> QED BY <1>2, <2>1, <2>2, CountsKept
<1> QED BY <1>1, <1>2, <1>5, <1>6 DEF TypeOK

\* The exit of the last user of a table: no read can be in progress through it
\* and no open, so closing frees every slot.
LEMMA ExitCloses ==
  ASSUME IInv, NEW p \in All, NEW t \in Tables, t = filesp[p], state[p] = "run",
         Quiet, Quiet', ExitWith(p), mm[p], LastUser(t)
  PROVE  /\ \A u \in Tables, r \in Fds : SlotOK(u, r)'
         /\ \A n \in Nodes : NodeOK(n)'
         /\ panic' = FALSE /\ slot' \in [Tables -> [Fds -> Slot]]
         /\ ref' = [n \in Nodes |-> ref'[n]] /\ open' = [n \in Nodes |-> open'[n]]
<1> DEFINE S == Freed(t, Fds)
<1>1. TypeOK
  BY Parts DEF PartsOK
<1>2. /\ files_count[t] = 1 /\ reading' = reading
      /\ \A u \in Tables : files_count'[u] = IF u = t THEN 0 ELSE files_count[u]
  BY <1>1 DEF ExitWith, PutFiles, LastUser, TypeOK
<1>3. Users(t) = {p}
  <2>1. files_count[t] = lost[t] + Cardinality(Users(t)) /\ lost[t] \in Nat
    BY <1>1, Parts DEF PartsOK, TypeOK, TableOK
  <2>2. p \in Users(t) /\ IsFiniteSet(Users(t)) /\ Cardinality(Users(t)) \in Nat
    BY Finite, Part DEF Users
  <2>3. Cardinality(Users(t)) # 0
    BY <2>2, FS_EmptySet
  <2>4. Cardinality(Users(t)) = 1
    BY <1>2, <2>1, <2>2, <2>3
  <2>5. \E x : Users(t) = {x}
    BY <2>2, <2>4, FS_Singleton
  <2> QED BY <2>2, <2>5
<1>4. \A r \in Fds : Readers(t, r) = {}
  <2>1. reading[p] = NoRead
    BY Parts DEF PartsOK, ProcOK
  <2>2. \A r \in Fds : r # -1
    BY FileTableAssumption DEF Fds, FileTableAssumption
  <2> QED BY <1>3, <2>1, <2>2 DEF Readers, Users, NoRead
<1>5. \A r \in Fds : /\ r \in S => slot[t][r].status = "OPENED"
                     /\ r \notin S => slot[t][r].status = "NONE"
  <2> TAKE r \in Fds
  <2>1. SlotOK(t, r) /\ slot[t][r] \in Slot /\ ~OpenAt(t, r)
    BY <1>1, Parts DEF PartsOK, TypeOK, OpenAt, Quiet
  <2>2. Cardinality(Readers(t, r)) = 0
    BY <1>4, FS_EmptySet
  <2>3. slot[t][r].status \in {"NONE", "OPENED"}
    BY <2>1, <2>2 DEF SlotOK, Slot
  <2>4. slot[t][r].status = "OPENED" => slot[t][r].count = 1
    BY <2>1, <2>2 DEF SlotOK
  <2> QED BY <2>3, <2>4 DEF Freed, IsOpen
<1>6. panic' = FALSE
  <2>1. \A r \in Fds : ClosedSlots(t, Fds)[r].status = "NONE"
    <3> TAKE r \in Fds
    <3>1. r \in S => ClosedSlots(t, Fds)[r] = FD_NONE
      BY ClosedSlot
    <3>2. r \notin S => ClosedSlots(t, Fds)[r] = slot[t][r]
      BY <1>5, ClosedSlot
    <3> QED BY <1>5, <3>1, <3>2, SlotValues
  <2> QED BY <2>1 DEF ExitWith, PutFiles
<1>7. /\ slot' \in [Tables -> [Fds -> Slot]]
      /\ \A u \in Tables, r \in Fds :
           slot'[u][r] = IF u = t THEN FD_NONE ELSE slot[u][r]
  <2>1. slot \in [Tables -> [Fds -> Slot]] /\ slot' = [slot EXCEPT ![t] = fd_array_init]
    BY <1>1 DEF TypeOK, ExitWith, PutFiles
  <2>2. fd_array_init \in [Fds -> Slot] /\ \A r \in Fds : fd_array_init[r] = FD_NONE
    BY SlotValues DEF fd_array_init
  <2> QED BY <2>1, <2>2, SetRow
<1>8. \A u \in Tables, r \in Fds : Readers(u, r)' = Readers(u, r)
  <2>1. \A q \in All \ {p} : filesp'[q] = filesp[q]
    BY <1>1 DEF ExitWith, TypeOK
  <2> QED BY <1>2, <2>1, SameReaders
<1>9. ASSUME NEW u \in Tables, NEW r \in Fds
      PROVE  SlotOK(u, r)'
  <2>1. CASE u = t
    <3>1. Readers(u, r)' = {} /\ ~OpenAt(u, r)' /\ slot'[u][r] = FD_NONE
      BY <1>4, <1>7, <1>8, <2>1 DEF OpenAt, Quiet
    <3> QED BY <3>1, SlotValues, FS_EmptySet DEF SlotOK
  <2>2. CASE u # t
    <3>1. slot'[u][r] = slot[u][r] /\ files_count'[u] = files_count[u]
      BY <1>2, <1>7, <2>2
    <3> QED BY <1>2, <1>8, <3>1, SlotKept
  <2> QED BY <2>1, <2>2
<1>10. ASSUME NEW n \in Nodes
       PROVE  NodeOK(n)'
  <2> DEFINE dir == IF n = root THEN 1 ELSE 0
  <2>1. /\ Cardinality(Held(slot', n)) = Cardinality(Held(slot, n)) - Members(t, S, n)
        /\ Members(t, S, n) \in Nat
    <3>1. Drops(slot, slot', t, S, n)
      <4>1. S \subseteq Fds
        BY DEF Freed
      <4> HIDE DEF S
      <4> QED BY <1>5, <1>7, <4>1, SlotValues DEF Drops, HoldsNode
    <3>2. Cardinality(Named(slot, t, S, n)) = Members(t, S, n)
      BY DEF Named, Members
    <3> HIDE DEF S
    <3> QED BY <3>1, <3>2, HeldLess
  <2>2. /\ open'[n] = open[n] - Members(t, S, n)
        /\ ref'[n] = ref[n] - Members(t, S, n) - dir
    BY DEF ExitWith, PutFiles
  <2>3. Cardinality(Used') = Cardinality(Used) - 1 /\ Cardinality(Used) \in Nat
    <3>1. IsFiniteSet(Used) /\ Cardinality(Used) \in Nat
      BY Finite, Part DEF Used
    <3>2. t \in Used /\ Used' = Used \ {t}
      BY <1>2 DEF Used
    <3> QED BY <3>1, <3>2, Minus
  <2>4. OpenMore(n) = 0 /\ OpenMore(n)' = 0 /\ RefMore(n)' = RefMore(n) - dir
    <3>1. Leaked(n)' = Leaked(n) /\ Leaked(n) \in Nat
      BY DEF ExitWith, Leaked
    <3> QED BY <2>3, <3>1 DEF Quiet, OpenMore, RefMore
  <2>5. /\ open[n] = Cardinality(Held(slot, n)) + OpenMore(n)
        /\ ref[n] = Cardinality(Held(slot, n)) + RefMore(n)
        /\ RefMore(n) \in Nat /\ Cardinality(Held(slot, n)) \in Nat
    BY Parts, NodeParts, HeldFinite DEF PartsOK, NodeSum
  <2>6. /\ open'[n] = Cardinality(Held(slot', n)) + OpenMore(n)'
        /\ ref'[n] = Cardinality(Held(slot', n)) + RefMore(n)'
    <3>1. dir \in Nat
      OBVIOUS
    <3> HIDE DEF S, dir
    <3> QED BY <2>1, <2>2, <2>4, <2>5, <3>1
  <2> QED BY <2>6, NodePartsNext DEF NodeSum
<1>11. ref' = [n \in Nodes |-> ref'[n]] /\ open' = [n \in Nodes |-> open'[n]]
  BY DEF ExitWith, PutFiles
<1> QED BY <1>6, <1>7, <1>9, <1>10, <1>11

\* Either way the process leaves the table that it no longer counts for.
LEMMA ExitWithStep ==
  ASSUME IInv, NEW p \in All, state[p] = "run", Quiet, op' = Idle, ExitWith(p)
  PROVE  IInv'
<1>1. filesp[p] \in Tables /\ files_count[filesp[p]] > 0
  BY Running, InUse
<1>2. PICK t \in Tables : t = filesp[p]
  BY <1>1
<1>3. TypeOK /\ Quiet' /\ files_count[t] > 0
  BY <1>1, <1>2, Parts DEF PartsOK, Quiet, Idle
<1>4. /\ \A u \in Tables, r \in Fds : SlotOK(u, r)'
      /\ \A n \in Nodes : NodeOK(n)'
      /\ panic' = FALSE /\ slot' \in [Tables -> [Fds -> Slot]]
      /\ ref' = [n \in Nodes |-> ref'[n]] /\ open' = [n \in Nodes |-> open'[n]]
  <2>1. CASE mm[p] /\ LastUser(t)
    BY <1>2, <1>3, <2>1, ExitCloses
  <2>2. CASE ~(mm[p] /\ LastUser(t))
    BY <1>2, <1>3, <2>2, ExitKeeps
  <2> QED BY <2>1, <2>2
<1>5. /\ \A q \in All : state'[q] = IF q = p THEN "zombie" ELSE state[q]
      /\ \A q \in All : mm'[q] = IF q = p THEN FALSE ELSE mm[q]
      /\ \A q \in All \ {p} : filesp'[q] = filesp[q]
      /\ UNCHANGED <<reading, lost, leaked>>
  BY <1>3 DEF ExitWith, TypeOK
<1>6. /\ mm[p] => filesp'[p] = NULL /\ files_count' = [files_count EXCEPT ![t] = @ - 1]
      /\ ~mm[p] => filesp' = filesp /\ files_count' = files_count
  BY <1>2, <1>3 DEF ExitWith, PutFiles, TypeOK, tableVars
<1>7. files_count' \in [Tables -> Nat]
  <2>1. files_count[t] - 1 \in Nat
    BY <1>3 DEF TypeOK
  <2> QED BY <1>3, <1>6, <2>1 DEF TypeOK
<1>8. ASSUME NEW u \in Tables
      PROVE  TableOK(u)'
  <2>1. IsFiniteSet(Users(u)) /\ Cardinality(Users(u)) \in Nat
    BY Finite, Part DEF Users
  <2>2. TableOK(u) /\ lost[u] \in Nat /\ lost' = lost
    BY <1>3, <1>5, Parts DEF PartsOK, TypeOK
  <2>3. CASE mm[p] /\ u = t
    <3>1. p \in Users(u) /\ Users(u)' = Users(u) \ {p}
      BY <1>2, <1>5, <1>6, <2>3, FileTableAssumption DEF Users, FileTableAssumption
    <3>2. Cardinality(Users(u)') = Cardinality(Users(u)) - 1
      BY <2>1, <3>1, Minus
    <3>3. files_count'[u] = files_count[u] - 1
      BY <1>3, <1>6, <2>3 DEF TypeOK
    <3> QED BY <2>1, <2>2, <3>2, <3>3 DEF TableOK
  <2>4. CASE ~(mm[p] /\ u = t)
    <3>1. Users(u)' = Users(u)
      BY <1>2, <1>5, <1>6, <2>4, FileTableAssumption DEF Users, FileTableAssumption
    <3>2. files_count'[u] = files_count[u]
      BY <1>3, <1>6, <2>4 DEF TypeOK
    <3> QED BY <2>2, <3>1, <3>2 DEF TableOK
  <2> QED BY <2>3, <2>4
<1>9. HasTable'
  BY <1>5, Parts DEF PartsOK, HasTable
<1>10. DeadOK'
  BY <1>5, Parts DEF PartsOK, DeadOK
<1>11. ProcOK'
  BY <1>5, Parts DEF PartsOK, ProcOK
<1>12. CallOK'
  BY DEF CallOK, Idle
<1>13. TypeOK'
  <2>1. /\ state' \in [All -> {"none", "run", "asleep", "zombie"}]
        /\ mm' \in [All -> BOOLEAN] /\ filesp' \in [All -> Tables \cup {NULL}]
    BY <1>3 DEF ExitWith, TypeOK
  <2>2. TypeRest'
    BY <1>3, <1>4, <1>5, <1>7, <2>1 DEF TypeOK, TypeRest
  <2> QED BY <1>4, <2>2, CountersNext
<1> QED
  BY <1>4, <1>8, <1>9, <1>10, <1>11, <1>12, <1>13, PartsNext DEF PartsOK

LEMMA ExitStep ==
  ASSUME IInv, NEW p \in All, Exit(p)
  PROVE  IInv'
BY ExitWithStep DEF Exit, Ready, Quiet, Idle

LEMMA ExecExitStep ==
  ASSUME IInv, ExecExit
  PROVE  IInv'
<1>1. op.p \in All /\ state[op.p] = "run" /\ Quiet
  <2>1. (op \in OpenCall \/ op \in ExecCall) /\ state[op.p] = "run"
    BY DEF IInv, CallOK, Idle, ExecExit
  <2> QED BY <2>1 DEF OpenCall, ExecCall, ExecExit, Quiet
<1> QED BY <1>1, ExitWithStep DEF ExecExit

LEMMA ReapStep ==
  ASSUME IInv, NEW p \in All, Reap(p)
  PROVE  IInv'
<1>1. TypeOK /\ panic = FALSE /\ op = Idle /\ op' = Idle /\ Quiet /\ Quiet'
  BY Parts DEF PartsOK, TypeOK, Reap, Quiet, Idle
<1>2. /\ \A q \in All : state'[q] = IF q = p THEN "none" ELSE state[q]
      /\ \A q \in All : filesp'[q] = IF q = p THEN NULL ELSE filesp[q]
      /\ UNCHANGED <<mm, reading, files_count, slot, ref, open, leaked, panic>>
      /\ state[p] = "zombie"
  BY <1>1 DEF Reap, TypeOK, tableVars, nodeVars
<1>3. \A u \in Tables : lost'[u] = IF u = filesp[p] THEN lost[u] + 1 ELSE lost[u]
  <2>1. CASE filesp[p] = NULL
    BY <2>1, FileTableAssumption DEF Reap, FileTableAssumption
  <2>2. CASE filesp[p] # NULL
    BY <1>1, <2>2 DEF Reap, TypeOK
  <2> QED BY <2>1, <2>2
<1>4. lost' \in [Tables -> Nat]
  <2>1. lost' = [u \in Tables |-> lost'[u]]
    BY <1>1 DEF Reap, TypeOK
  <2>2. \A u \in Tables : lost'[u] \in Nat
    BY <1>1, <1>3 DEF TypeOK
  <2> QED BY <2>1, <2>2
<1>5. ASSUME NEW u \in Tables
      PROVE  TableOK(u)'
  <2>1. IsFiniteSet(Users(u)) /\ Cardinality(Users(u)) \in Nat
    BY Finite, Part DEF Users
  <2>2. TableOK(u) /\ lost[u] \in Nat
    BY <1>1, Parts DEF PartsOK, TypeOK
  <2>3. CASE u = filesp[p]
    <3>1. p \in Users(u) /\ Users(u)' = Users(u) \ {p}
      BY <1>2, <2>3, FileTableAssumption DEF Users, FileTableAssumption
    <3>2. Cardinality(Users(u)') = Cardinality(Users(u)) - 1
      BY <2>1, <3>1, Minus
    <3>3. lost'[u] = lost[u] + 1
      BY <1>3, <2>3
    <3> QED BY <1>2, <2>1, <2>2, <3>2, <3>3 DEF TableOK
  <2>4. CASE u # filesp[p]
    <3>1. Users(u)' = Users(u)
      BY <1>2, <2>4, FileTableAssumption DEF Users, FileTableAssumption
    <3>2. lost'[u] = lost[u]
      BY <1>3, <2>4
    <3> QED BY <1>2, <2>2, <3>1, <3>2 DEF TableOK
  <2> QED BY <2>3, <2>4
<1>6. \A u \in Tables, r \in Fds : SlotOK(u, r)'
  <2>1. \A u \in Tables, r \in Fds : Readers(u, r)' = Readers(u, r)
    BY <1>2, SameReaders
  <2> QED BY <1>1, <1>2, <2>1, SlotKept
<1>7. \A n \in Nodes : NodeOK(n)'
  <2>1. Used' = Used
    BY <1>2 DEF Used
  <2> QED BY <1>1, <1>2, <2>1, CountsKept
<1>8. HasTable'
  BY <1>2, Parts DEF PartsOK, HasTable
<1>9. DeadOK'
  BY <1>2, Parts DEF PartsOK, DeadOK
<1>10. ProcOK'
  BY <1>2, Parts DEF PartsOK, ProcOK
<1>11. CallOK'
  BY <1>1 DEF CallOK, Idle
<1>12. TypeOK'
  <2>1. /\ state' \in [All -> {"none", "run", "asleep", "zombie"}]
        /\ filesp' \in [All -> Tables \cup {NULL}]
    BY <1>1 DEF Reap, TypeOK
  <2> QED BY <1>1, <1>2, <1>4, <2>1 DEF TypeOK
<1> QED
  BY <1>1, <1>2, <1>5, <1>6, <1>7, <1>8, <1>9, <1>10, <1>11, <1>12, PartsNext DEF PartsOK

----------------------------------------------------------------------------
(* The invariant *)

LEMMA InitIInv == Init => IInv
<1> SUFFICES ASSUME Init
             PROVE  IInv
  OBVIOUS
<1> USE FileTableAssumption DEF FileTableAssumption
<1>1. PICK t \in Tables :
        /\ filesp = [p \in All |-> IF p = init THEN t ELSE NULL]
        /\ files_count = [u \in Tables |-> IF u = t THEN 1 ELSE 0]
  BY DEF Init
<1>2. init \in All /\ Quiet /\ op = Idle /\ panic = FALSE
  BY DEF Init, All, Quiet, Idle
<1>3. TypeOK
  <2>1. slot \in [Tables -> [Fds -> Slot]]
    BY SlotValues DEF Init, fd_array_init
  <2>2. /\ reading \in [All -> [fd : Fds, node : Devs] \cup {NoRead}]
        /\ filesp \in [All -> Tables \cup {NULL}]
        /\ files_count \in [Tables -> Nat]
    BY <1>1 DEF Init
  <2>3. ref \in [Nodes -> Nat] /\ open \in [Nodes -> Nat]
    BY DEF Init
  <2> QED BY <2>1, <2>2, <2>3 DEF Init, TypeOK
<1>4. \A u \in Tables, r \in Fds : slot[u][r] = FD_NONE /\ Readers(u, r) = {}
  <2>1. \A r \in Fds : r # -1
    BY DEF Fds
  <2>2. \A u \in Tables, r \in Fds : slot[u][r] = FD_NONE
    BY DEF Init, fd_array_init
  <2>3. \A p \in All : reading[p].fd = -1
    BY DEF Init, NoRead
  <2> QED BY <2>1, <2>2, <2>3 DEF Readers
<1>5. ASSUME NEW u \in Tables, NEW r \in Fds
      PROVE  SlotOK(u, r)
  <2>1. ~OpenAt(u, r)
    BY <1>2 DEF OpenAt, Quiet
  <2>2. /\ slot[u][r] = FD_NONE /\ Readers(u, r) = {}
        /\ Cardinality(Readers(u, r)) = 0
    BY <1>4, FS_EmptySet
  <2> QED BY <2>1, <2>2, SlotValues DEF SlotOK
<1>6. ASSUME NEW n \in Nodes
      PROVE  NodeOK(n)
  <2>1. Cardinality(Held(slot, n)) = 0
    <3>1. Held(slot, n) = {}
      BY <1>4, SlotValues DEF Held, HoldsNode
    <3> QED BY <3>1, FS_EmptySet
  <2>2. Cardinality(Used) = 1
    <3>1. Used = {t}
      BY <1>1 DEF Used
    <3> QED BY <3>1, FS_Singleton
  <2>3. OpenMore(n) = 0
    BY <1>2 DEF OpenMore, Quiet
  <2>4. RefMore(n) = IF n = root THEN 2 ELSE IF n = stdin THEN 1 ELSE 0
    <3>1. Leaked(n) = 0
      BY DEF Init, Leaked
    <3> QED BY <1>2, <2>2, <3>1 DEF RefMore, Quiet
  <2>5. open[n] = 0 /\ ref[n] = IF n = root THEN 2 ELSE IF n = stdin THEN 1 ELSE 0
    BY DEF Init
  <2> HIDE DEF Init
  <2> QED BY <2>1, <2>3, <2>4, <2>5, NodeParts DEF NodeSum
<1>7. ASSUME NEW u \in Tables
      PROVE  TableOK(u)
  <2>1. CASE u = t
    <3>1. Users(u) = {init}
      BY <1>1, <1>2, <2>1 DEF Users
    <3> QED BY <1>1, <2>1, <3>1, FS_Singleton DEF TableOK, Init
  <2>2. CASE u # t
    <3>1. Users(u) = {}
      BY <1>1, <2>2 DEF Users
    <3> QED BY <1>1, <2>2, <3>1, FS_EmptySet DEF TableOK, Init
  <2> QED BY <2>1, <2>2
<1>8. HasTable
  BY <1>1 DEF Init, HasTable
<1>9. DeadOK /\ CallOK /\ ProcOK
  BY <1>1 DEF Init, DeadOK, CallOK, ProcOK, Idle
<1> QED BY <1>2, <1>3, <1>5, <1>6, <1>7, <1>8, <1>9, Parts DEF PartsOK

LEMMA NextIInv == IInv /\ [Next]_vars => IInv'
<1> SUFFICES ASSUME IInv, [Next]_vars
             PROVE  IInv'
  OBVIOUS
<1>1. CASE Opening
  BY <1>1, LookupFailsStep, OpenExistsStep, VopOpenFailsStep, VopOpenStep,
     OpenLateFailsStep, LookupStep, OpenDoneStep DEF Opening
<1>2. CASE Execing
  BY <1>2, ExecNoFdStep, ExecExitStep, ExecOpenStep, LoadIcodeStep DEF Execing
<1>3. ASSUME NEW p \in All, Call(p)
      PROVE  IInv'
  <2>1. CASE Exec(p) \/ Exit(p) \/ Reap(p)
    BY <2>1, ExecStep, ExitStep, ReapStep
  <2>2. CASE \E s \in Fds : Open(p, s) \/ Close(p, s) \/ ReadSleep(p, s)
    BY <2>2, OpenStep, CloseStep, ReadSleepStep
  <2>3. CASE \E s, r \in Fds : Dup(p, s, r)
    BY <2>3, DupStep
  <2>4. CASE \E s \in Fds, pos \in 0..MaxPos : Move(p, s, pos)
    BY <2>4, MoveStep
  <2>5. CASE \E pos \in 0..MaxPos : ReadReturn(p, pos)
    BY <2>5, ReadReturnStep
  <2>6. CASE \E c \in Procs : ForkShare(p, c)
    BY <2>6, ForkShareStep
  <2>7. CASE \E c \in Procs, t \in Tables : ForkCopy(p, c, t)
    BY <2>7, ForkCopyStep
  <2> QED BY <1>3, <2>1, <2>2, <2>3, <2>4, <2>5, <2>6, <2>7 DEF Call
<1>4. CASE UNCHANGED vars
  <2>1. /\ UNCHANGED <<state, mm, filesp, reading, files_count, slot, ref, open, op>>
        /\ UNCHANGED <<lost, leaked, panic>>
    BY <1>4 DEF vars
  <2>2. \A u \in Tables, r \in Fds : SlotOK(u, r)'
    <3>1. \A u, r : OpenAt(u, r)' <=> OpenAt(u, r)
      BY <2>1 DEF OpenAt
    <3> QED BY <2>1, <3>1, Frame
  <2>3. \A n \in Nodes : NodeOK(n)'
    <3> TAKE n \in Nodes
    <3>1. OpenMore(n)' = OpenMore(n) /\ RefMore(n)' = RefMore(n)
      BY <2>1 DEF OpenMore, RefMore, Leaked, Used
    <3>2. NodeOK(n)
      BY Parts DEF PartsOK
    <3> QED BY <2>1, <3>1, <3>2, NodeParts, NodePartsNext DEF NodeSum
  <2>4. TypeOK' /\ ~panic'
    BY <2>1, Parts DEF PartsOK, TypeOK
  <2>5. CallOK'
    BY <2>1 DEF IInv, CallOK, IsOpen
  <2> QED BY <2>1, <2>2, <2>3, <2>4, <2>5, Frame, PartsNext DEF PartsOK
<1> QED BY <1>1, <1>2, <1>3, <1>4 DEF Next

\* Tables, slots, inodes and the call in progress agree, over every sequence of
\* open, close, dup, read, fork, exec, exit and wait and every way these fail;
\* the references that an open leaves behind when it is to create a file that
\* exists are counted, not excluded.
THEOREM FileTableInvariant == Spec => []IInv
BY InitIInv, NextIInv, PTL DEF Spec

\* open_count of a slot is its descriptor and its readers: no assertion of
\* file.c or fs.c fails, and a slot closed under a sleeping reader is neither
\* freed nor reused before that reader has returned.
THEOREM SlotsSound == Spec => []SlotsOK
<1>1. IInv => SlotsOK
  BY DEF IInv
<1> QED BY <1>1, FileTableInvariant, PTL

\* open_count of an inode is its holders, and ref_count its holders and the
\* references vfs_open has kept when it was to create the file and found it
\* (vfsfile.c:46-47), exactly one for each such call.  No other error path of
\* open or exec, and no close, fork or exit, forgets a reference or drops one
\* twice.
THEOREM CountsSound == Spec => []CountsOK
<1>1. IInv => CountsOK
  BY DEF IInv
<1> QED BY <1>1, FileTableInvariant, PTL

\* files_count of a table is its processes and those that died without an
\* address space, and nobody runs without a table.
THEOREM TablesSound == Spec => []TablesOK
<1>1. IInv => TablesOK
  BY DEF IInv
<1> QED BY <1>1, FileTableInvariant, PTL
=============================================================================
