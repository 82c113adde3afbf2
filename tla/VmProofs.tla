------------------------------- MODULE VmProofs -------------------------------
(***************************************************************************)
(* Address spaces, for any number of processes and frames, any shape of    *)
(* the page tables and any programs: what unmap_range and exit_range rely  *)
(* on, fork's copies, the bits of copy on write, where every frame of the  *)
(* machine is, also after any allocation has failed, and what is lost.     *)
(***************************************************************************)
EXTENDS Vm, FiniteSetTheorems, NaturalsInduction, WellFoundedInduction, TLAPS

----------------------------------------------------------------------------
(* Page numbers *)

LEMMA DivFacts ==
  ASSUME NEW n \in Nat \ {0}, NEW x \in Nat
  PROVE  /\ x \div n \in Nat
         /\ n * (x \div n) <= x /\ x < n * (x \div n) + n
OBVIOUS

LEMMA DivMonotone ==
  ASSUME NEW n \in Nat \ {0}, NEW x \in Nat, NEW y \in Nat, x <= y
  PROVE  x \div n <= y \div n
<1> DEFINE i == x \div n
           j == y \div n
<1>1. i \in Nat /\ j \in Nat /\ n * i <= x /\ y < n * j + n
  BY DivFacts
<1> HIDE DEF i, j
<1>2. SUFFICES ASSUME j < i PROVE FALSE
  BY <1>1 DEF i, j
<1>3. n * (j + 1) <= n * i
  BY <1>1, <1>2
<1>4. n * (j + 1) = n * j + n
  BY <1>1
<1> QED BY <1>1, <1>3, <1>4

LEMMA DivBound ==
  ASSUME NEW n \in Nat \ {0}, NEW k \in Nat, NEW x \in 0..(k * n - 1)
  PROVE  x \div n \in 0..(k - 1)
<1> DEFINE i == x \div n
<1>1. i \in Nat /\ n * i <= x /\ k * n \in Nat /\ x \in Nat /\ x < k * n
  BY DivFacts
<1> HIDE DEF i
<1>2. SUFFICES ASSUME k <= i PROVE FALSE
  BY <1>1 DEF i
<1>3. n * k <= n * i
  BY <1>1, <1>2
<1>4. n * k = k * n
  OBVIOUS
<1> QED BY <1>1, <1>3, <1>4

\* Every page has its page table, and every page table its directory.
LEMMA PageNumbers ==
  /\ Vas \subseteq Nat /\ Pts \subseteq Nat /\ Pds \subseteq Nat
  /\ NPD * PDN * PTN \in Nat
  /\ \A v \in Vas : PtOf(v) \in Pts
  /\ \A j \in Pts : PdOf(j) \in Pds
  /\ IsFiniteSet(Vas) /\ IsFiniteSet(Pts) /\ IsFiniteSet(Pds)
<1>1. NPD \in Nat /\ PDN \in Nat \ {0} /\ PTN \in Nat \ {0}
  BY VmAssumption
<1>2. NPD * PDN \in Nat /\ NPD * PDN * PTN \in Nat
  BY <1>1
<1>3. \A v \in Vas : PtOf(v) \in Pts
  BY <1>1, <1>2, DivBound DEF Vas, Pts, PtOf
<1>4. \A j \in Pts : PdOf(j) \in Pds
  BY <1>1, <1>2, DivBound DEF Pts, Pds, PdOf
<1>5. Vas \subseteq Nat /\ Pts \subseteq Nat /\ Pds \subseteq Nat
  BY <1>1, <1>2 DEF Vas, Pts, Pds
<1>6. IsFiniteSet(Vas) /\ IsFiniteSet(Pts) /\ IsFiniteSet(Pds)
  BY <1>1, <1>2, FS_Interval DEF Vas, Pts, Pds
<1> QED BY <1>2, <1>3, <1>4, <1>5, <1>6

LEMMA LeastNat ==
  ASSUME NEW T \in SUBSET Nat, T # {}
  PROVE  \E n \in T : \A m \in T : n <= m
<1>1. IsWellFoundedOn(OpToRel(<, Nat), Nat)
  BY NatLessThanWellFounded
<1>2. PICK n \in T : \A m \in T : ~(<<m, n>> \in OpToRel(<, Nat))
  BY <1>1, WFMin
<1>3. ASSUME NEW m \in T, m < n PROVE FALSE
  <2>1. <<m, n>> \in OpToRel(<, Nat)
    BY <1>3 DEF OpToRel
  <2> QED BY <1>2, <2>1
<1>4. \A m \in T : n <= m
  BY <1>3, n \in Nat
<1> QED BY <1>4

\* get_pte is called for one of the pages still to do.
LEMMA VaIsPage ==
  ASSUME op.pages \subseteq Vas, op.pages # {}
  PROVE  Va \in op.pages /\ Va \in Vas /\ PtOf(Va) \in Pts /\ PdOf(PtOf(Va)) \in Pds
<1> DEFINE Down == op.at = "insert" /\ op.area.stack
           S == op.pages
<1>1. \E v \in S : \A u \in S : IF Down THEN u <= v ELSE v <= u
  <2>0. S \subseteq Nat /\ Vas \subseteq Nat
    BY PageNumbers
  <2>1. CASE ~Down
    BY <2>0, <2>1, LeastNat
  <2>2. CASE Down
    <3> DEFINE N == NPD * PDN * PTN
               T == {N - v : v \in S}
    <3>1. N \in Nat /\ \A v \in S : v < N
      BY PageNumbers DEF Vas
    <3>2. T \in SUBSET Nat /\ T # {}
      BY <3>1, <2>0
    <3>3. PICK n \in T : \A m \in T : n <= m
      BY <3>2, LeastNat
    <3>4. PICK v \in S : n = N - v
      OBVIOUS
    <3>5. ASSUME NEW u \in S PROVE u <= v
      <4>1. N - v <= N - u
        BY <3>3, <3>4
      <4> HIDE DEF N
      <4> QED BY <4>1, <3>1, <2>0
    <3> QED BY <3>5, <2>2
  <2> QED BY <2>1, <2>2
<1>2. Va \in S
  BY <1>1, Zenon DEF Va
<1> QED BY <1>2, PageNumbers

----------------------------------------------------------------------------
(***************************************************************************)
(* The inductive invariant, the part about calls and page tables.  It      *)
(* needs to know where the call in progress is, because a fork, a load or  *)
(* an exit leaves an address space half built or half taken apart.         *)
(***************************************************************************)
Segs == {a \in Area : a.lo < a.hi /\ a.pages \subseteq a.lo..(a.hi - 1)}

Within(v, a) == a.lo <= v /\ v < a.hi
Inside(v, p) == \E a \in mmap[p] : Within(v, a)

MemTypes ==
  /\ state \in [Procs -> {"none", "new", "run", "zombie"}]
  /\ kstack \in [Procs -> Frames \cup {NULL}]
  /\ mmap \in [Procs -> SUBSET Segs]
  /\ pgdir \in [Procs -> Frames \cup {NULL}]
  /\ pd0 \in [Procs -> [Pds -> Frames \cup {NULL}]]
  /\ pt \in [Procs -> [Pts -> Frames \cup {NULL}]]
  /\ pte \in [Procs -> [Vas -> Frames \cup {NULL}]]
  /\ w \in [Procs -> SUBSET Vas] /\ cow \in [Procs -> SUBSET Vas]
  /\ share \in BOOLEAN /\ panic \in BOOLEAN
  /\ free \subseteq Frames /\ half \subseteq Frames /\ lost \subseteq Frames

Stages == {"pgdir", "dup", "copy", "map", "page", "insert", "fault", "unmap",
           "tables", "gone"}
Calls == [at : Stages, why : {"fork", "exec", "load", "exit", "fault"},
          p : Procs, m : Procs, prog : SUBSET Segs, todo : SUBSET Segs,
          area : Segs \cup {NoArea}, pages : SUBSET Vas,
          page : Frames \cup {NULL}, n : Nat]
OpTypes == op \in Calls \/ (op.n \in Nat /\ op = Idle(op.n))

Forking == op.at \in {"dup", "copy"}
Loading == op.at \in {"map", "page", "insert"}
Leaving == op.at \in {"unmap", "tables", "gone"}

\* Whose address space a call works on, and that it has one from setup_pgdir
\* to put_pgdir.
CallOK ==
  /\ op.at # "idle" =>
       /\ op.why = "fork" => /\ op.p # op.m /\ state[op.m] = "new"
                             /\ state[op.p] = "run" /\ pgdir[op.p] # NULL
       /\ op.why # "fork" => op.p = op.m /\ state[op.p] = "run"
       /\ op.at \in {"pgdir", "gone"} <=> pgdir[op.m] = NULL
  /\ \A q \in Procs : state[q] = "new" =>
       op.at # "idle" /\ op.why = "fork" /\ q = op.m
  /\ op.at = "pgdir" => op.why \in {"fork", "load"}
  /\ Forking => op.why = "fork"
  /\ Loading => op.why = "load"
  /\ op.at = "fault" => op.why = "fault"
  /\ Leaving /\ op.why = "fault" => panic
  /\ op.page # NULL <=> op.at = "insert"

StateOK ==
  \A p \in Procs :
    /\ state[p] \in {"none", "zombie"} => pgdir[p] = NULL
    /\ state[p] = "none" <=> kstack[p] = NULL

\* Every level of the tables is under one that exists.
LevelsOK ==
  \A p \in Procs :
    /\ \A v \in Vas : pte[p][v] # NULL => pt[p][PtOf(v)] # NULL /\ Inside(v, p)
    /\ \A j \in Pts : pt[p][j] # NULL => pd0[p][PdOf(j)] # NULL
    /\ \A i \in Pds : pd0[p][i] # NULL => pgdir[p] # NULL
    /\ mmap[p] # {} => pgdir[p] # NULL

ApartOK ==
  \A p \in Procs : \A a, b \in mmap[p] : a # b => a.hi <= b.lo \/ b.hi <= a.lo

\* What a call has still to do.
TodoOK ==
  /\ op.at = "unmap" => op.todo = mmap[op.m]
  /\ op.at = "tables" => /\ op.todo \subseteq mmap[op.m]
                         /\ \A v \in Vas : pte[op.m][v] = NULL
  /\ Loading => \A a \in op.todo : \A b \in mmap[op.m] : b.lo <= a.lo
  /\ op.at \in {"page", "insert", "fault"} =>
       op.area \in mmap[op.m] /\ \A v \in op.pages : Within(v, op.area)
  /\ op.pages # {} => op.at \in {"copy", "page", "insert", "fault"}
  /\ op.at \in {"insert", "fault"} => op.pages # {}
  /\ \A v \in op.pages : pte[op.m][v] = NULL

\* dup_mmap so far: the child has every page of its vmas that its parent has,
\* but for those copy_range has still to do.
DupOK ==
  Forking =>
    /\ op.todo \cup mmap[op.m] = mmap[op.p] /\ op.todo \cap mmap[op.m] = {}
    /\ \A v \in op.pages : Inside(v, op.m)
    /\ \A v \in Vas : Inside(v, op.m) =>
         (pte[op.m][v] # NULL <=> pte[op.p][v] # NULL /\ v \notin op.pages)
    /\ \A v \in op.pages : pte[op.p][v] # NULL
    /\ share => \A v \in Vas : pte[op.m][v] # NULL => pte[op.m][v] = pte[op.p][v]

Core == /\ MemTypes /\ OpTypes /\ CallOK /\ StateOK /\ LevelsOK /\ ApartOK
        /\ TodoOK /\ DupOK

----------------------------------------------------------------------------
(* Core: the initial state *)

LEMMA IdleFields ==
  ASSUME NEW n
  PROVE  /\ Idle(n).at = "idle" /\ Idle(n).todo = {} /\ Idle(n).pages = {}
         /\ Idle(n).page = NULL /\ Idle(n).n = n
         /\ Idle(n) = Idle(Idle(n).n)
BY DEF Idle

\* What is known of op in a call, and between calls.
LEMMA OpFacts ==
  ASSUME OpTypes
  PROVE  /\ op.at # "idle" => op \in Calls
         /\ op.at = "idle" => /\ op.n \in Nat /\ op = Idle(op.n) /\ op.todo = {}
                              /\ op.pages = {} /\ op.page = NULL
         /\ op.n \in Nat /\ op.pages \subseteq Vas /\ op.todo \subseteq Segs
         /\ op.page \in Frames \cup {NULL}
<1>1. CASE op \in Calls
  BY <1>1 DEF Calls, Stages
<1>2. CASE op.n \in Nat /\ op = Idle(op.n)
  BY <1>2 DEF Idle
<1> QED BY <1>1, <1>2 DEF OpTypes

LEMMA CoreInit == Init => Core
<1> SUFFICES ASSUME Init PROVE Core
  OBVIOUS
<1>1. MemTypes
  <2>1. \A n \in Sizes : 1..n \subseteq Frames
    BY VmAssumption DEF Frames
  <2> QED BY <2>1 DEF Init, MemTypes, NULL
<1>2. OpTypes /\ op.at = "idle" /\ op.pages = {} /\ op.page = NULL
  BY IdleFields DEF Init, OpTypes
<1>3. CallOK /\ StateOK
  BY <1>2 DEF Init, CallOK, StateOK, Forking, Loading, Leaving
<1>4. LevelsOK /\ ApartOK
  BY PageNumbers DEF Init, LevelsOK, ApartOK
<1>5. TodoOK /\ DupOK
  BY <1>2 DEF Init, TodoOK, DupOK, Forking, Loading
<1> QED BY <1>1, <1>2, <1>3, <1>4, <1>5 DEF Core

----------------------------------------------------------------------------
(* Core: steps that move the call on and leave the address spaces alone *)

\* What Core says of the address spaces does not mention op.
LEMMA SameSpaces ==
  ASSUME Core, UNCHANGED <<state, kstack, mapVars, lost>>,
         free' \subseteq Frames, half' \subseteq Frames, panic' \in BOOLEAN
  PROVE  MemTypes' /\ StateOK' /\ LevelsOK' /\ ApartOK'
BY DEF Core, MemTypes, StateOK, LevelsOK, ApartOK, Inside, Within, mapVars, bits

LEMMA CleanUpCore ==
  ASSUME Core, CleanUp, UNCHANGED <<state, kstack, mapVars, lost>>,
         op.at \in Stages \ {"pgdir", "gone"}, op.why = "fault" => panic',
         free' \subseteq Frames, panic' \in BOOLEAN
  PROVE  Core'
<1> USE DEF Core
<1>1. op \in Calls
  BY OpFacts DEF Stages
<1>2. /\ op' \in Calls /\ op'.at = "unmap" /\ op'.why = op.why /\ op'.p = op.p
      /\ op'.m = op.m /\ op'.todo = mmap[op.m] /\ op'.pages = {} /\ op'.page = NULL
  BY <1>1 DEF CleanUp, Calls, MemTypes, NULL, Stages
<1>3. half' \subseteq Frames
  BY <1>1 DEF CleanUp, Calls, MemTypes
<1>4. MemTypes' /\ StateOK' /\ LevelsOK' /\ ApartOK'
  BY <1>3, SameSpaces
<1>5. OpTypes'
  BY <1>2 DEF OpTypes
<1>6. CallOK'
  BY <1>1, <1>2 DEF CallOK, Stages, Forking, Loading, Leaving, mapVars
<1>7. TodoOK' /\ DupOK'
  BY <1>2 DEF TodoOK, DupOK, Forking, Loading, mapVars
<1> QED BY <1>4, <1>5, <1>6, <1>7

LEMMA GetPteFailsCore == Core /\ GetPteFails => Core'
<1> SUFFICES ASSUME Core, GetPteFails PROVE Core'
  OBVIOUS
<1>1. op.at \in {"copy", "insert", "fault"} /\ ~panic
  BY DEF GetPteFails, Building, At
<1>2. free' \subseteq Frames
  <2>1. op.page \in Frames \cup {NULL} /\ (op.page # NULL <=> op.at = "insert")
    BY OpFacts DEF Core, CallOK
  <2> QED BY <2>1 DEF GetPteFails, PageBack, FreePages, Core, MemTypes
<1>3. op.why = "fault" => op.at = "fault"
  BY <1>1 DEF Core, CallOK, Forking, Loading
<1> QED BY <1>1, <1>2, <1>3, CleanUpCore DEF GetPteFails, Stages

LEMMA BuildFailsCore == Core /\ BuildFails => Core'
<1> SUFFICES ASSUME Core, BuildFails PROVE Core'
  OBVIOUS
<1>1. op.at \in {"page", "map", "dup"}
  BY DEF BuildFails, At
<1>2. op.why # "fault"
  BY <1>1 DEF Core, CallOK, Forking, Loading
<1>3. free' \subseteq Frames /\ panic' \in BOOLEAN
  BY DEF BuildFails, memVars, Core, MemTypes
<1> QED BY <1>1, <1>2, <1>3, CleanUpCore DEF BuildFails, Stages

LEMMA ForkFilesFailCore == Core /\ ForkFilesFail => Core'
<1> SUFFICES ASSUME Core, ForkFilesFail PROVE Core'
  OBVIOUS
<1>1. op.at = "dup"
  BY DEF ForkFilesFail, At
<1>2. op.why # "fault"
  BY <1>1 DEF Core, CallOK, Forking
<1>3. free' \subseteq Frames /\ panic' \in BOOLEAN
  BY DEF ForkFilesFail, memVars, Core, MemTypes
<1> QED BY <1>1, <1>2, <1>3, CleanUpCore DEF ForkFilesFail, Stages

LEMMA LoadPageFailsCore == Core /\ LoadPageFails => Core'
<1> SUFFICES ASSUME Core, LoadPageFails PROVE Core'
  OBVIOUS
<1>1. op.at = "page" /\ op \in Calls
  BY OpFacts DEF LoadPageFails, At, Core
<1>2. op.why # "fault"
  BY <1>1 DEF Core, CallOK, Loading
<1>3. op.area.stack \in BOOLEAN
  <2>1. op.area \in Segs \/ op.area = NoArea
    BY <1>1 DEF Calls
  <2>2. \A a \in Segs : a.stack \in BOOLEAN
    BY DEF Segs, Area
  <2>3. NoArea.stack = FALSE
    BY DEF NoArea
  <2> QED BY <2>1, <2>2, <2>3
<1>4. free' \subseteq Frames /\ panic' \in BOOLEAN
  BY <1>3 DEF LoadPageFails, memVars, Core, MemTypes
<1> QED BY <1>1, <1>2, <1>4, CleanUpCore DEF LoadPageFails, Stages

\* Steps that leave everything but the call itself alone.
LEMMA SetupPgdirFailsCore == Core /\ SetupPgdirFails => Core'
<1> SUFFICES ASSUME Core, SetupPgdirFails PROVE Core'
  OBVIOUS
<1> USE DEF Core
<1>1. op.at = "pgdir" /\ op \in Calls
  BY OpFacts DEF SetupPgdirFails, At
<1>2. /\ op' \in Calls /\ op'.at = "gone" /\ op'.why = op.why /\ op'.p = op.p
      /\ op'.m = op.m /\ op'.pages = op.pages /\ op'.page = op.page
  BY <1>1 DEF SetupPgdirFails, Calls, Stages
<1>3. UNCHANGED <<state, kstack, mapVars, lost, free, half, panic>>
  BY DEF SetupPgdirFails, memVars
<1>4. MemTypes' /\ StateOK' /\ LevelsOK' /\ ApartOK'
  BY <1>3, SameSpaces DEF MemTypes
<1>5. OpTypes' /\ CallOK'
  BY <1>1, <1>2, <1>3 DEF OpTypes, CallOK, Forking, Loading, Leaving, mapVars
<1>6. TodoOK' /\ DupOK'
  BY <1>1, <1>2, <1>3 DEF TodoOK, DupOK, Forking, Loading, mapVars
<1> QED BY <1>4, <1>5, <1>6

LEMMA CopyNextCore == Core /\ CopyNext => Core'
<1> SUFFICES ASSUME Core, CopyNext PROVE Core'
  OBVIOUS
<1> USE DEF Core
<1>1. op.at = "copy" /\ op \in Calls /\ op.pages = {}
  BY OpFacts DEF CopyNext, At
<1>2. /\ op' \in Calls /\ op'.at = "dup" /\ op'.why = op.why /\ op'.p = op.p
      /\ op'.m = op.m /\ op'.todo = op.todo /\ op'.pages = {} /\ op'.page = op.page
  BY <1>1 DEF CopyNext, Calls, Stages
<1>3. UNCHANGED <<state, kstack, mapVars, lost, free, half, panic>>
  BY DEF CopyNext, memVars
<1>4. MemTypes' /\ StateOK' /\ LevelsOK' /\ ApartOK'
  BY <1>3, SameSpaces DEF MemTypes
<1>5. OpTypes' /\ CallOK'
  BY <1>1, <1>2, <1>3 DEF OpTypes, CallOK, Forking, Loading, Leaving, mapVars
<1>6. TodoOK' /\ DupOK'
  BY <1>1, <1>2, <1>3 DEF TodoOK, DupOK, Forking, Loading, mapVars, bits, Inside
<1> QED BY <1>4, <1>5, <1>6

LEMMA AreaDoneCore == Core /\ AreaDone => Core'
<1> SUFFICES ASSUME Core, AreaDone PROVE Core'
  OBVIOUS
<1> USE DEF Core
<1>1. op.at = "page" /\ op \in Calls /\ op.pages = {}
  BY OpFacts DEF AreaDone, At
<1>2. /\ op' \in Calls /\ op'.at = "map" /\ op'.why = op.why /\ op'.p = op.p
      /\ op'.m = op.m /\ op'.todo = op.todo /\ op'.pages = {} /\ op'.page = op.page
  BY <1>1 DEF AreaDone, Calls, Stages
<1>3. UNCHANGED <<state, kstack, mapVars, lost, free, half, panic>>
  BY DEF AreaDone, memVars
<1>4. MemTypes' /\ StateOK' /\ LevelsOK' /\ ApartOK'
  BY <1>3, SameSpaces DEF MemTypes
<1>5. OpTypes' /\ CallOK'
  BY <1>1, <1>2, <1>3 DEF OpTypes, CallOK, Forking, Loading, Leaving, mapVars
<1>6. TodoOK' /\ DupOK'
  BY <1>1, <1>2, <1>3 DEF TodoOK, DupOK, Forking, Loading, mapVars
<1> QED BY <1>4, <1>5, <1>6

LEMMA LoadPageCore == ASSUME Core, NEW f \in Frames, LoadPage(f) PROVE Core'
<1> USE DEF Core
<1>1. op.at = "page" /\ op \in Calls /\ op.pages # {}
  BY OpFacts DEF LoadPage, At
<1>2. /\ op' \in Calls /\ op'.at = "insert" /\ op'.why = op.why /\ op'.p = op.p
      /\ op'.m = op.m /\ op'.todo = op.todo /\ op'.pages = op.pages /\ op'.page = f
      /\ op'.area = op.area
  BY <1>1 DEF LoadPage, Calls, Stages
<1>3. UNCHANGED <<state, kstack, mapVars, lost, half, panic>> /\ free' \subseteq Frames
  BY DEF LoadPage, Alloc, MemTypes
<1>4. MemTypes' /\ StateOK' /\ LevelsOK' /\ ApartOK'
  BY <1>3, SameSpaces DEF MemTypes
<1>5. OpTypes' /\ CallOK'
  <2>1. f # NULL
    BY DEF Frames, NULL
  <2> QED BY <2>1, <1>1, <1>2, <1>3
          DEF OpTypes, CallOK, Forking, Loading, Leaving, mapVars
<1>6. TodoOK' /\ DupOK'
  BY <1>1, <1>2, <1>3 DEF TodoOK, DupOK, Forking, Loading, mapVars, Within
<1> QED BY <1>4, <1>5, <1>6

\* Between calls there is nothing to do.
LEMMA IdleCore ==
  ASSUME Core, NEW n \in Nat, op' = Idle(n), \A q \in Procs : state'[q] # "new"
  PROVE  OpTypes' /\ CallOK' /\ TodoOK' /\ DupOK'
<1>1. /\ op'.at = "idle" /\ op'.todo = {} /\ op'.pages = {} /\ op'.page = NULL
      /\ op'.n \in Nat /\ op' = Idle(op'.n)
  BY IdleFields
<1>2. OpTypes'
  BY <1>1 DEF OpTypes, Idle
<1>3. CallOK'
  BY <1>1 DEF CallOK, Forking, Loading, Leaving
<1>4. TodoOK' /\ DupOK'
  BY <1>1 DEF TodoOK, DupOK, Forking, Loading
<1> QED BY <1>2, <1>3, <1>4

LEMMA ExecDoneCore == Core /\ ExecDone => Core'
<1> SUFFICES ASSUME Core, ExecDone PROVE Core'
  OBVIOUS
<1> USE DEF Core
<1>1. op.at = "map" /\ op.n \in Nat
  BY OpFacts DEF ExecDone, At
<1>2. UNCHANGED <<state, kstack, mapVars, lost, free, half, panic>>
  BY DEF ExecDone, memVars
<1>3. MemTypes' /\ StateOK' /\ LevelsOK' /\ ApartOK'
  BY <1>2, SameSpaces DEF MemTypes
<1>4. \A q \in Procs : state'[q] # "new"
  BY <1>1, <1>2 DEF CallOK, Loading
<1> QED BY <1>1, <1>2, <1>3, <1>4, IdleCore DEF ExecDone, mapVars, bits

----------------------------------------------------------------------------
(* Core: calls begin and end *)

LEMMA ProgramSegs == \A prog \in Programs : prog \subseteq Segs
BY VmAssumption DEF Segs

LEMMA CallFields ==
  ASSUME OpTypes, NEW at \in Stages, NEW why \in {"fork", "exec", "load", "exit", "fault"},
         NEW p \in Procs, NEW m \in Procs, NEW prog \in SUBSET Segs
  PROVE  LET c == Call(at, why, p, m, prog) IN
         /\ c \in Calls /\ c.at = at /\ c.why = why /\ c.p = p /\ c.m = m
         /\ c.prog = prog /\ c.todo = {} /\ c.area = NoArea /\ c.pages = {}
         /\ c.page = NULL /\ c.n \in Nat
BY OpFacts DEF Call, Calls, NULL

LEMMA ExecCore == ASSUME Core, NEW p \in Procs, NEW prog \in Programs, Exec(p, prog) PROVE Core'
<1> USE DEF Core
<1>1. op.at = "idle" /\ op.n \in Nat /\ state[p] = "run" /\ prog \in SUBSET Segs
  BY OpFacts, ProgramSegs DEF Exec, At
<1>2. UNCHANGED <<state, kstack, mapVars, lost, free, half, panic>>
  BY DEF Exec, memVars
<1>3. MemTypes' /\ StateOK' /\ LevelsOK' /\ ApartOK'
  BY <1>2, SameSpaces DEF MemTypes
<1>4. \A q \in Procs : state[q] # "new"
  BY <1>1 DEF CallOK
<1>5. CASE pgdir[p] = NULL
  <2> DEFINE c == Call("pgdir", "load", p, p, prog)
  <2>1. /\ c \in Calls /\ c.at = "pgdir" /\ c.why = "load" /\ c.p = p /\ c.m = p
        /\ c.pages = {} /\ c.page = NULL /\ c.n \in Nat
    BY <1>1, CallFields DEF Stages
  <2>2. op' = [c EXCEPT !.n = @ + 1]
    BY <1>5 DEF Exec
  <2> HIDE DEF c
  <2>3. /\ op' \in Calls /\ op'.at = "pgdir" /\ op'.why = "load" /\ op'.p = p /\ op'.m = p
        /\ op'.pages = {} /\ op'.page = NULL
    BY <2>1, <2>2 DEF Calls
  <2>4. OpTypes' /\ CallOK'
    BY <1>1, <1>2, <1>4, <1>5, <2>3
       DEF OpTypes, CallOK, Forking, Loading, Leaving, mapVars
  <2>5. TodoOK' /\ DupOK'
    BY <2>3 DEF TodoOK, DupOK, Forking, Loading
  <2> QED BY <1>3, <2>4, <2>5
<1>6. CASE pgdir[p] # NULL
  <2> DEFINE c == Call("unmap", "exec", p, p, prog)
  <2>1. /\ c \in Calls /\ c.at = "unmap" /\ c.why = "exec" /\ c.p = p /\ c.m = p
        /\ c.pages = {} /\ c.page = NULL /\ c.n \in Nat
    BY <1>1, CallFields DEF Stages
  <2>2. op' = [c EXCEPT !.todo = mmap[p], !.n = @ + 1]
    BY <1>6 DEF Exec
  <2> HIDE DEF c
  <2>3. /\ op' \in Calls /\ op'.at = "unmap" /\ op'.why = "exec" /\ op'.p = p /\ op'.m = p
        /\ op'.pages = {} /\ op'.page = NULL /\ op'.todo = mmap[p]
    <3>1. mmap[p] \in SUBSET Segs /\ c.n + 1 \in Nat
      BY <2>1 DEF MemTypes
    <3> HIDE DEF Core
    <3> QED BY <2>1, <2>2, <3>1 DEF Calls
  <2>4. OpTypes' /\ CallOK'
    BY <1>1, <1>2, <1>4, <1>6, <2>3
       DEF OpTypes, CallOK, Forking, Loading, Leaving, mapVars
  <2>5. TodoOK' /\ DupOK'
    BY <1>2, <2>3 DEF TodoOK, DupOK, Forking, Loading, mapVars
  <2> QED BY <1>3, <2>4, <2>5
<1> QED BY <1>5, <1>6

LEMMA ExitCore == ASSUME Core, NEW p \in Procs, Exit(p) PROVE Core'
<1> USE DEF Core
<1>1. op.at = "idle" /\ op.n \in Nat /\ state[p] = "run" /\ pgdir[p] # NULL
  BY OpFacts DEF Exit, At
<1>2. UNCHANGED <<state, kstack, mapVars, lost, free, half, panic>>
  BY DEF Exit, memVars
<1>3. MemTypes' /\ StateOK' /\ LevelsOK' /\ ApartOK'
  BY <1>2, SameSpaces DEF MemTypes
<1>4. \A q \in Procs : state[q] # "new"
  BY <1>1 DEF CallOK
<1> DEFINE c == Call("unmap", "exit", p, p, {})
<1>5. /\ c \in Calls /\ c.at = "unmap" /\ c.why = "exit" /\ c.p = p /\ c.m = p
      /\ c.pages = {} /\ c.page = NULL
  BY <1>1, CallFields DEF Stages
<1>6. op' = [c EXCEPT !.todo = mmap[p]]
  BY DEF Exit
<1> HIDE DEF c
<1>7. /\ op' \in Calls /\ op'.at = "unmap" /\ op'.why = "exit" /\ op'.p = p /\ op'.m = p
      /\ op'.pages = {} /\ op'.page = NULL /\ op'.todo = mmap[p]
  BY <1>5, <1>6 DEF Calls, MemTypes
<1>8. OpTypes' /\ CallOK'
  BY <1>1, <1>2, <1>4, <1>7 DEF OpTypes, CallOK, Forking, Loading, Leaving, mapVars
<1>9. TodoOK' /\ DupOK'
  BY <1>2, <1>7 DEF TodoOK, DupOK, Forking, Loading, mapVars
<1> QED BY <1>3, <1>8, <1>9

LEMMA ExecLoadCore == Core /\ ExecLoad => Core'
<1> SUFFICES ASSUME Core, ExecLoad PROVE Core'
  OBVIOUS
<1> USE DEF Core
<1>1. op.at = "gone" /\ op \in Calls /\ op.why = "exec"
  BY OpFacts DEF ExecLoad, At
<1>2. UNCHANGED <<state, kstack, mapVars, lost, free, half, panic>>
  BY DEF ExecLoad, memVars
<1>3. MemTypes' /\ StateOK' /\ LevelsOK' /\ ApartOK'
  BY <1>2, SameSpaces DEF MemTypes
<1>4. op.p \in Procs /\ op.prog \in SUBSET Segs /\ op.p = op.m /\ pgdir[op.m] = NULL
      /\ state[op.p] = "run"
  BY <1>1 DEF Calls, CallOK
<1>5. /\ op' \in Calls /\ op'.at = "pgdir" /\ op'.why = "load" /\ op'.p = op.p
      /\ op'.m = op.p /\ op'.pages = {} /\ op'.page = NULL
  BY <1>1, <1>4, CallFields DEF ExecLoad, Stages
<1>6. OpTypes' /\ CallOK'
  BY <1>1, <1>2, <1>4, <1>5 DEF OpTypes, CallOK, Forking, Loading, Leaving, mapVars
<1>7. TodoOK' /\ DupOK'
  BY <1>5 DEF TodoOK, DupOK, Forking, Loading
<1> QED BY <1>3, <1>6, <1>7

LEMMA TouchFaultCore == ASSUME Core, NEW p \in Procs, NEW v \in Vas, TouchFault(p, v) PROVE Core'
<1> USE DEF Core
<1>1. op.at = "idle" /\ op.n \in Nat /\ state[p] = "run" /\ pte[p][v] = NULL
  BY OpFacts DEF TouchFault, Fault, At
<1>2. UNCHANGED <<state, kstack, mapVars, lost, free, half, panic>>
  BY DEF TouchFault, memVars
<1>3. MemTypes' /\ StateOK' /\ LevelsOK' /\ ApartOK'
  BY <1>2, SameSpaces DEF MemTypes
<1>4. \A q \in Procs : state[q] # "new"
  BY <1>1 DEF CallOK
<1> DEFINE c == Call("fault", "fault", p, p, {})
<1>5. /\ c \in Calls /\ c.at = "fault" /\ c.why = "fault" /\ c.p = p /\ c.m = p
      /\ c.pages = {} /\ c.page = NULL /\ c.n \in Nat
  BY <1>1, CallFields DEF Stages
<1>6. PICK a \in mmap[p] : Within(v, a) /\ op' = [c EXCEPT !.n = @ + 1, !.area = a, !.pages = {v}]
  BY DEF TouchFault, Within
<1> HIDE DEF c
<1>7. /\ op' \in Calls /\ op'.at = "fault" /\ op'.why = "fault" /\ op'.p = p /\ op'.m = p
      /\ op'.pages = {v} /\ op'.page = NULL /\ op'.area = a
  <2>1. a \in Segs /\ c.n + 1 \in Nat
    BY <1>5 DEF MemTypes
  <2> HIDE DEF Core
  <2> QED BY <1>5, <1>6, <2>1 DEF Calls
<1>8. OpTypes' /\ CallOK'
  <2>1. pgdir[p] # NULL
    BY <1>6 DEF LevelsOK
  <2> QED BY <2>1, <1>1, <1>2, <1>4, <1>7
          DEF OpTypes, CallOK, Forking, Loading, Leaving, mapVars
<1>9. TodoOK' /\ DupOK'
  BY <1>1, <1>2, <1>6, <1>7 DEF TodoOK, DupOK, Forking, Loading, mapVars, Within
<1> QED BY <1>3, <1>8, <1>9

LEMMA PanicCore == ASSUME Core, CopyPagePanic \/ FaultPanic PROVE Core'
<1> USE DEF Core
<1>1. UNCHANGED <<state, kstack, mapVars, lost, free, half, op>> /\ panic' = TRUE
  BY DEF CopyPagePanic, FaultPanic, memVars
<1>2. MemTypes' /\ StateOK' /\ LevelsOK' /\ ApartOK'
  BY <1>1, SameSpaces DEF MemTypes
<1>3. OpTypes' /\ CallOK'
  BY <1>1 DEF OpTypes, Calls, Idle, CallOK, Forking, Loading, Leaving, mapVars
<1>4. TodoOK' /\ DupOK'
  BY <1>1 DEF TodoOK, DupOK, Forking, Loading, mapVars, bits, Inside, Within
<1> QED BY <1>2, <1>3, <1>4

LEMMA ForkDoneCore == Core /\ ForkDone => Core'
<1> SUFFICES ASSUME Core, ForkDone PROVE Core'
  OBVIOUS
<1> USE DEF Core
<1>1. /\ op.at = "dup" /\ op \in Calls /\ op.n \in Nat /\ op.why = "fork"
      /\ op.m \in Procs /\ state[op.m] = "new" /\ pgdir[op.m] # NULL
  BY OpFacts DEF ForkDone, At, CallOK, Forking, Calls
<1>2. UNCHANGED <<kstack, mapVars, lost, free, half, panic>>
      /\ state' = [state EXCEPT ![op.m] = "run"]
  BY DEF ForkDone, memVars
<1>3. MemTypes'
  BY <1>1, <1>2 DEF MemTypes, mapVars, bits
<1>4. StateOK'
  BY <1>1, <1>2 DEF MemTypes, StateOK, mapVars
<1>5. LevelsOK' /\ ApartOK'
  BY <1>2 DEF LevelsOK, ApartOK, mapVars, Inside
<1>6. \A q \in Procs : state'[q] # "new"
  BY <1>1, <1>2 DEF CallOK, MemTypes
<1> QED BY <1>1, <1>2, <1>3, <1>4, <1>5, <1>6, IdleCore DEF ForkDone, mapVars, bits

LEMMA BecomeZombieCore == Core /\ BecomeZombie => Core'
<1> SUFFICES ASSUME Core, BecomeZombie PROVE Core'
  OBVIOUS
<1> USE DEF Core
<1>1. /\ op.at = "gone" /\ op \in Calls /\ op.n \in Nat /\ op.why # "fork" /\ op.p = op.m
      /\ op.p \in Procs /\ state[op.p] = "run" /\ pgdir[op.p] = NULL
  BY OpFacts DEF BecomeZombie, At, CallOK, Calls
<1>2. UNCHANGED <<kstack, mapVars, lost, free, half, panic>>
      /\ state' = [state EXCEPT ![op.p] = "zombie"]
  BY DEF BecomeZombie, memVars
<1>3. MemTypes'
  BY <1>1, <1>2 DEF MemTypes, mapVars, bits
<1>4. StateOK'
  BY <1>1, <1>2 DEF MemTypes, StateOK, mapVars
<1>5. LevelsOK' /\ ApartOK'
  BY <1>2 DEF LevelsOK, ApartOK, mapVars, Inside
<1>6. \A q \in Procs : state'[q] # "new"
  BY <1>1, <1>2 DEF CallOK, MemTypes
<1> QED BY <1>1, <1>2, <1>3, <1>4, <1>5, <1>6, IdleCore DEF BecomeZombie, mapVars, bits

LEMMA ForkFailedCore == Core /\ ForkFailed => Core'
<1> SUFFICES ASSUME Core, ForkFailed PROVE Core'
  OBVIOUS
<1> USE DEF Core
<1>1. /\ op.at = "gone" /\ op \in Calls /\ op.n \in Nat /\ op.why = "fork"
      /\ op.m \in Procs /\ state[op.m] = "new" /\ pgdir[op.m] = NULL
  BY OpFacts DEF ForkFailed, At, CallOK, Calls
<1>2. /\ UNCHANGED <<mapVars, lost, half, panic>>
      /\ state' = [state EXCEPT ![op.m] = "none"]
      /\ kstack' = [kstack EXCEPT ![op.m] = NULL]
  BY DEF ForkFailed
<1>3. kstack[op.m] # NULL
  BY <1>1 DEF StateOK
<1>4. MemTypes'
  <2>1. kstack[op.m] \in Frames
    BY <1>1, <1>3 DEF MemTypes
  <2>2. free' \subseteq Frames
    BY <2>1 DEF ForkFailed, FreePages, MemTypes
  <2> QED BY <1>1, <1>2, <2>2 DEF MemTypes, mapVars, bits
<1>5. StateOK'
  BY <1>1, <1>2 DEF MemTypes, StateOK, mapVars
<1>6. LevelsOK' /\ ApartOK'
  BY <1>2 DEF LevelsOK, ApartOK, mapVars, Inside
<1>7. \A q \in Procs : state'[q] # "new"
  BY <1>1, <1>2 DEF CallOK, MemTypes
<1> QED BY <1>1, <1>2, <1>4, <1>5, <1>6, <1>7, IdleCore DEF ForkFailed, mapVars, bits

LEMMA ReapCore == ASSUME Core, NEW p \in Procs, Reap(p) PROVE Core'
<1> USE DEF Core
<1>1. /\ op.at = "idle" /\ op.n \in Nat /\ op = Idle(op.n) /\ state[p] = "zombie"
      /\ op' = op
  BY OpFacts DEF Reap, At
<1>2. /\ UNCHANGED <<mapVars, lost, half, panic>>
      /\ state' = [state EXCEPT ![p] = "none"]
      /\ kstack' = [kstack EXCEPT ![p] = NULL]
  BY DEF Reap
<1>3. kstack[p] # NULL /\ pgdir[p] = NULL
  BY <1>1 DEF StateOK
<1>4. MemTypes'
  <2>1. kstack[p] \in Frames
    BY <1>1, <1>3 DEF MemTypes
  <2>2. free' \subseteq Frames
    BY <2>1 DEF Reap, FreePages, MemTypes
  <2> QED BY <1>1, <1>2, <2>2 DEF MemTypes, mapVars, bits
<1>5. StateOK'
  BY <1>1, <1>2, <1>3 DEF MemTypes, StateOK, mapVars
<1>6. LevelsOK' /\ ApartOK'
  BY <1>2 DEF LevelsOK, ApartOK, mapVars, Inside
<1>7. \A q \in Procs : state'[q] # "new"
  BY <1>1, <1>2 DEF CallOK, MemTypes
<1>8. op' = Idle(op.n)
  BY <1>1
<1> QED BY <1>1, <1>2, <1>4, <1>5, <1>6, <1>7, <1>8, IdleCore DEF mapVars, bits

LEMMA KernelThreadCore ==
  ASSUME Core, NEW c \in Procs, NEW f \in Frames, KernelThread(c, f) PROVE Core'
<1> USE DEF Core
<1>1. /\ op.at = "idle" /\ op.n \in Nat /\ state[c] = "none"
      /\ op' = Idle(op.n + 1)
  BY OpFacts DEF KernelThread, At
<1>2. /\ UNCHANGED <<mapVars, lost, half, panic>>
      /\ state' = [state EXCEPT ![c] = "run"]
      /\ kstack' = [kstack EXCEPT ![c] = f]
  BY DEF KernelThread
<1>3. f # NULL
  BY DEF Frames, NULL
<1>4. MemTypes'
  BY <1>1, <1>2 DEF KernelThread, Alloc, MemTypes, mapVars, bits
<1>5. StateOK'
  BY <1>1, <1>2, <1>3 DEF MemTypes, StateOK, mapVars
<1>6. LevelsOK' /\ ApartOK'
  BY <1>2 DEF LevelsOK, ApartOK, mapVars, Inside
<1>7. \A q \in Procs : state'[q] # "new"
  BY <1>1, <1>2 DEF CallOK, MemTypes
<1>8. op.n + 1 \in Nat
  BY <1>1
<1> QED BY <1>1, <1>2, <1>4, <1>5, <1>6, <1>7, <1>8, IdleCore DEF mapVars, bits

LEMMA ForkCore ==
  ASSUME Core, NEW p \in Procs, NEW c \in Procs, NEW f \in Frames, Fork(p, c, f)
  PROVE  Core'
<1> USE DEF Core
<1>1. /\ op.at = "idle" /\ op.n \in Nat /\ state[c] = "none" /\ state[p] = "run"
      /\ pgdir[p] # NULL
  BY OpFacts DEF Fork, At
<1>2. /\ UNCHANGED <<mapVars, lost, half, panic>>
      /\ state' = [state EXCEPT ![c] = "new"]
      /\ kstack' = [kstack EXCEPT ![c] = f]
  BY DEF Fork
<1>3. f # NULL /\ p # c /\ pgdir[c] = NULL
  BY <1>1 DEF Frames, NULL, StateOK
<1>4. MemTypes'
  BY <1>1, <1>2 DEF Fork, Alloc, MemTypes, mapVars, bits
<1>5. StateOK'
  BY <1>1, <1>2, <1>3 DEF MemTypes, StateOK, mapVars
<1>6. LevelsOK' /\ ApartOK'
  BY <1>2 DEF LevelsOK, ApartOK, mapVars, Inside
<1> DEFINE k == Call("pgdir", "fork", p, c, {})
<1>7. /\ k \in Calls /\ k.at = "pgdir" /\ k.why = "fork" /\ k.p = p /\ k.m = c
      /\ k.pages = {} /\ k.page = NULL /\ k.n \in Nat
  BY CallFields DEF Stages
<1>8. op' = [k EXCEPT !.n = @ + 1]
  BY DEF Fork
<1> HIDE DEF k
<1>9. /\ op' \in Calls /\ op'.at = "pgdir" /\ op'.why = "fork" /\ op'.p = p /\ op'.m = c
      /\ op'.pages = {} /\ op'.page = NULL
  BY <1>7, <1>8 DEF Calls
<1>10. OpTypes' /\ CallOK'
  BY <1>1, <1>2, <1>3, <1>9
     DEF OpTypes, CallOK, MemTypes, Forking, Loading, Leaving, mapVars
<1>11. TodoOK' /\ DupOK'
  BY <1>9 DEF TodoOK, DupOK, Forking, Loading
<1> QED BY <1>4, <1>5, <1>6, <1>10, <1>11

LEMMA SetupPgdirCore == ASSUME Core, NEW f \in Frames, SetupPgdir(f) PROVE Core'
<1> USE DEF Core
<1>1. /\ op.at = "pgdir" /\ op \in Calls /\ op.m \in Procs /\ op.p \in Procs
      /\ pgdir[op.m] = NULL /\ op.why \in {"fork", "load"} /\ op.pages = {}
      /\ op.page = NULL /\ op.todo \subseteq Segs /\ op.prog \subseteq Segs
  BY OpFacts DEF SetupPgdir, At, CallOK, TodoOK, Calls
<1>2. /\ UNCHANGED <<state, kstack, mmap, pd0, pt, pte, w, cow, share, lost, half, panic>>
      /\ pgdir' = [pgdir EXCEPT ![op.m] = f] /\ free' \subseteq Frames
  BY DEF SetupPgdir, Alloc, MemTypes, bits
<1>3. f # NULL
  BY DEF Frames, NULL
<1>4. MemTypes'
  BY <1>1, <1>2 DEF MemTypes
<1>5. state[op.m] \notin {"none", "zombie"}
  BY <1>1 DEF CallOK
<1>6. StateOK'
  BY <1>1, <1>2, <1>3, <1>5 DEF MemTypes, StateOK
<1>7. LevelsOK' /\ ApartOK'
  BY <1>1, <1>2, <1>3 DEF MemTypes, LevelsOK, ApartOK, Inside
<1>8. /\ op' \in Calls /\ op'.why = op.why /\ op'.p = op.p /\ op'.m = op.m
      /\ op'.pages = {} /\ op'.page = NULL
      /\ op.why = "fork" => op'.at = "dup" /\ op'.todo = mmap[op.p]
      /\ op.why = "load" => op'.at = "map"
  <2>1. mmap[op.p] \in SUBSET Segs
    BY <1>1 DEF MemTypes
  <2> HIDE DEF Core
  <2> QED BY <1>1, <2>1 DEF SetupPgdir, Calls, Stages
<1>9. \A v \in Vas : pte[op.m][v] = NULL
  BY <1>1, PageNumbers DEF LevelsOK
<1>10. mmap[op.m] = {}
  BY <1>1 DEF LevelsOK
<1>11. OpTypes' /\ CallOK'
  BY <1>1, <1>2, <1>3, <1>8
     DEF OpTypes, CallOK, MemTypes, Forking, Loading, Leaving
<1>12. TodoOK'
  BY <1>1, <1>2, <1>8, <1>10 DEF TodoOK, Loading
<1>13. DupOK'
  BY <1>1, <1>2, <1>8, <1>9, <1>10 DEF DupOK, Forking, Inside
<1> QED BY <1>4, <1>6, <1>7, <1>11, <1>12, <1>13

----------------------------------------------------------------------------
(* Core: page tables grow *)

LEMMA GetPd0Core == ASSUME Core, NEW f \in Frames, GetPd0(f) PROVE Core'
<1> USE DEF Core
<1>1. op.at \in {"copy", "insert", "fault"} /\ op \in Calls /\ op.m \in Procs
      /\ pgdir[op.m] # NULL
  BY OpFacts DEF GetPd0, Building, At, CallOK, Calls
<1> DEFINE i == PdOf(PtOf(Va))
<1>2. i \in Pds
  BY OpFacts, VaIsPage DEF GetPd0, Building
<1>3. /\ UNCHANGED <<state, kstack, mmap, pgdir, pt, pte, w, cow, share, op, lost, half, panic>>
      /\ pd0' = [pd0 EXCEPT ![op.m][i] = f] /\ free' \subseteq Frames
  BY DEF GetPd0, Alloc, MemTypes, bits
<1> HIDE DEF i
<1>4. f # NULL
  BY DEF Frames, NULL
<1>5. MemTypes'
  BY <1>1, <1>2, <1>3 DEF MemTypes
<1>6. StateOK' /\ ApartOK' /\ OpTypes' /\ CallOK'
  BY <1>3 DEF StateOK, ApartOK, OpTypes, Calls, Idle, CallOK, Forking, Loading, Leaving
<1>7. LevelsOK'
  BY <1>1, <1>2, <1>3, <1>4, PageNumbers DEF MemTypes, LevelsOK, Inside
<1>8. TodoOK' /\ DupOK'
  BY <1>3 DEF TodoOK, DupOK, Forking, Loading, Inside, Within
<1> QED BY <1>5, <1>6, <1>7, <1>8

LEMMA GetPtCore == ASSUME Core, NEW f \in Frames, GetPt(f) PROVE Core'
<1> USE DEF Core
<1>1. op.at \in {"copy", "insert", "fault"} /\ op \in Calls /\ op.m \in Procs
  BY OpFacts DEF GetPt, Building, At, CallOK, Calls
<1> DEFINE j == PtOf(Va)
<1>2. j \in Pts /\ PdOf(j) \in Pds /\ pd0[op.m][PdOf(j)] # NULL
  BY OpFacts, VaIsPage DEF GetPt, Building, NoPd0
<1>3. /\ UNCHANGED <<state, kstack, mmap, pgdir, pd0, pte, w, cow, share, op, lost, half, panic>>
      /\ pt' = [pt EXCEPT ![op.m][j] = f] /\ free' \subseteq Frames
  BY DEF GetPt, Alloc, MemTypes, bits
<1> HIDE DEF j
<1>4. f # NULL
  BY DEF Frames, NULL
<1>5. MemTypes'
  BY <1>1, <1>2, <1>3 DEF MemTypes
<1>6. StateOK' /\ ApartOK' /\ OpTypes' /\ CallOK'
  BY <1>3 DEF StateOK, ApartOK, OpTypes, Calls, Idle, CallOK, Forking, Loading, Leaving
<1>7. LevelsOK'
  BY <1>1, <1>2, <1>3, <1>4, PageNumbers DEF MemTypes, LevelsOK, Inside
<1>8. TodoOK' /\ DupOK'
  BY <1>3 DEF TodoOK, DupOK, Forking, Loading, Inside, Within
<1> QED BY <1>5, <1>6, <1>7, <1>8

\* The pages of a vma, and of all the vmas of an address space.
LEMMA SegFacts ==
  ASSUME NEW a \in Segs
  PROVE  /\ a.lo \in Vas /\ a.hi \in Nat /\ a.lo < a.hi /\ a.hi - 1 \in Vas
         /\ a.lo..(a.hi - 1) \subseteq Vas /\ a.pages \subseteq a.lo..(a.hi - 1)
         /\ \A v \in Vas : v \in a.lo..(a.hi - 1) <=> Within(v, a)
<1> DEFINE N == NPD * PDN * PTN
<1>1. N \in Nat
  BY PageNumbers
<1>2. a.lo \in 0..(N - 1) /\ a.hi \in 0..(N - 1) \cup {N} /\ a.lo < a.hi
      /\ a.pages \subseteq a.lo..(a.hi - 1)
  BY DEF Segs, Area, Vas
<1>3. Vas = 0..(N - 1)
  BY DEF Vas
<1> HIDE DEF N
<1>4. a.lo \in Vas /\ a.hi \in Nat /\ a.hi - 1 \in Vas
  BY <1>1, <1>2, <1>3
<1>5. a.lo..(a.hi - 1) \subseteq Vas
  BY <1>1, <1>2, <1>3
<1>6. \A v \in Vas : v \in a.lo..(a.hi - 1) <=> Within(v, a)
  BY <1>1, <1>2, <1>3 DEF Within
<1> QED BY <1>2, <1>4, <1>5, <1>6

LEMMA CoveredFacts ==
  ASSUME MemTypes, NEW m \in Procs
  PROVE  Covered(m) \subseteq Vas /\ \A v \in Vas : v \in Covered(m) <=> Inside(v, m)
<1>1. mmap[m] \subseteq Segs
  BY DEF MemTypes
<1> QED BY <1>1, SegFacts DEF Covered, Inside

\* Vmas that lie apart have no page in common.
LEMMA ApartPages ==
  ASSUME NEW a \in Segs, NEW b \in Segs, a.hi <= b.lo \/ b.hi <= a.lo, NEW v \in Vas
  PROVE  ~(Within(v, a) /\ Within(v, b))
<1>1. a.lo \in Nat /\ a.hi \in Nat /\ b.lo \in Nat /\ b.hi \in Nat /\ v \in Nat
  BY SegFacts, PageNumbers
<1> QED BY <1>1 DEF Within

LEMMA DupVmaCore == ASSUME Core, NEW a \in op.todo, DupVma(a) PROVE Core'
<1> USE DEF Core
<1>1. /\ op.at = "dup" /\ op \in Calls /\ op.m \in Procs /\ op.p \in Procs /\ a \in Segs
      /\ op.why = "fork" /\ op.pages = {} /\ pgdir[op.m] # NULL /\ op.m # op.p
  BY OpFacts DEF DupVma, At, CallOK, TodoOK, Forking, Calls
<1>2. /\ UNCHANGED <<state, kstack, pgdir, pd0, pt, pte, w, cow, share, free, lost, half, panic>>
      /\ mmap' = [mmap EXCEPT ![op.m] = @ \cup {a}]
  BY DEF DupVma, bits, memVars
<1>3. /\ Copied(a) \subseteq Vas
      /\ \A v \in Vas : v \in Copied(a) <=> Within(v, a) /\ pte[op.p][v] # NULL
  <2>1. Copied(a) \subseteq a.lo..(a.hi - 1)
        /\ \A v \in a.lo..(a.hi - 1) :
             v \in Copied(a) <=> pt[op.p][PtOf(v)] # NULL /\ pte[op.p][v] # NULL
    BY DEF Copied
  <2>2. \A v \in Vas : pte[op.p][v] # NULL => pt[op.p][PtOf(v)] # NULL
    BY <1>1 DEF LevelsOK
  <2> QED BY <2>1, <2>2, <1>1, SegFacts
<1>4. /\ op' \in Calls /\ op'.at = "copy" /\ op'.why = op.why /\ op'.p = op.p
      /\ op'.m = op.m /\ op'.pages = Copied(a) /\ op'.page = op.page
      /\ op'.todo = op.todo \ {a}
  <2>1. op' = [op EXCEPT !.at = "copy", !.todo = @ \ {a}, !.pages = Copied(a)]
    BY DEF DupVma
  <2> HIDE DEF Core
  <2> QED BY <1>1, <1>3, <2>1 DEF Calls, Stages
<1>5. MemTypes'
  BY <1>1, <1>2 DEF MemTypes
<1>6. StateOK' /\ OpTypes' /\ CallOK'
  BY <1>1, <1>2, <1>4 DEF StateOK, OpTypes, CallOK, Forking, Loading, Leaving
<1>7. /\ mmap'[op.m] = mmap[op.m] \cup {a} /\ mmap'[op.p] = mmap[op.p]
      /\ a \in mmap[op.p] /\ a \notin mmap[op.m]
      /\ op.todo \cup mmap[op.m] = mmap[op.p] /\ op.todo \cap mmap[op.m] = {}
  BY <1>1, <1>2 DEF MemTypes, DupOK, Forking
<1>8. LevelsOK'
  BY <1>1, <1>2 DEF LevelsOK, MemTypes, Inside
<1>9. ApartOK'
  <2>1. ASSUME NEW b \in mmap[op.m] PROVE a.hi <= b.lo \/ b.hi <= a.lo
    BY <1>1, <1>7 DEF ApartOK
  <2> QED BY <2>1, <1>2, <1>7, <1>1 DEF ApartOK, MemTypes
<1>10. ASSUME NEW v \in Vas PROVE Within(v, a) => pte[op.m][v] = NULL
  <2>1. SUFFICES ASSUME Within(v, a), pte[op.m][v] # NULL PROVE FALSE
    OBVIOUS
  <2>2. PICK b \in mmap[op.m] : Within(v, b)
    BY <2>1, <1>1 DEF LevelsOK, Inside
  <2>3. b \in Segs /\ (a.hi <= b.lo \/ b.hi <= a.lo)
    BY <1>1, <1>7 DEF ApartOK, MemTypes
  <2> QED BY <2>1, <2>2, <2>3, <1>1, ApartPages
<1>11. TodoOK'
  BY <1>2, <1>3, <1>4, <1>10 DEF TodoOK, Loading
<1>12. ASSUME NEW v \in Vas PROVE Inside(v, op.m)' <=> Inside(v, op.m) \/ Within(v, a)
  BY <1>4, <1>7 DEF Inside, Within
<1>13. DupOK'
  <2>1. op'.todo \cup mmap'[op.m] = mmap'[op.p] /\ op'.todo \cap mmap'[op.m] = {}
    BY <1>4, <1>7
  <2>2. \A v \in op'.pages : Inside(v, op.m)' /\ pte'[op.p][v] # NULL
    BY <1>2, <1>3, <1>4, <1>12
  <2>3. share' => \A v \in Vas : pte'[op.m][v] # NULL => pte'[op.m][v] = pte'[op.p][v]
    BY <1>1, <1>2 DEF DupOK, Forking
  <2>4. ASSUME NEW v \in Vas, Inside(v, op.m)'
        PROVE  pte'[op.m][v] # NULL <=> pte'[op.p][v] # NULL /\ v \notin op'.pages
    <3>1. CASE Within(v, a)
      BY <3>1, <1>2, <1>3, <1>4, <1>10
    <3>2. CASE ~Within(v, a)
      BY <3>2, <2>4, <1>1, <1>2, <1>3, <1>4, <1>12 DEF DupOK, Forking
    <3> QED BY <3>1, <3>2
  <2> QED BY <2>1, <2>2, <2>3, <2>4, <1>4 DEF DupOK
<1> QED BY <1>5, <1>6, <1>8, <1>9, <1>11, <1>13

LEMMA MapAreaCore == ASSUME Core, NEW a \in op.todo, MapArea(a) PROVE Core'
<1> USE DEF Core
<1>1. /\ op.at = "map" /\ op \in Calls /\ op.m \in Procs /\ a \in Segs
      /\ op.why = "load" /\ op.pages = {} /\ pgdir[op.m] # NULL
      /\ op.todo \subseteq Segs
  BY OpFacts DEF MapArea, At, CallOK, TodoOK, Loading, Calls
<1>2. /\ UNCHANGED <<state, kstack, pgdir, pd0, pt, pte, w, cow, share, free, lost, half, panic>>
      /\ mmap' = [mmap EXCEPT ![op.m] = @ \cup {a}]
  BY DEF MapArea, bits, memVars
<1>3. /\ op' \in Calls /\ op'.at = "page" /\ op'.why = op.why /\ op'.p = op.p
      /\ op'.m = op.m /\ op'.pages = a.pages /\ op'.page = op.page
      /\ op'.todo = op.todo \ {a} /\ op'.area = a
  <2>1. op' = [op EXCEPT !.at = "page", !.todo = @ \ {a}, !.area = a, !.pages = a.pages]
    BY DEF MapArea
  <2>2. a.pages \subseteq Vas
    BY <1>1, SegFacts
  <2> HIDE DEF Core
  <2> QED BY <1>1, <2>1, <2>2 DEF Calls, Stages
<1>4. MemTypes'
  BY <1>1, <1>2 DEF MemTypes
<1>5. StateOK' /\ OpTypes' /\ CallOK'
  BY <1>1, <1>2, <1>3 DEF StateOK, OpTypes, CallOK, Forking, Loading, Leaving
<1>6. mmap'[op.m] = mmap[op.m] \cup {a} /\ mmap[op.m] \subseteq Segs
  BY <1>1, <1>2 DEF MemTypes
<1>7. LevelsOK'
  BY <1>1, <1>2 DEF LevelsOK, MemTypes, Inside
<1>8. ASSUME NEW b \in mmap[op.m] PROVE b.hi <= a.lo
  <2>1. b.lo <= a.lo
    BY <1>1 DEF TodoOK, Loading
  <2>2. ~(b.lo <= a.lo /\ a.lo < b.hi)
    BY DEF MapArea
  <2>3. b.hi \in Nat /\ a.lo \in Nat
    BY <1>1, <1>6, SegFacts, PageNumbers
  <2> QED BY <2>1, <2>2, <2>3
<1>9. ApartOK'
  BY <1>8, <1>2, <1>6, <1>1 DEF ApartOK, MemTypes
<1>10. ASSUME NEW v \in Vas, Within(v, a) PROVE pte[op.m][v] = NULL
  <2>1. SUFFICES ASSUME pte[op.m][v] # NULL PROVE FALSE
    OBVIOUS
  <2>2. PICK b \in mmap[op.m] : Within(v, b)
    BY <2>1, <1>1 DEF LevelsOK, Inside
  <2> QED BY <1>6, <1>8, <2>2, <1>1, <1>10, ApartPages
<1>11. TodoOK'
  <2>1. \A v \in a.pages : v \in Vas /\ Within(v, a)
    BY <1>1, SegFacts
  <2>2. \A v \in a.pages : pte[op.m][v] = NULL
    BY <2>1, <1>10
  <2>3. \A b \in op'.todo : \A c \in mmap'[op.m] : c.lo <= b.lo
    <3>1. \A b \in op.todo : a.lo <= b.lo
      BY DEF MapArea
    <3>2. \A b \in op.todo : \A c \in mmap[op.m] : c.lo <= b.lo
      BY <1>1 DEF TodoOK, Loading
    <3> QED BY <3>1, <3>2, <1>3, <1>6
  <2>4. op'.area \in mmap'[op.m] /\ \A v \in op'.pages : Within(v, op.area)'
    BY <1>3, <1>6, <2>1 DEF Within
  <2> QED BY <1>1, <1>2, <1>3, <2>2, <2>3, <2>4 DEF TodoOK, Loading
<1>12. DupOK'
  BY <1>3 DEF DupOK, Forking
<1> QED BY <1>4, <1>5, <1>7, <1>9, <1>11, <1>12

----------------------------------------------------------------------------
(* Core: pages are mapped *)

LEMMA VaInside ==
  ASSUME Core, Building
  PROVE  /\ op \in Calls /\ op.m \in Procs /\ op.p \in Procs /\ Va \in op.pages
         /\ Va \in Vas /\ PtOf(Va) \in Pts /\ PdOf(PtOf(Va)) \in Pds
         /\ Inside(Va, op.m) /\ pte[op.m][Va] = NULL
         /\ op.at \in {"copy", "insert", "fault"}
<1>1. op.at \in {"copy", "insert", "fault"} /\ op.pages # {}
  BY DEF Building, At
<1>2. op \in Calls /\ op.m \in Procs /\ op.p \in Procs
  BY <1>1, OpFacts DEF Core, Calls
<1>3. Va \in op.pages /\ Va \in Vas /\ PtOf(Va) \in Pts /\ PdOf(PtOf(Va)) \in Pds
  BY <1>1, OpFacts, VaIsPage DEF Core
<1>4. Inside(Va, op.m) /\ pte[op.m][Va] = NULL
  BY <1>1, <1>3 DEF Core, TodoOK, DupOK, Forking, Inside
<1> QED BY <1>1, <1>2, <1>3, <1>4

LEMMA SetEntry ==
  ASSUME NEW X, NEW g \in [Procs -> [Vas -> X]], NEW p \in Procs, NEW v \in Vas, NEW f \in X
  PROVE  [g EXCEPT ![p][v] = f] \in [Procs -> [Vas -> X]]
OBVIOUS

\* A new mapping at Va leaves the levels above it as they should be.
LEMMA MapLevels ==
  ASSUME Core, Building, ~NoPt, NEW f \in Frames,
         UNCHANGED <<kstack, mmap, pgdir, pd0, pt, share, lost, half>>,
         pte' = [pte EXCEPT ![op.m][Va] = f],
         panic' \in BOOLEAN, free' \subseteq Frames, state' = state,
         w' \in [Procs -> SUBSET Vas], cow' \in [Procs -> SUBSET Vas]
  PROVE  MemTypes' /\ StateOK' /\ LevelsOK' /\ ApartOK'
<1> DEFINE v == Va
           m == op.m
<1>1. /\ v \in Vas /\ m \in Procs /\ Inside(v, m) /\ pt[m][PtOf(v)] # NULL
      /\ pte' = [pte EXCEPT ![m][v] = f]
  BY VaInside DEF NoPt
<1> HIDE DEF v, m
<1>2. MemTypes'
  <2>0. pte \in [Procs -> [Vas -> Frames \cup {NULL}]]
    BY DEF Core, MemTypes
  <2>1. pte' \in [Procs -> [Vas -> Frames \cup {NULL}]]
    <3> DEFINE X == Frames \cup {NULL}
    <3>1. f \in X /\ pte \in [Procs -> [Vas -> X]]
      BY <2>0
    <3> HIDE DEF X
    <3>2. [pte EXCEPT ![m][v] = f] \in [Procs -> [Vas -> X]]
      BY <1>1, <3>1, SetEntry, Zenon
    <3>3. pte' \in [Procs -> [Vas -> X]]
      BY <1>1, <3>2, Zenon
    <3> QED BY <3>3 DEF X
  <2>2. /\ kstack' = kstack /\ mmap' = mmap /\ pgdir' = pgdir /\ pd0' = pd0 /\ pt' = pt
        /\ share' = share /\ lost' = lost /\ half' = half
    OBVIOUS
  <2> QED BY <2>1, <2>2 DEF Core, MemTypes
<1>3. StateOK' /\ ApartOK'
  BY DEF Core, StateOK, ApartOK
<1>4. LevelsOK'
  BY <1>1 DEF Core, MemTypes, LevelsOK, Inside
<1> QED BY <1>2, <1>3, <1>4

\* copy_range has done the page Va.
LEMMA CopiedPage ==
  ASSUME Core, At("copy"), Building, NEW f \in Frames,
         UNCHANGED <<state, mmap, pgdir, share, panic>>,
         pte' = [pte EXCEPT ![op.m][Va] = f], share => f = pte[op.p][Va],
         op' = [op EXCEPT !.pages = @ \ {Va}]
  PROVE  OpTypes' /\ CallOK' /\ TodoOK' /\ DupOK'
<1> USE DEF Core
<1> DEFINE v == Va
           m == op.m
<1>1. /\ v \in Vas /\ v \in op.pages /\ m \in Procs /\ op.p \in Procs /\ op \in Calls
      /\ op.at = "copy" /\ op.why = "fork" /\ m # op.p /\ op.m = m
      /\ pte' = [pte EXCEPT ![m][v] = f] /\ op' = [op EXCEPT !.pages = @ \ {v}]
      /\ share => f = pte[op.p][v]
  BY VaInside DEF At, CallOK, Forking
<1> HIDE DEF v, m
<1>2. /\ op' \in Calls /\ op'.at = "copy" /\ op'.why = op.why /\ op'.p = op.p
      /\ op'.m = m /\ op'.pages = op.pages \ {v} /\ op'.page = op.page
      /\ op'.todo = op.todo
  <2> HIDE DEF Core
  <2> QED BY <1>1 DEF Calls
<1>3. f # NULL
  BY DEF Frames, NULL
<1>4. OpTypes' /\ CallOK'
  BY <1>1, <1>2 DEF OpTypes, CallOK, Forking, Loading, Leaving
<1>5. /\ \A u \in Vas : pte'[m][u] = IF u = v THEN f ELSE pte[m][u]
      /\ pte'[op.p] = pte[op.p]
  BY <1>1 DEF MemTypes
<1>6. op.pages \subseteq Vas
  BY <1>1 DEF Calls
<1>7. TodoOK'
  BY <1>1, <1>2, <1>5, <1>6 DEF TodoOK, Loading
<1>8. DupOK'
  <2>1. op'.todo \cup mmap'[m] = mmap'[op.p] /\ op'.todo \cap mmap'[m] = {}
    BY <1>1, <1>2 DEF DupOK, Forking
  <2>2. \A u \in op'.pages : Inside(u, op.m)'
    BY <1>1, <1>2 DEF DupOK, Forking, Inside, Within
  <2>3. \A u \in op'.pages : pte'[op.p][u] # NULL
    BY <1>1, <1>2, <1>5 DEF DupOK, Forking
  <2>4. share' => \A u \in Vas : pte'[m][u] # NULL => pte'[m][u] = pte'[op.p][u]
    BY <1>1, <1>5 DEF DupOK, Forking
  <2>5. ASSUME NEW u \in Vas, Inside(u, op.m)'
        PROVE  pte'[m][u] # NULL <=> pte'[op.p][u] # NULL /\ u \notin op'.pages
    <3>1. Inside(u, m)
      BY <2>5, <1>2 DEF Inside, Within
    <3>2. pte[m][u] # NULL <=> pte[op.p][u] # NULL /\ u \notin op.pages
      BY <3>1, <1>1 DEF DupOK, Forking
    <3>3. pte[op.p][v] # NULL
      BY <1>1 DEF DupOK, Forking
    <3> QED BY <3>2, <3>3, <1>1, <1>2, <1>3, <1>5
  <2> QED BY <2>1, <2>2, <2>3, <2>4, <2>5, <1>1, <1>2 DEF DupOK
<1> QED BY <1>4, <1>7, <1>8

LEMMA SharePageCore == Core /\ SharePage => Core'
<1> SUFFICES ASSUME Core, SharePage PROVE Core'
  OBVIOUS
<1>1. /\ Building /\ At("copy") /\ ~NoPt /\ share
      /\ UNCHANGED <<state, kstack, mmap, pgdir, pd0, pt, share, free, half, lost, panic>>
      /\ op' = [op EXCEPT !.pages = @ \ {Va}]
      /\ pte' = [pte EXCEPT ![op.m][Va] = pte[op.p][Va]]
  BY DEF SharePage
<1> DEFINE v == Va
           m == op.m
           f == pte[op.p][v]
<1>2. v \in Vas /\ m \in Procs /\ op.p \in Procs /\ v \in op.pages /\ op.at = "copy"
  BY <1>1, VaInside DEF At
<1>3. /\ w' = [w EXCEPT ![op.p] = @ \ {v}]
      /\ cow' = [cow EXCEPT ![op.p] = @ \cup {v}, ![m] = @ \cup {v}]
  BY DEF SharePage
<1> HIDE DEF v, m
<1>4. w' \in [Procs -> SUBSET Vas] /\ cow' \in [Procs -> SUBSET Vas]
  BY <1>2, <1>3 DEF Core, MemTypes
<1>5. f \in Frames
  BY <1>2 DEF Core, MemTypes, DupOK, Forking
<1>6. free' \subseteq Frames /\ panic' \in BOOLEAN
  BY <1>1 DEF Core, MemTypes
<1>7. pte' = [pte EXCEPT ![op.m][Va] = f] /\ f = pte[op.p][Va]
  BY <1>1 DEF v
<1> HIDE DEF f
<1>8. MemTypes' /\ StateOK' /\ LevelsOK' /\ ApartOK'
  BY <1>1, <1>4, <1>5, <1>6, <1>7, MapLevels
<1>9. OpTypes' /\ CallOK' /\ TodoOK' /\ DupOK'
  BY <1>1, <1>5, <1>7, CopiedPage
<1> QED BY <1>8, <1>9 DEF Core

LEMMA CopyPageCore == ASSUME Core, NEW f \in Frames, CopyPage(f) PROVE Core'
<1>1. /\ Building /\ At("copy") /\ ~NoPt /\ ~share
      /\ UNCHANGED <<state, kstack, mmap, pgdir, pd0, pt, cow, share, half, lost, panic>>
      /\ op' = [op EXCEPT !.pages = @ \ {Va}]
      /\ pte' = [pte EXCEPT ![op.m][Va] = f]
      /\ w' = IF Va \in w[op.p] THEN [w EXCEPT ![op.m] = @ \cup {Va}] ELSE w
  BY DEF CopyPage, Map
<1>2. w' \in [Procs -> SUBSET Vas] /\ cow' \in [Procs -> SUBSET Vas]
  <2> DEFINE v == Va
             m == op.m
  <2>1. v \in Vas /\ m \in Procs /\ cow' = cow
        /\ (w' = w \/ w' = [w EXCEPT ![m] = @ \cup {v}])
    BY <1>1, VaInside
  <2> HIDE DEF v, m
  <2>2. w \in [Procs -> SUBSET Vas] /\ cow \in [Procs -> SUBSET Vas]
    BY DEF Core, MemTypes
  <2> QED BY <2>1, <2>2
<1>3. free' \subseteq Frames /\ panic' \in BOOLEAN
  BY <1>1 DEF CopyPage, Alloc, Core, MemTypes
<1>4. MemTypes' /\ StateOK' /\ LevelsOK' /\ ApartOK'
  BY <1>1, <1>2, <1>3, MapLevels
<1>5. OpTypes' /\ CallOK' /\ TodoOK' /\ DupOK'
  BY <1>1, CopiedPage
<1> QED BY <1>4, <1>5 DEF Core

LEMMA InsertPageCore == Core /\ InsertPage => Core'
<1> SUFFICES ASSUME Core, InsertPage PROVE Core'
  OBVIOUS
<1> DEFINE f == op.page
           v == Va
           m == op.m
<1>1. /\ Building /\ op.at = "insert" /\ ~NoPt
      /\ UNCHANGED <<state, kstack, mmap, pgdir, pd0, pt, cow, share, half, lost, panic, free>>
      /\ op' = [op EXCEPT !.at = "page", !.pages = @ \ {v}, !.page = NULL]
      /\ pte' = [pte EXCEPT ![op.m][Va] = f]
      /\ w' = IF op.area.write THEN [w EXCEPT ![m] = @ \cup {v}] ELSE w
  BY DEF InsertPage, Map, At
<1>2. f \in Frames
  BY <1>1, OpFacts DEF Core, CallOK
<1>3. v \in Vas /\ m \in Procs /\ v \in op.pages /\ m = op.m /\ op \in Calls
  BY <1>1, VaInside
<1>4. pte' = [pte EXCEPT ![m][v] = f]
  BY <1>1
<1> HIDE DEF f, v, m
<1>5. w' \in [Procs -> SUBSET Vas] /\ cow' \in [Procs -> SUBSET Vas]
  BY <1>1, <1>3 DEF Core, MemTypes
<1>6. free' \subseteq Frames /\ panic' \in BOOLEAN
  BY <1>1 DEF Core, MemTypes
<1>7. MemTypes' /\ StateOK' /\ LevelsOK' /\ ApartOK'
  BY <1>1, <1>2, <1>5, <1>6, MapLevels
<1>8. /\ op' \in Calls /\ op'.at = "page" /\ op'.why = op.why /\ op'.p = op.p
      /\ op'.m = m /\ op'.pages = op.pages \ {v} /\ op'.page = NULL
      /\ op'.todo = op.todo /\ op'.area = op.area
  BY <1>1, <1>3 DEF Calls, Stages
<1>9. OpTypes' /\ CallOK'
  BY <1>1, <1>3, <1>8 DEF Core, OpTypes, CallOK, Forking, Loading, Leaving
<1>10. op.pages \subseteq Vas /\ \A u \in Vas : u # v => pte'[m][u] = pte[m][u]
  BY <1>3, <1>4 DEF Core, MemTypes, Calls
<1>11. TodoOK'
  BY <1>1, <1>3, <1>8, <1>10 DEF Core, TodoOK, Loading, Within
<1>12. DupOK'
  BY <1>8 DEF DupOK, Forking
<1> QED BY <1>7, <1>9, <1>11, <1>12 DEF Core

LEMMA ZeroPageCore == ASSUME Core, NEW f \in Frames, ZeroPage(f) PROVE Core'
<1>1. /\ op.at = "fault" /\ At("fault") /\ ~NoPt /\ op' = Idle(op.n) /\ op.n \in Nat
      /\ UNCHANGED <<state, kstack, mmap, pgdir, pd0, pt, cow, share, half, lost, panic>>
      /\ pte' = [pte EXCEPT ![op.m][Va] = f]
      /\ w' = IF op.area.write THEN [w EXCEPT ![op.m] = @ \cup {Va}] ELSE w
  BY OpFacts DEF ZeroPage, Map, At, Core
<1>2. Building
  BY <1>1 DEF Building, Core, TodoOK
<1>3. w' \in [Procs -> SUBSET Vas] /\ cow' \in [Procs -> SUBSET Vas]
  <2> DEFINE v == Va
             m == op.m
  <2>1. v \in Vas /\ m \in Procs /\ cow' = cow
        /\ (w' = w \/ w' = [w EXCEPT ![m] = @ \cup {v}])
    BY <1>1, <1>2, VaInside
  <2> HIDE DEF v, m
  <2>2. w \in [Procs -> SUBSET Vas] /\ cow \in [Procs -> SUBSET Vas]
    BY DEF Core, MemTypes
  <2> QED BY <2>1, <2>2
<1>4. free' \subseteq Frames /\ panic' \in BOOLEAN
  BY <1>1 DEF ZeroPage, Alloc, Core, MemTypes
<1>5. MemTypes' /\ StateOK' /\ LevelsOK' /\ ApartOK'
  BY <1>1, <1>2, <1>3, <1>4, MapLevels
<1>6. \A q \in Procs : state'[q] # "new"
  BY <1>1 DEF Core, CallOK
<1>7. OpTypes' /\ CallOK' /\ TodoOK' /\ DupOK'
  BY <1>1, <1>6, IdleCore
<1> QED BY <1>5, <1>7 DEF Core

\* do_pgfault changes the bits of a page that is mapped, and at most its frame.
LEMMA CowFaultCore ==
  ASSUME Core, NEW p \in Procs, NEW v \in Vas, v \in cow[p], op.at = "idle",
         pte[p][v] # NULL, NEW f \in Frames, pte' = [pte EXCEPT ![p][v] = f],
         op' = Idle(op.n + 1),
         w' = [w EXCEPT ![p] = @ \cup {v}], cow' = [cow EXCEPT ![p] = @ \ {v}],
         UNCHANGED <<state, kstack, mmap, pgdir, pd0, pt, share, half, lost, panic>>,
         free' \subseteq Frames
  PROVE  Core'
<1>1. op.n + 1 \in Nat
  BY OpFacts DEF Core
<1>2. \A q \in Procs : state'[q] # "new"
  BY DEF Core, CallOK
<1>3. OpTypes' /\ CallOK' /\ TodoOK' /\ DupOK'
  BY <1>1, <1>2, IdleCore
<1>4. pte' \in [Procs -> [Vas -> Frames \cup {NULL}]]
  BY DEF Core, MemTypes
<1>5. w' \in [Procs -> SUBSET Vas] /\ cow' \in [Procs -> SUBSET Vas]
  BY DEF Core, MemTypes
<1>6. MemTypes'
  BY <1>4, <1>5 DEF Core, MemTypes
<1>7. StateOK' /\ ApartOK'
  BY DEF Core, StateOK, ApartOK
<1>8. LevelsOK'
  BY DEF Core, MemTypes, LevelsOK, Inside
<1> QED BY <1>3, <1>6, <1>7, <1>8 DEF Core

LEMMA WriteFaultCore ==
  ASSUME Core, NEW p \in Procs, NEW v \in Vas, NEW f \in Frames, WriteFault(p, v, f),
         pte[p][v] # NULL
  PROVE  Core'
BY CowFaultCore DEF WriteFault, Fault, At, Core, Alloc, MemTypes

LEMMA LastFaultCore ==
  ASSUME Core, NEW p \in Procs, NEW v \in Vas, LastFault(p, v), pte[p][v] # NULL
  PROVE  Core'
<1>1. pte' = [pte EXCEPT ![p][v] = pte[p][v]] /\ pte[p][v] \in Frames
  BY DEF LastFault, Core, MemTypes
<1> QED BY <1>1, CowFaultCore DEF LastFault, Fault, At, Core, MemTypes, memVars

----------------------------------------------------------------------------
(* Core: exit_mmap and put_pgdir *)

UnmapSet == {v \in Covered(op.m) : pt[op.m][PtOf(v)] # NULL /\ pte[op.m][v] # NULL}

\* unmap_range goes through every page that is mapped.
LEMMA UnmapsEverything ==
  ASSUME Core, op.m \in Procs
  PROVE  /\ UnmapSet \subseteq Vas
         /\ \A v \in Vas : v \in UnmapSet <=> pte[op.m][v] # NULL
<1>1. Covered(op.m) \subseteq Vas /\ \A v \in Vas : v \in Covered(op.m) <=> Inside(v, op.m)
  BY CoveredFacts DEF Core
<1>2. \A v \in Vas : pte[op.m][v] # NULL => pt[op.m][PtOf(v)] # NULL /\ Inside(v, op.m)
  BY DEF Core, LevelsOK
<1> QED BY <1>1, <1>2 DEF UnmapSet

LEMMA UnmapAllCore == Core /\ UnmapAll => Core'
<1> SUFFICES ASSUME Core, UnmapAll PROVE Core'
  OBVIOUS
<1> DEFINE m == op.m
           S == UnmapSet
<1>1. op.at = "unmap" /\ op \in Calls /\ m \in Procs /\ op.todo = mmap[m] /\ op.m = m
      /\ op.pages = {}
  BY OpFacts DEF UnmapAll, At, Core, Calls, TodoOK
<1>2. /\ UNCHANGED <<state, kstack, mmap, pgdir, pd0, pt, share, half, lost, panic>>
      /\ pte' = [pte EXCEPT ![m] = [v \in Vas |-> IF v \in S THEN NULL ELSE @[v]]]
      /\ w' = [w EXCEPT ![m] = @ \ S] /\ cow' = [cow EXCEPT ![m] = @ \ S]
      /\ free' \subseteq free \cup Frames
      /\ op' = [op EXCEPT !.at = "tables"]
  BY DEF UnmapAll, UnmapSet
<1>3. S \subseteq Vas /\ \A v \in Vas : v \in S <=> pte[m][v] # NULL
  BY <1>1, UnmapsEverything
<1> HIDE DEF m, S
<1>4. /\ \A v \in Vas : pte'[m][v] = NULL
      /\ \A p \in Procs : p # m => pte'[p] = pte[p]
      /\ pte' \in [Procs -> [Vas -> Frames \cup {NULL}]]
  <2>1. pte \in [Procs -> [Vas -> Frames \cup {NULL}]] /\ NULL \in Frames \cup {NULL}
    BY DEF Core, MemTypes
  <2> DEFINE r == [v \in Vas |-> IF v \in S THEN NULL ELSE pte[m][v]]
  <2>2. r \in [Vas -> Frames \cup {NULL}] /\ \A v \in Vas : r[v] = NULL
    BY <1>1, <1>3, <2>1
  <2>3. pte' = [pte EXCEPT ![m] = r]
    BY <1>1, <1>2, <2>1
  <2> HIDE DEF r
  <2> QED BY <1>1, <2>1, <2>2, <2>3
<1>5. w' \in [Procs -> SUBSET Vas] /\ cow' \in [Procs -> SUBSET Vas]
  <2>1. w \in [Procs -> SUBSET Vas] /\ cow \in [Procs -> SUBSET Vas]
    BY DEF Core, MemTypes
  <2> QED BY <1>1, <1>2, <2>1
<1>6. MemTypes'
  BY <1>2, <1>4, <1>5 DEF Core, MemTypes
<1>7. StateOK' /\ ApartOK'
  BY <1>2 DEF Core, StateOK, ApartOK
<1>8. LevelsOK'
  BY <1>1, <1>2, <1>4 DEF Core, LevelsOK, Inside
<1>9. /\ op' \in Calls /\ op'.at = "tables" /\ op'.why = op.why /\ op'.p = op.p
      /\ op'.m = m /\ op'.pages = {} /\ op'.page = op.page /\ op'.todo = mmap[m]
  BY <1>1, <1>2 DEF Calls, Stages
<1>10. OpTypes' /\ CallOK'
  BY <1>1, <1>2, <1>9 DEF Core, OpTypes, CallOK, Forking, Loading, Leaving
<1>11. TodoOK' /\ DupOK'
  BY <1>2, <1>4, <1>9 DEF TodoOK, DupOK, Forking, Loading
<1> QED BY <1>6, <1>7, <1>8, <1>10, <1>11 DEF Core

\* What exit_range frees and loses for the vma a.
FreedPts(a) ==
  {j \in Pts : /\ j \in Met(a, PdOf(j)) /\ pd0[op.m][PdOf(j)] # NULL
               /\ pt[op.m][j] # NULL /\ Empty(op.m, j)}
FreedPds(a) == {i \in Pds : FreesPd0(op.m, a, i)}
LostPts(a) == {j \in Pts \ FreedPts(a) : PdOf(j) \in FreedPds(a) /\ pt[op.m][j] # NULL}

LEMMA ExitRangeIs ==
  ASSUME Core, NEW a \in op.todo, ExitRange(a)
  PROVE  /\ op.at = "tables" /\ op \in Calls /\ op.m \in Procs /\ op.pages = {}
         /\ a \in Segs /\ a \in mmap[op.m] /\ op.todo \subseteq mmap[op.m]
         /\ \A v \in Vas : pte[op.m][v] = NULL
         /\ FreePages({pt[op.m][j] : j \in FreedPts(a)} \cup {pd0[op.m][i] : i \in FreedPds(a)})
         /\ lost' = lost \cup {pt[op.m][j] : j \in LostPts(a)}
         /\ pt' = [pt EXCEPT ![op.m] = [j \in Pts |-> IF j \in FreedPts(a) \cup LostPts(a)
                                                      THEN NULL ELSE @[j]]]
         /\ pd0' = [pd0 EXCEPT ![op.m] = [i \in Pds |-> IF i \in FreedPds(a)
                                                        THEN NULL ELSE @[i]]]
         /\ op' = [op EXCEPT !.todo = @ \ {a}]
         /\ UNCHANGED <<state, kstack, mmap, pgdir, pte, w, cow, share, half, panic>>
<1>1. op.at = "tables" /\ op \in Calls /\ op.m \in Procs /\ op.pages = {} /\ a \in Segs
  BY OpFacts DEF ExitRange, At, Core, Calls, TodoOK
<1>2. op.todo \subseteq mmap[op.m] /\ \A v \in Vas : pte[op.m][v] = NULL
  BY <1>1 DEF Core, TodoOK
<1>3. /\ FreePages({pt[op.m][j] : j \in FreedPts(a)} \cup {pd0[op.m][i] : i \in FreedPds(a)})
      /\ lost' = lost \cup {pt[op.m][j] : j \in LostPts(a)}
      /\ pt' = [pt EXCEPT ![op.m] = [j \in Pts |-> IF j \in FreedPts(a) \cup LostPts(a)
                                                   THEN NULL ELSE @[j]]]
      /\ pd0' = [pd0 EXCEPT ![op.m] = [i \in Pds |-> IF i \in FreedPds(a)
                                                     THEN NULL ELSE @[i]]]
      /\ op' = [op EXCEPT !.todo = @ \ {a}]
      /\ UNCHANGED <<state, kstack, mmap, pgdir, pte, w, cow, share, half, panic>>
  BY DEF ExitRange, FreedPts, FreedPds, LostPts, bits
<1> QED BY <1>1, <1>2, <1>3

\* The tables afterwards.
LEMMA ExitRangeTables ==
  ASSUME Core, NEW a \in op.todo, ExitRange(a)
  PROVE  /\ pt' \in [Procs -> [Pts -> Frames \cup {NULL}]]
         /\ pd0' \in [Procs -> [Pds -> Frames \cup {NULL}]]
         /\ \A p \in Procs : p # op.m => pt'[p] = pt[p] /\ pd0'[p] = pd0[p]
         /\ \A j \in Pts : pt'[op.m][j] = IF j \in FreedPts(a) \cup LostPts(a)
                                          THEN NULL ELSE pt[op.m][j]
         /\ \A i \in Pds : pd0'[op.m][i] = IF i \in FreedPds(a) THEN NULL ELSE pd0[op.m][i]
<1> DEFINE m == op.m
           T == FreedPts(a) \cup LostPts(a)
           D == FreedPds(a)
           r == [j \in Pts |-> IF j \in T THEN NULL ELSE pt[m][j]]
           s == [i \in Pds |-> IF i \in D THEN NULL ELSE pd0[m][i]]
<1>1. m \in Procs
  BY ExitRangeIs
<1>2. /\ pt \in [Procs -> [Pts -> Frames \cup {NULL}]]
      /\ pd0 \in [Procs -> [Pds -> Frames \cup {NULL}]] /\ NULL \in Frames \cup {NULL}
  BY DEF Core, MemTypes
<1>3. pt' = [pt EXCEPT ![m] = r] /\ pd0' = [pd0 EXCEPT ![m] = s]
  BY <1>1, <1>2, ExitRangeIs
<1> HIDE DEF m, T, D
<1>4. r \in [Pts -> Frames \cup {NULL}] /\ s \in [Pds -> Frames \cup {NULL}]
  BY <1>1, <1>2
<1>5. /\ \A j \in Pts : r[j] = IF j \in T THEN NULL ELSE pt[m][j]
      /\ \A i \in Pds : s[i] = IF i \in D THEN NULL ELSE pd0[m][i]
  OBVIOUS
<1> HIDE DEF r, s
<1>6. /\ pt' \in [Procs -> [Pts -> Frames \cup {NULL}]]
      /\ pd0' \in [Procs -> [Pds -> Frames \cup {NULL}]]
      /\ \A p \in Procs : p # m => pt'[p] = pt[p] /\ pd0'[p] = pd0[p]
      /\ pt'[m] = r /\ pd0'[m] = s
  BY <1>1, <1>2, <1>3, <1>4
<1> QED BY <1>5, <1>6 DEF m, T, D

LEMMA ExitRangeCore == ASSUME Core, NEW a \in op.todo, ExitRange(a) PROVE Core'
<1> DEFINE m == op.m
           T == FreedPts(a)
           D == FreedPds(a)
           L == LostPts(a)
<1>1. /\ op.at = "tables" /\ op \in Calls /\ m \in Procs /\ op.m = m /\ op.pages = {}
      /\ a \in Segs /\ op.todo \subseteq mmap[m]
      /\ \A v \in Vas : pte[m][v] = NULL
      /\ op' = [op EXCEPT !.todo = @ \ {a}]
      /\ UNCHANGED <<state, kstack, mmap, pgdir, pte, w, cow, share, half, panic>>
  BY ExitRangeIs
<1>2. /\ T \subseteq Pts /\ D \subseteq Pds /\ L \subseteq Pts
      /\ \A j \in T : pt[m][j] # NULL
      /\ \A i \in D : pd0[m][i] # NULL
      /\ \A j \in L : pt[m][j] # NULL
      /\ \A j \in Pts : PdOf(j) \in D /\ pt[m][j] # NULL => j \in T \cup L
  BY DEF FreedPts, FreedPds, LostPts, FreesPd0
<1>3. /\ pt' \in [Procs -> [Pts -> Frames \cup {NULL}]]
      /\ pd0' \in [Procs -> [Pds -> Frames \cup {NULL}]]
      /\ \A p \in Procs : p # m => pt'[p] = pt[p] /\ pd0'[p] = pd0[p]
      /\ \A j \in Pts : pt'[m][j] = IF j \in T \cup L THEN NULL ELSE pt[m][j]
      /\ \A i \in Pds : pd0'[m][i] = IF i \in D THEN NULL ELSE pd0[m][i]
  BY ExitRangeTables
<1>4. /\ free' = free \cup ({pt[m][j] : j \in T} \cup {pd0[m][i] : i \in D})
      /\ lost' = lost \cup {pt[m][j] : j \in L}
  BY ExitRangeIs DEF FreePages
<1> HIDE DEF m, T, D, L
<1>5. free' \subseteq Frames /\ lost' \subseteq Frames
  <2>1. /\ \A j \in T \cup L : pt[m][j] \in Frames
        /\ \A i \in D : pd0[m][i] \in Frames
    BY <1>1, <1>2 DEF Core, MemTypes
  <2> QED BY <1>4, <2>1 DEF Core, MemTypes
<1>6. MemTypes'
  BY <1>1, <1>3, <1>5 DEF Core, MemTypes
<1>7. StateOK' /\ ApartOK'
  BY <1>1 DEF Core, StateOK, ApartOK
<1>8. LevelsOK'
  BY <1>1, <1>2, <1>3, PageNumbers DEF Core, LevelsOK, Inside
<1>9. /\ op' \in Calls /\ op'.at = "tables" /\ op'.why = op.why /\ op'.p = op.p
      /\ op'.m = m /\ op'.pages = {} /\ op'.page = op.page /\ op'.todo = op.todo \ {a}
  BY <1>1 DEF Calls
<1>10. OpTypes' /\ CallOK'
  BY <1>1, <1>9 DEF Core, OpTypes, CallOK, Forking, Loading, Leaving
<1>11. TodoOK' /\ DupOK'
  BY <1>1, <1>9 DEF TodoOK, DupOK, Forking, Loading
<1> QED BY <1>6, <1>7, <1>8, <1>10, <1>11 DEF Core

LEMMA PutPgdirCore == Core /\ PutPgdir => Core'
<1> SUFFICES ASSUME Core, PutPgdir PROVE Core'
  OBVIOUS
<1> DEFINE m == op.m
<1>1. op.at = "tables" /\ op \in Calls /\ m \in Procs /\ op.m = m /\ op.pages = {}
      /\ pgdir[m] # NULL
  BY OpFacts DEF PutPgdir, At, Core, Calls, TodoOK, CallOK
<1>2. /\ UNCHANGED <<state, kstack, share, panic>>
      /\ pgdir' = [pgdir EXCEPT ![m] = NULL]
      /\ pd0' = [pd0 EXCEPT ![m] = [i \in Pds |-> NULL]]
      /\ pt' = [pt EXCEPT ![m] = [j \in Pts |-> NULL]]
      /\ pte' = [pte EXCEPT ![m] = [v \in Vas |-> NULL]]
      /\ w' = [w EXCEPT ![m] = {}] /\ cow' = [cow EXCEPT ![m] = {}]
      /\ mmap' = [mmap EXCEPT ![m] = {}]
      /\ op' = [op EXCEPT !.at = "gone"]
      /\ half' \subseteq half
      /\ lost' = lost \cup (({pd0[m][i] : i \in Pds} \cup {pt[m][j] : j \in Pts}
                             \cup {pte[m][v] : v \in Vas}) \ {NULL})
      /\ free' = free \cup {pgdir[m]}
  BY DEF PutPgdir, FreePages
<1> HIDE DEF m
<1>3. free' \subseteq Frames /\ lost' \subseteq Frames /\ half' \subseteq Frames
  BY <1>1, <1>2 DEF Core, MemTypes
<1>4. MemTypes'
  <2>1. NULL \in Frames \cup {NULL} /\ {} \in SUBSET Vas /\ {} \in SUBSET Segs
    OBVIOUS
  <2> QED BY <1>1, <1>2, <1>3, <2>1 DEF Core, MemTypes
<1>5. /\ op' \in Calls /\ op'.at = "gone" /\ op'.why = op.why /\ op'.p = op.p
      /\ op'.m = m /\ op'.pages = {} /\ op'.page = op.page
  BY <1>1, <1>2 DEF Calls, Stages
<1>6. /\ pgdir'[m] = NULL /\ mmap'[m] = {}
      /\ \A i \in Pds : pd0'[m][i] = NULL
      /\ \A j \in Pts : pt'[m][j] = NULL
      /\ \A v \in Vas : pte'[m][v] = NULL
      /\ \A p \in Procs : p # m => /\ pgdir'[p] = pgdir[p] /\ mmap'[p] = mmap[p]
                                   /\ pd0'[p] = pd0[p] /\ pt'[p] = pt[p] /\ pte'[p] = pte[p]
  BY <1>1, <1>2 DEF Core, MemTypes
<1>7. StateOK'
  BY <1>2, <1>6 DEF Core, StateOK
<1>8. ApartOK'
  BY <1>6 DEF Core, ApartOK
<1>9. LevelsOK'
  BY <1>6 DEF Core, LevelsOK, Inside
<1>10. OpTypes' /\ CallOK'
  BY <1>1, <1>2, <1>5, <1>6 DEF Core, OpTypes, CallOK, Forking, Loading, Leaving
<1>11. TodoOK' /\ DupOK'
  BY <1>5 DEF TodoOK, DupOK, Forking, Loading
<1> QED BY <1>4, <1>7, <1>8, <1>9, <1>10, <1>11 DEF Core

----------------------------------------------------------------------------
(* Core: every step *)

\* Only pages that are mapped have PTE_W or PTE_COW.
MarkedOK == \A p \in Procs : \A v \in w[p] \cup cow[p] : pte[p][v] # NULL

LEMMA CoreUnchanged == Core /\ UNCHANGED vars => Core'
<1> SUFFICES ASSUME Core, UNCHANGED vars PROVE Core'
  OBVIOUS
<1>1. UNCHANGED <<state, kstack, mapVars, lost, free, half, op, panic>>
  BY DEF vars
<1>2. MemTypes' /\ StateOK' /\ LevelsOK' /\ ApartOK'
  BY <1>1, SameSpaces DEF Core, MemTypes
<1>3. OpTypes' /\ CallOK'
  BY <1>1 DEF Core, OpTypes, Calls, Idle, CallOK, Forking, Loading, Leaving, mapVars
<1>4. TodoOK' /\ DupOK'
  BY <1>1 DEF Core, TodoOK, DupOK, Forking, Loading, mapVars, bits, Inside, Within
<1> QED BY <1>2, <1>3, <1>4 DEF Core

LEMMA CoreStep == Core /\ MarkedOK /\ [Next]_vars => Core'
<1> SUFFICES ASSUME Core, MarkedOK, [Next]_vars PROVE Core'
  OBVIOUS
<1>0. CASE UNCHANGED vars
  BY <1>0, CoreUnchanged
<1>1. ASSUME NEW f \in Frames,
             GetPd0(f) \/ GetPt(f) \/ SetupPgdir(f) \/ CopyPage(f) \/ LoadPage(f) \/ ZeroPage(f)
      PROVE  Core'
  BY <1>1, GetPd0Core, GetPtCore, SetupPgdirCore, CopyPageCore, LoadPageCore, ZeroPageCore
<1>2. CASE GetPteFails \/ SetupPgdirFails \/ BuildFails \/ CopyPagePanic
           \/ ForkFilesFail \/ LoadPageFails
  BY <1>2, GetPteFailsCore, SetupPgdirFailsCore, BuildFailsCore, PanicCore,
     ForkFilesFailCore, LoadPageFailsCore
<1>3. CASE SharePage \/ FaultPanic \/ CopyNext \/ ForkDone \/ InsertPage \/ AreaDone \/ ExecDone
  BY <1>3, SharePageCore, PanicCore, CopyNextCore, ForkDoneCore, InsertPageCore,
     AreaDoneCore, ExecDoneCore
<1>4. CASE UnmapAll \/ PutPgdir \/ ForkFailed \/ ExecLoad \/ BecomeZombie
  BY <1>4, UnmapAllCore, PutPgdirCore, ForkFailedCore, ExecLoadCore, BecomeZombieCore
<1>5. ASSUME NEW a \in op.todo, DupVma(a) \/ MapArea(a) \/ ExitRange(a) PROVE Core'
  BY <1>5, DupVmaCore, MapAreaCore, ExitRangeCore
<1>6. ASSUME NEW p \in Procs, Exit(p) \/ Reap(p) PROVE Core'
  BY <1>6, ExitCore, ReapCore
<1>7. ASSUME NEW p \in Procs, NEW v \in Vas,
             \/ TouchFault(p, v) \/ LastFault(p, v)
             \/ \E f \in Frames : WriteFault(p, v, f)
      PROVE  Core'
  <2>1. v \in cow[p] => pte[p][v] # NULL
    BY DEF MarkedOK
  <2>2. LastFault(p, v) => pte[p][v] # NULL
    BY <2>1 DEF LastFault
  <2>3. \A f \in Frames : WriteFault(p, v, f) => pte[p][v] # NULL
    BY <2>1 DEF WriteFault
  <2> QED BY <1>7, <2>2, <2>3, TouchFaultCore, LastFaultCore, WriteFaultCore
<1>8. ASSUME NEW p \in Procs, NEW prog \in Programs, Exec(p, prog) PROVE Core'
  BY <1>8, ExecCore
<1>9. ASSUME NEW p \in Procs, NEW f \in Frames,
             KernelThread(p, f) \/ \E c \in Procs : Fork(p, c, f)
      PROVE  Core'
  BY <1>9, KernelThreadCore, ForkCore
<1> QED BY <1>0, <1>1, <1>2, <1>3, <1>4, <1>5, <1>6, <1>7, <1>8, <1>9 DEF Next

\* What the runs check follows.
LEMMA CoreTree == Core => TreeOK
<1> SUFFICES ASSUME Core, NEW p \in Procs
             PROVE  /\ \A v \in Vas : pte[p][v] # NULL => pt[p][PtOf(v)] # NULL
                    /\ Mapped(p) \subseteq Covered(p)
                    /\ \A j \in Pts : pt[p][j] # NULL => pd0[p][PdOf(j)] # NULL
                    /\ (\E i \in Pds : pd0[p][i] # NULL) \/ mmap[p] # {} => pgdir[p] # NULL
                    /\ \A a, b \in mmap[p] : a # b => a.hi <= b.lo \/ b.hi <= a.lo
                    /\ state[p] \in {"none", "zombie"} => pgdir[p] = NULL
                    /\ state[p] = "none" <=> kstack[p] = NULL
  BY DEF TreeOK
<1>1. Mapped(p) \subseteq Covered(p)
  BY CoveredFacts DEF Core, LevelsOK, Mapped
<1>2. \A v \in Vas : pte[p][v] # NULL => pt[p][PtOf(v)] # NULL
  BY DEF Core, LevelsOK
<1>3. \A j \in Pts : pt[p][j] # NULL => pd0[p][PdOf(j)] # NULL
  BY DEF Core, LevelsOK
<1>4. (\E i \in Pds : pd0[p][i] # NULL) \/ mmap[p] # {} => pgdir[p] # NULL
  BY DEF Core, LevelsOK
<1>5. \A a, b \in mmap[p] : a # b => a.hi <= b.lo \/ b.hi <= a.lo
  BY DEF Core, ApartOK
<1>6. /\ state[p] \in {"none", "zombie"} => pgdir[p] = NULL
      /\ state[p] = "none" <=> kstack[p] = NULL
  BY DEF Core, StateOK
<1> QED BY <1>1, <1>2, <1>3, <1>4, <1>5, <1>6

LEMMA CoreCopy == Core => CopyOK
<1> SUFFICES ASSUME Core, op.at = "dup", op.todo = {}
             PROVE  /\ mmap[op.m] = mmap[op.p] /\ Mapped(op.m) = Mapped(op.p)
                    /\ share => pte[op.m] = pte[op.p]
  BY DEF CopyOK
<1>1. op \in Calls /\ op.m \in Procs /\ op.p \in Procs /\ op.pages = {}
  BY OpFacts DEF Core, Calls, TodoOK
<1>2. mmap[op.m] = mmap[op.p]
  BY DEF Core, DupOK, Forking
<1>3. \A v \in Vas : pte[op.m][v] # NULL <=> pte[op.p][v] # NULL
  <2>1. \A v \in Vas : Inside(v, op.m) <=> Inside(v, op.p)
    BY <1>2 DEF Inside
  <2>2. \A v \in Vas : /\ pte[op.m][v] # NULL => Inside(v, op.m)
                       /\ pte[op.p][v] # NULL => Inside(v, op.p)
    BY <1>1 DEF Core, LevelsOK
  <2> QED BY <2>1, <2>2, <1>1 DEF Core, DupOK, Forking
<1>4. share => pte[op.m] = pte[op.p]
  <2>1. pte[op.m] \in [Vas -> Frames \cup {NULL}] /\ pte[op.p] \in [Vas -> Frames \cup {NULL}]
    BY <1>1 DEF Core, MemTypes
  <2>2. share => \A v \in Vas : pte[op.m][v] = pte[op.p][v]
    BY <1>3 DEF Core, DupOK, Forking
  <2> QED BY <2>1, <2>2
<1> QED BY <1>2, <1>3, <1>4 DEF Mapped

----------------------------------------------------------------------------
(***************************************************************************)
(* The frames.  A slot is a place that holds a frame which is not a page:  *)
(* a kernel stack, an entry of a page directory or of a level-0 directory, *)
(* the page in hand.  Ledger says where every frame is, for any contents H *)
(* of the slots and M of the page table entries; the lemmas are about the  *)
(* ways the actions move frames around.                                    *)
(***************************************************************************)
TableSlots == ({"pd0"} \X Procs \X Pds) \cup ({"pt"} \X Procs \X Pts)
OtherSlots == ({"kstack", "pgdir"} \X Procs \X {0}) \cup {<<"op", 0, 0>>}
Slots == TableSlots \cup OtherSlots
Cells == Procs \X Vas

Uses(M, f) == Cardinality({u \in Cells : M[u] = f})
Taken(H, M, f) == (\E s \in Slots : H[s] = f) \/ (\E u \in Cells : M[u] = f)

LedgerTypes(fr, lo, H, M, refs) ==
  /\ fr \subseteq Frames /\ lo \subseteq Frames
  /\ H \in [Slots -> Frames \cup {NULL}] /\ M \in [Cells -> Frames \cup {NULL}]
  /\ refs \in [Frames -> Nat]

\* Nothing is in two places, but a page that is mapped more than once.
OnePlace(fr, lo, H, M) ==
  /\ fr \cap lo = {}
  /\ \A s \in Slots : H[s] # NULL => H[s] \notin fr /\ H[s] \notin lo
  /\ \A s, t \in Slots : H[s] # NULL /\ H[s] = H[t] => s = t
  /\ \A u \in Cells : M[u] # NULL => M[u] \notin fr /\ M[u] \notin lo
  /\ \A s \in Slots : \A u \in Cells : H[s] # NULL => H[s] # M[u]

RefsOK(lo, H, M, refs) ==
  \A f \in Frames \ lo :
    refs[f] = IF \E s \in TableSlots : H[s] = f THEN 1 ELSE Uses(M, f)

\* Every frame of the machine is somewhere.
AllThere(fr, lo, H, M) ==
  \E n \in Sizes : \A f \in Frames : f <= n <=> f \in fr \/ f \in lo \/ Taken(H, M, f)

Ledger(fr, lo, H, M, refs) ==
  /\ LedgerTypes(fr, lo, H, M, refs) /\ OnePlace(fr, lo, H, M)
  /\ RefsOK(lo, H, M, refs) /\ AllThere(fr, lo, H, M)

\* G is H with the slot s set to f, or with the slots S clear; the same for
\* mappings.
SlotSet(H, G, s, f) ==
  /\ G \in [Slots -> Frames \cup {NULL}] /\ s \in Slots /\ G[s] = f
  /\ \A t \in Slots : t # s => G[t] = H[t]
SlotsClear(H, G, S) ==
  /\ G \in [Slots -> Frames \cup {NULL}] /\ S \subseteq Slots
  /\ \A t \in Slots : G[t] = IF t \in S THEN NULL ELSE H[t]
CellSet(M, N, u, f) ==
  /\ N \in [Cells -> Frames \cup {NULL}] /\ u \in Cells /\ N[u] = f
  /\ \A x \in Cells : x # u => N[x] = M[x]
CellsClear(M, N, S) ==
  /\ N \in [Cells -> Frames \cup {NULL}] /\ S \subseteq Cells
  /\ \A x \in S : M[x] # NULL
  /\ \A x \in Cells : N[x] = IF x \in S THEN NULL ELSE M[x]

\* The slots S hold the frames F.
Contents(H, S, F) == /\ \A s \in S : H[s] # NULL /\ H[s] \in F
                     /\ \A f \in F : \E s \in S : f = H[s]

LEMMA CellsFinite ==
  /\ IsFiniteSet(Cells)
  /\ \A M, f : IsFiniteSet({u \in Cells : M[u] = f})
  /\ \A M, f : Uses(M, f) \in Nat
  /\ \A M, f : Uses(M, f) = 0 <=> \A u \in Cells : M[u] # f
<1>1. IsFiniteSet(Cells)
  BY FS_Product, PageNumbers, VmAssumption DEF Cells
<1>2. \A M, f : IsFiniteSet({u \in Cells : M[u] = f})
  BY <1>1, FS_Subset
<1>3. \A M, f : Uses(M, f) \in Nat
  BY <1>2, FS_CardinalityType DEF Uses
<1>4. ASSUME NEW M, NEW f PROVE Uses(M, f) = 0 <=> \A u \in Cells : M[u] # f
  <2>1. Uses(M, f) = 0 <=> {u \in Cells : M[u] = f} = {}
    BY <1>2, FS_EmptySet DEF Uses
  <2> QED BY <2>1
<1> QED BY <1>1, <1>2, <1>3, <1>4

LEMMA FreshFrame ==
  ASSUME NEW fr, NEW lo, NEW H, NEW M, NEW refs, Ledger(fr, lo, H, M, refs), NEW f \in fr
  PROVE  /\ f \in Frames /\ f # NULL /\ f \notin lo
         /\ \A s \in Slots : H[s] # f
         /\ \A u \in Cells : M[u] # f
         /\ refs[f] = 0 /\ Uses(M, f) = 0
<1>1. f \in Frames /\ f # NULL /\ f \notin lo
  BY DEF Ledger, LedgerTypes, OnePlace, Frames, NULL
<1>2. (\A s \in Slots : H[s] # f) /\ \A u \in Cells : M[u] # f
  BY <1>1 DEF Ledger, OnePlace
<1>3. Uses(M, f) = 0
  BY <1>2, CellsFinite
<1>4. refs[f] = 0
  BY <1>1, <1>2, <1>3 DEF Ledger, RefsOK, Slots
<1> QED BY <1>1, <1>2, <1>3, <1>4

\* alloc_page, for a table (whose reference count is set) or anything else.
LEMMA TakeFrame ==
  ASSUME NEW fr, NEW lo, NEW H, NEW M, NEW refs, Ledger(fr, lo, H, M, refs),
         NEW s \in Slots, H[s] = NULL, NEW f \in fr, NEW G, SlotSet(H, G, s, f),
         NEW r, r = IF s \in TableSlots THEN [refs EXCEPT ![f] = 1] ELSE refs
  PROVE  Ledger(fr \ {f}, lo, G, M, r)
<1>1. /\ f \in Frames /\ f # NULL /\ f \notin lo
      /\ \A t \in Slots : H[t] # f
      /\ \A u \in Cells : M[u] # f
      /\ refs[f] = 0 /\ Uses(M, f) = 0
  BY FreshFrame
<1>2. LedgerTypes(fr \ {f}, lo, G, M, r)
  BY <1>1 DEF Ledger, LedgerTypes, SlotSet
<1>3. G[s] = f /\ \A t \in Slots : t # s => G[t] = H[t]
  BY DEF SlotSet
<1>4. refs \in [Frames -> Nat]
  BY DEF Ledger, LedgerTypes
<1>5. OnePlace(fr \ {f}, lo, G, M)
  BY <1>1, <1>3 DEF Ledger, OnePlace
<1>6. RefsOK(lo, G, M, r)
  <2> SUFFICES ASSUME NEW g \in Frames \ lo
               PROVE  r[g] = IF \E t \in TableSlots : G[t] = g THEN 1 ELSE Uses(M, g)
    BY DEF RefsOK
  <2>1. refs[g] = IF \E t \in TableSlots : H[t] = g THEN 1 ELSE Uses(M, g)
    BY DEF Ledger, RefsOK
  <2>2. g # NULL
    BY DEF Frames, NULL
  <2>3. CASE g = f /\ s \in TableSlots
    BY <2>3, <1>1, <1>3, <1>4
  <2>4. CASE g = f /\ s \notin TableSlots
    BY <2>4, <1>1, <1>3 DEF Slots
  <2>5. CASE g # f
    <3>1. (\E t \in TableSlots : G[t] = g) <=> (\E t \in TableSlots : H[t] = g)
      BY <2>2, <2>5, <1>3 DEF Slots
    <3>2. r[g] = refs[g]
      BY <2>5, <1>4
    <3> QED BY <3>1, <3>2, <2>1
  <2> QED BY <2>3, <2>4, <2>5
<1>7. AllThere(fr \ {f}, lo, G, M)
  <2>1. ASSUME NEW g \in Frames
        PROVE  g \in fr \ {f} \/ g \in lo \/ Taken(G, M, g)
               <=> g \in fr \/ g \in lo \/ Taken(H, M, g)
    <3>1. g # NULL
      BY DEF Frames, NULL
    <3> QED BY <3>1, <1>3 DEF Taken
  <2> QED BY <2>1 DEF Ledger, AllThere
<1> QED BY <1>2, <1>5, <1>6, <1>7 DEF Ledger

\* free_pages of what the slots S hold.
LEMMA GiveFrames ==
  ASSUME NEW fr, NEW lo, NEW H, NEW M, NEW refs, Ledger(fr, lo, H, M, refs),
         NEW S, NEW G, SlotsClear(H, G, S), NEW F, Contents(H, S, F)
  PROVE  Ledger(fr \cup F, lo, G, M, Cleared(refs, F))
<1>a. S \in SUBSET Slots /\ (\A s \in S : H[s] # NULL) /\ F = {H[s] : s \in S}
  BY DEF SlotsClear, Contents
<1> USE <1>a
<1> DEFINE r == Cleared(refs, F)
<1>0. H \in [Slots -> Frames \cup {NULL}] /\ refs \in [Frames -> Nat]
  BY DEF Ledger, LedgerTypes
<1>1. F \subseteq Frames /\ \A f \in F : \E s \in S : f = H[s]
  BY <1>0
<1>2. \A t \in Slots : G[t] = IF t \in S THEN NULL ELSE H[t]
  BY DEF SlotsClear
<1>3. \A f \in Frames : r[f] = IF f \in F THEN 0 ELSE refs[f]
  BY DEF Cleared
<1>4. LedgerTypes(fr \cup F, lo, G, M, r)
  <2>1. G \in [Slots -> Frames \cup {NULL}]
    BY DEF SlotsClear
  <2>2. r \in [Frames -> Nat]
    BY <1>0 DEF Cleared
  <2> QED BY <1>1, <2>1, <2>2 DEF Ledger, LedgerTypes
<1> HIDE DEF r
<1>5. OnePlace(fr \cup F, lo, G, M)
  <2>1. \A f \in F : f # NULL /\ f \notin lo /\ (\A u \in Cells : M[u] # f)
                     /\ \A t \in Slots : G[t] # f
    BY <1>1, <1>2 DEF Ledger, OnePlace
  <2> QED BY <2>1, <1>2 DEF Ledger, OnePlace
<1>6. RefsOK(lo, G, M, r)
  <2> SUFFICES ASSUME NEW g \in Frames \ lo
               PROVE  r[g] = IF \E t \in TableSlots : G[t] = g THEN 1 ELSE Uses(M, g)
    BY DEF RefsOK
  <2>1. refs[g] = IF \E t \in TableSlots : H[t] = g THEN 1 ELSE Uses(M, g)
    BY DEF Ledger, RefsOK
  <2>2. g # NULL
    BY DEF Frames, NULL
  <2>3. CASE g \in F
    <3>1. PICK s \in S : g = H[s]
      BY <2>3, <1>1
    <3>2. \A t \in Slots : G[t] # g
      BY <3>1, <2>2, <1>2 DEF Ledger, OnePlace
    <3>3. \A u \in Cells : M[u] # g
      BY <3>1, <2>2 DEF Ledger, OnePlace
    <3>4. Uses(M, g) = 0
      BY <3>3, CellsFinite
    <3> QED BY <2>3, <3>2, <3>4, <1>3 DEF Slots
  <2>4. CASE g \notin F
    <3>1. (\E t \in TableSlots : G[t] = g) <=> (\E t \in TableSlots : H[t] = g)
      BY <2>2, <2>4, <1>2 DEF Slots
    <3> QED BY <3>1, <2>1, <2>4, <1>3
  <2> QED BY <2>3, <2>4
<1>7. AllThere(fr \cup F, lo, G, M)
  <2>1. ASSUME NEW g \in Frames
        PROVE  g \in fr \cup F \/ g \in lo \/ Taken(G, M, g)
               <=> g \in fr \/ g \in lo \/ Taken(H, M, g)
    <3>1. g # NULL
      BY DEF Frames, NULL
    <3>2. g \in F => \E s \in Slots : H[s] = g
      BY <1>1
    <3>3. (\E s \in Slots : H[s] = g) <=> g \in F \/ (\E s \in Slots : G[s] = g)
      BY <3>1, <3>2, <1>2
    <3> QED BY <3>3 DEF Taken
  <2> QED BY <2>1 DEF Ledger, AllThere
<1> QED BY <1>4, <1>5, <1>6, <1>7 DEF Ledger, r

\* ... and when nothing leads to them any more.
LEMMA LoseFrames ==
  ASSUME NEW fr, NEW lo, NEW H, NEW M, NEW refs, Ledger(fr, lo, H, M, refs),
         NEW S, NEW G, SlotsClear(H, G, S), NEW F, Contents(H, S, F)
  PROVE  Ledger(fr, lo \cup F, G, M, refs)
<1>a. S \in SUBSET Slots /\ (\A s \in S : H[s] # NULL) /\ F = {H[s] : s \in S}
  BY DEF SlotsClear, Contents
<1> USE <1>a
<1>0. H \in [Slots -> Frames \cup {NULL}]
  BY DEF Ledger, LedgerTypes
<1>1. F \subseteq Frames /\ \A f \in F : \E s \in S : f = H[s]
  BY <1>0
<1>2. \A t \in Slots : G[t] = IF t \in S THEN NULL ELSE H[t]
  BY DEF SlotsClear
<1>4. LedgerTypes(fr, lo \cup F, G, M, refs)
  <2>1. G \in [Slots -> Frames \cup {NULL}]
    BY DEF SlotsClear
  <2> QED BY <1>1, <2>1 DEF Ledger, LedgerTypes
<1>5. OnePlace(fr, lo \cup F, G, M)
  <2>1. \A f \in F : f # NULL /\ f \notin fr /\ (\A u \in Cells : M[u] # f)
                     /\ \A t \in Slots : G[t] # f
    BY <1>1, <1>2 DEF Ledger, OnePlace
  <2> QED BY <2>1, <1>2 DEF Ledger, OnePlace
<1>6. RefsOK(lo \cup F, G, M, refs)
  <2> SUFFICES ASSUME NEW g \in Frames \ (lo \cup F)
               PROVE  refs[g] = IF \E t \in TableSlots : G[t] = g THEN 1 ELSE Uses(M, g)
    BY DEF RefsOK
  <2>1. refs[g] = IF \E t \in TableSlots : H[t] = g THEN 1 ELSE Uses(M, g)
    BY DEF Ledger, RefsOK
  <2>2. g # NULL
    BY DEF Frames, NULL
  <2>3. (\E t \in TableSlots : G[t] = g) <=> (\E t \in TableSlots : H[t] = g)
    BY <2>2, <1>2 DEF Slots
  <2> QED BY <2>1, <2>3
<1>7. AllThere(fr, lo \cup F, G, M)
  <2>1. ASSUME NEW g \in Frames
        PROVE  g \in fr \/ g \in lo \cup F \/ Taken(G, M, g)
               <=> g \in fr \/ g \in lo \/ Taken(H, M, g)
    <3>1. g # NULL
      BY DEF Frames, NULL
    <3>2. g \in F => \E s \in Slots : H[s] = g
      BY <1>1
    <3>3. (\E s \in Slots : H[s] = g) <=> g \in F \/ (\E s \in Slots : G[s] = g)
      BY <3>1, <3>2, <1>2
    <3> QED BY <3>3 DEF Taken
  <2> QED BY <2>1 DEF Ledger, AllThere
<1> QED BY <1>4, <1>5, <1>6, <1>7 DEF Ledger

\* N differs from M at u alone.
ChangedAt(M, N, u) ==
  u \in Cells /\ M[u] # N[u] /\ \A x \in Cells : x # u => N[x] = M[x]

\* A mapping that changes: one more use of the new frame, one less of the old.
LEMMA UsesOfChange ==
  ASSUME NEW M, NEW N, NEW u, ChangedAt(M, N, u), NEW g
  PROVE  /\ g = N[u] => Uses(N, g) = Uses(M, g) + 1
         /\ g = M[u] => Uses(N, g) = Uses(M, g) - 1
         /\ g # N[u] /\ g # M[u] => Uses(N, g) = Uses(M, g)
<1> DEFINE f == N[u]
           A == {x \in Cells : M[x] = g}
           B == {x \in Cells : N[x] = g}
<1>1. N[u] = f /\ u \in Cells /\ M[u] # f /\ \A x \in Cells : x # u => N[x] = M[x]
  BY DEF ChangedAt
<1>2. IsFiniteSet(A) /\ Cardinality(A) \in Nat
  <2>1. A \in SUBSET Cells
    OBVIOUS
  <2> HIDE DEF A
  <2> QED BY <2>1, CellsFinite, FS_Subset, FS_CardinalityType
<1> HIDE DEF f
<1>3. CASE g = f
  <2>1. B = A \cup {u} /\ u \notin A
    BY <1>1, <1>3
  <2> HIDE DEF A, B
  <2>2. Cardinality(A \cup {u}) = Cardinality(A) + 1
    BY <1>2, <2>1, FS_AddElement
  <2> QED BY <2>1, <2>2, <1>3 DEF Uses, A, B, f
<1>4. CASE g # f /\ g = M[u]
  <2>1. B = A \ {u} /\ u \in A
    BY <1>1, <1>4
  <2> HIDE DEF A, B
  <2>2. Cardinality(A \ {u}) = Cardinality(A) - 1
    BY <1>2, <2>1, FS_RemoveElement
  <2> QED BY <2>1, <2>2, <1>4 DEF Uses, A, B, f
<1>5. CASE g # f /\ g # M[u]
  <2>1. B = A
    BY <1>1, <1>5
  <2> QED BY <2>1, <1>5 DEF Uses, f
<1> QED BY <1>3, <1>4, <1>5 DEF f

\* page_insert of a new page where nothing was mapped.
LEMMA MapNewFrame ==
  ASSUME NEW fr, NEW lo, NEW H, NEW M, NEW refs, Ledger(fr, lo, H, M, refs),
         NEW u \in Cells, M[u] = NULL, NEW f \in fr, NEW N, CellSet(M, N, u, f)
  PROVE  Ledger(fr \ {f}, lo, H, N, [refs EXCEPT ![f] = @ + 1])
<1> DEFINE r == [refs EXCEPT ![f] = @ + 1]
<1>1. /\ f \in Frames /\ f # NULL /\ f \notin lo
      /\ \A t \in Slots : H[t] # f
      /\ \A x \in Cells : M[x] # f
      /\ refs[f] = 0 /\ Uses(M, f) = 0
  BY FreshFrame
<1>2. refs \in [Frames -> Nat] /\ M \in [Cells -> Frames \cup {NULL}]
  BY DEF Ledger, LedgerTypes
<1>3. N[u] = f /\ (\A x \in Cells : x # u => N[x] = M[x])
      /\ N \in [Cells -> Frames \cup {NULL}]
  BY DEF CellSet
<1>4. r \in [Frames -> Nat] /\ \A g \in Frames : r[g] = IF g = f THEN 1 ELSE refs[g]
  BY <1>1, <1>2
<1>5. ASSUME NEW g \in Frames
      PROVE  Uses(N, g) = IF g = f THEN 1 ELSE Uses(M, g)
  <2>1. g # NULL /\ f \in Frames \cup {NULL} /\ M[u] # f
    BY <1>1, <1>2 DEF Frames, NULL
  <2>2. ChangedAt(M, N, u)
    BY <2>1, <1>3 DEF ChangedAt
  <2>3. /\ g = N[u] => Uses(N, g) = Uses(M, g) + 1
        /\ g = M[u] => Uses(N, g) = Uses(M, g) - 1
        /\ g # N[u] /\ g # M[u] => Uses(N, g) = Uses(M, g)
    BY <2>2, UsesOfChange
  <2> QED BY <2>1, <2>3, <1>1, <1>2, <1>3
<1> HIDE DEF r
<1>6. LedgerTypes(fr \ {f}, lo, H, N, r)
  BY <1>3, <1>4 DEF Ledger, LedgerTypes
<1>7. OnePlace(fr \ {f}, lo, H, N)
  BY <1>1, <1>3 DEF Ledger, OnePlace
<1>8. RefsOK(lo, H, N, r)
  BY <1>1, <1>4, <1>5 DEF Ledger, RefsOK, Slots
<1>9. AllThere(fr \ {f}, lo, H, N)
  <2>1. ASSUME NEW g \in Frames
        PROVE  g \in fr \ {f} \/ g \in lo \/ Taken(H, N, g)
               <=> g \in fr \/ g \in lo \/ Taken(H, M, g)
    <3>1. g # NULL
      BY DEF Frames, NULL
    <3> QED BY <3>1, <1>3 DEF Taken
  <2> QED BY <2>1 DEF Ledger, AllThere
<1> QED BY <1>6, <1>7, <1>8, <1>9 DEF Ledger, r

\* ... and of the page in hand.
LEMMA MapHeldFrame ==
  ASSUME NEW fr, NEW lo, NEW H, NEW M, NEW refs, Ledger(fr, lo, H, M, refs),
         NEW u \in Cells, M[u] = NULL, NEW s \in OtherSlots, H[s] # NULL,
         NEW G, SlotSet(H, G, s, NULL), NEW N, CellSet(M, N, u, H[s])
  PROVE  Ledger(fr, lo, G, N, [refs EXCEPT ![H[s]] = @ + 1])
<1> DEFINE f == H[s]
           r == [refs EXCEPT ![f] = @ + 1]
<1>0. /\ refs \in [Frames -> Nat] /\ M \in [Cells -> Frames \cup {NULL}]
      /\ H \in [Slots -> Frames \cup {NULL}] /\ s \in Slots
  BY DEF Ledger, LedgerTypes, Slots
<1>a. s \notin TableSlots
  BY DEF OtherSlots, TableSlots
<1>1. /\ f \in Frames /\ f # NULL /\ f \notin lo /\ f \notin fr
      /\ \A t \in Slots : H[t] = f => t = s
      /\ \A x \in Cells : M[x] # f
  BY <1>0 DEF Ledger, OnePlace
<1>2. Uses(M, f) = 0
  BY <1>1, CellsFinite
<1>3. N[u] = f /\ (\A x \in Cells : x # u => N[x] = M[x])
      /\ N \in [Cells -> Frames \cup {NULL}]
  BY DEF CellSet
<1>4. G[s] = NULL /\ (\A t \in Slots : t # s => G[t] = H[t])
      /\ G \in [Slots -> Frames \cup {NULL}]
  BY DEF SlotSet
<1>5. refs[f] = 0
  BY <1>a, <1>1, <1>2 DEF Ledger, RefsOK, Slots
<1>6. r \in [Frames -> Nat] /\ \A g \in Frames : r[g] = IF g = f THEN 1 ELSE refs[g]
  BY <1>0, <1>1, <1>5
<1>7. ASSUME NEW g \in Frames
      PROVE  Uses(N, g) = IF g = f THEN 1 ELSE Uses(M, g)
  <2>1. g # NULL /\ f \in Frames \cup {NULL} /\ M[u] # f
    BY <1>0, <1>1, <1>2 DEF Frames, NULL
  <2>2. ChangedAt(M, N, u)
    BY <2>1, <1>3 DEF ChangedAt
  <2>3. /\ g = N[u] => Uses(N, g) = Uses(M, g) + 1
        /\ g = M[u] => Uses(N, g) = Uses(M, g) - 1
        /\ g # N[u] /\ g # M[u] => Uses(N, g) = Uses(M, g)
    BY <2>2, UsesOfChange
  <2> QED BY <2>1, <2>3, <1>0, <1>1, <1>2, <1>3
<1> HIDE DEF r, f
<1>8. LedgerTypes(fr, lo, G, N, r)
  BY <1>3, <1>4, <1>6 DEF Ledger, LedgerTypes
<1>9. OnePlace(fr, lo, G, N)
  BY <1>1, <1>3, <1>4 DEF Ledger, OnePlace
<1>10. RefsOK(lo, G, N, r)
  <2> SUFFICES ASSUME NEW g \in Frames \ lo
               PROVE  r[g] = IF \E t \in TableSlots : G[t] = g THEN 1 ELSE Uses(N, g)
    BY DEF RefsOK
  <2>1. refs[g] = IF \E t \in TableSlots : H[t] = g THEN 1 ELSE Uses(M, g)
    BY DEF Ledger, RefsOK
  <2>2. \A t \in TableSlots : G[t] = H[t]
    BY <1>a, <1>4 DEF Slots
  <2>3. g = f => \A t \in TableSlots : H[t] # g
    BY <1>a, <1>1 DEF Slots
  <2> QED BY <2>1, <2>2, <2>3, <1>6, <1>7
<1>11. AllThere(fr, lo, G, N)
  <2>1. ASSUME NEW g \in Frames
        PROVE  g \in fr \/ g \in lo \/ Taken(G, N, g)
               <=> g \in fr \/ g \in lo \/ Taken(H, M, g)
    <3>1. g # NULL
      BY DEF Frames, NULL
    <3>2. H[s] = f
      BY DEF f
    <3> QED BY <3>1, <3>2, <1>0, <1>1, <1>3, <1>4 DEF Taken
  <2> QED BY <2>1 DEF Ledger, AllThere
<1> QED BY <1>8, <1>9, <1>10, <1>11 DEF Ledger, r, f

\* page_insert of a page that is mapped already.
LEMMA MapSharedFrame ==
  ASSUME NEW fr, NEW lo, NEW H, NEW M, NEW refs, Ledger(fr, lo, H, M, refs),
         NEW u \in Cells, M[u] = NULL, NEW x \in Cells, M[x] # NULL,
         NEW N, CellSet(M, N, u, M[x])
  PROVE  Ledger(fr, lo, H, N, [refs EXCEPT ![M[x]] = @ + 1])
<1> DEFINE f == M[x]
           r == [refs EXCEPT ![f] = @ + 1]
<1>0. refs \in [Frames -> Nat] /\ M \in [Cells -> Frames \cup {NULL}]
  BY DEF Ledger, LedgerTypes
<1>1. /\ f \in Frames /\ f # NULL /\ f \notin lo /\ f \notin fr
      /\ \A t \in Slots : H[t] # f
  <2>1. f \in Frames /\ f # NULL
    BY <1>0
  <2> QED BY <2>1 DEF Ledger, OnePlace
<1>2. N[u] = f /\ (\A y \in Cells : y # u => N[y] = M[y])
      /\ N \in [Cells -> Frames \cup {NULL}]
  BY DEF CellSet
<1>3. r \in [Frames -> Nat] /\ \A g \in Frames : r[g] = IF g = f THEN refs[g] + 1 ELSE refs[g]
  BY <1>0, <1>1
<1>4. ASSUME NEW g \in Frames
      PROVE  Uses(N, g) = IF g = f THEN Uses(M, g) + 1 ELSE Uses(M, g)
  <2>1. g # NULL /\ f \in Frames \cup {NULL} /\ M[u] # f
    BY <1>0, <1>1 DEF Frames, NULL
  <2>2. ChangedAt(M, N, u)
    BY <2>1, <1>2 DEF ChangedAt
  <2>3. /\ g = N[u] => Uses(N, g) = Uses(M, g) + 1
        /\ g = M[u] => Uses(N, g) = Uses(M, g) - 1
        /\ g # N[u] /\ g # M[u] => Uses(N, g) = Uses(M, g)
    BY <2>2, UsesOfChange
  <2> QED BY <2>1, <2>3, <1>0, <1>1, <1>2
<1>5. M[x] = f
  OBVIOUS
<1> HIDE DEF r, f
<1>6. LedgerTypes(fr, lo, H, N, r)
  BY <1>2, <1>3 DEF Ledger, LedgerTypes
<1>7. OnePlace(fr, lo, H, N)
  BY <1>1, <1>2 DEF Ledger, OnePlace
<1>8. RefsOK(lo, H, N, r)
  BY <1>1, <1>3, <1>4 DEF Ledger, RefsOK, Slots
<1>9. AllThere(fr, lo, H, N)
  <2>1. ASSUME NEW g \in Frames
        PROVE  g \in fr \/ g \in lo \/ Taken(H, N, g)
               <=> g \in fr \/ g \in lo \/ Taken(H, M, g)
    <3>1. g # NULL
      BY DEF Frames, NULL
    <3> QED BY <3>1, <1>2, <1>5 DEF Taken
  <2> QED BY <2>1 DEF Ledger, AllThere
<1> QED BY <1>6, <1>7, <1>8, <1>9 DEF Ledger, r, f

\* page_insert of a copy in place of a page with other uses.
LEMMA ReplaceFrame ==
  ASSUME NEW fr, NEW lo, NEW H, NEW M, NEW refs, Ledger(fr, lo, H, M, refs),
         NEW u \in Cells, M[u] # NULL, refs[M[u]] > 1, NEW f \in fr,
         NEW N, CellSet(M, N, u, f)
  PROVE  Ledger(fr \ {f}, lo, H, N, [refs EXCEPT ![f] = 1, ![M[u]] = @ - 1])
<1> DEFINE old == M[u]
           r == [refs EXCEPT ![f] = 1, ![old] = @ - 1]
<1>0. refs \in [Frames -> Nat] /\ M \in [Cells -> Frames \cup {NULL}]
  BY DEF Ledger, LedgerTypes
<1>1. /\ f \in Frames /\ f # NULL /\ f \notin lo
      /\ \A t \in Slots : H[t] # f
      /\ \A x \in Cells : M[x] # f
      /\ refs[f] = 0 /\ Uses(M, f) = 0
  BY FreshFrame
<1>2. old \in Frames /\ old # f /\ old \notin lo /\ refs[old] \in Nat /\ refs[old] > 1
  BY <1>0, <1>1 DEF Ledger, OnePlace
<1>3. \A t \in Slots : H[t] # old
  BY DEF Ledger, OnePlace
<1>4. Uses(M, old) = refs[old]
  BY <1>2, <1>3 DEF Ledger, RefsOK, Slots
<1>5. N[u] = f /\ (\A x \in Cells : x # u => N[x] = M[x])
      /\ N \in [Cells -> Frames \cup {NULL}]
  BY DEF CellSet
<1>6. /\ r \in [Frames -> Nat]
      /\ \A g \in Frames : r[g] = IF g = f THEN 1 ELSE IF g = old THEN refs[g] - 1 ELSE refs[g]
  <2>1. refs[old] - 1 \in Nat
    BY <1>2
  <2> HIDE DEF old
  <2> QED BY <2>1, <1>0, <1>1, <1>2
<1>7. ASSUME NEW g \in Frames
      PROVE  Uses(N, g) = IF g = f THEN 1 ELSE IF g = old THEN Uses(M, g) - 1
                                    ELSE Uses(M, g)
  <2>1. g # NULL /\ f \in Frames \cup {NULL} /\ M[u] # f
    BY <1>0, <1>1 DEF Frames, NULL
  <2>2. ChangedAt(M, N, u)
    BY <2>1, <1>5 DEF ChangedAt
  <2>3. /\ g = N[u] => Uses(N, g) = Uses(M, g) + 1
        /\ g = M[u] => Uses(N, g) = Uses(M, g) - 1
        /\ g # N[u] /\ g # M[u] => Uses(N, g) = Uses(M, g)
    BY <2>2, UsesOfChange
  <2> QED BY <2>1, <2>3, <1>0, <1>1, <1>5
<1>8. \E x \in Cells : x # u /\ M[x] = old
  <2>1. SUFFICES ASSUME \A x \in Cells : M[x] = old => x = u PROVE FALSE
    OBVIOUS
  <2>2. {x \in Cells : M[x] = old} = {u}
    BY <2>1
  <2>3. Uses(M, old) = 1
    BY <2>2, FS_Singleton DEF Uses
  <2> QED BY <2>3, <1>2, <1>4
<1>a. M[u] = old
  OBVIOUS
<1> HIDE DEF r, old
<1>9. LedgerTypes(fr \ {f}, lo, H, N, r)
  BY <1>5, <1>6 DEF Ledger, LedgerTypes
<1>10. OnePlace(fr \ {f}, lo, H, N)
  BY <1>1, <1>5 DEF Ledger, OnePlace
<1>11. RefsOK(lo, H, N, r)
  <2> SUFFICES ASSUME NEW g \in Frames \ lo
               PROVE  r[g] = IF \E t \in TableSlots : H[t] = g THEN 1 ELSE Uses(N, g)
    BY DEF RefsOK
  <2>1. refs[g] = IF \E t \in TableSlots : H[t] = g THEN 1 ELSE Uses(M, g)
    BY DEF Ledger, RefsOK
  <2> QED BY <2>1, <1>1, <1>3, <1>6, <1>7 DEF Slots
<1>12. AllThere(fr \ {f}, lo, H, N)
  <2>1. ASSUME NEW g \in Frames
        PROVE  g \in fr \ {f} \/ g \in lo \/ Taken(H, N, g)
               <=> g \in fr \/ g \in lo \/ Taken(H, M, g)
    BY <1>5, <1>8, <1>a DEF Taken
  <2> QED BY <2>1 DEF Ledger, AllThere
<1> QED BY <1>9, <1>10, <1>11, <1>12 DEF Ledger, r, old

\* unmap_range: page_remove_pte for each of the mappings S; a page goes with its
\* last mapping.
FewerUses(M, refs, S, r) ==
  r = [f \in Frames |-> refs[f] - Cardinality({u \in S : M[u] = f})]
LastUses(M, S, r, F) == F = {f \in Frames : (\E u \in S : M[u] = f) /\ r[f] = 0}

LEMMA UnmapFrames ==
  ASSUME NEW fr, NEW lo, NEW H, NEW M, NEW refs, Ledger(fr, lo, H, M, refs),
         NEW S, NEW N, CellsClear(M, N, S), NEW r, FewerUses(M, refs, S, r),
         NEW F, LastUses(M, S, r, F)
  PROVE  Ledger(fr \cup F, lo, H, N, r)
<1> DEFINE C(f) == Cardinality({u \in S : M[u] = f})
<1>a. /\ r = [f \in Frames |-> refs[f] - Cardinality({u \in S : M[u] = f})]
      /\ F = {f \in Frames : (\E u \in S : M[u] = f) /\ r[f] = 0}
  BY DEF FewerUses, LastUses
<1>b. S \in SUBSET Cells /\ \A u \in S : M[u] # NULL
  BY DEF CellsClear
<1> USE <1>a, <1>b
<1>0. /\ refs \in [Frames -> Nat] /\ M \in [Cells -> Frames \cup {NULL}]
      /\ N \in [Cells -> Frames \cup {NULL}]
      /\ \A f \in Frames : f # NULL
  BY DEF Ledger, LedgerTypes, CellsClear, Frames, NULL
<1>1. \A u \in Cells : N[u] = IF u \in S THEN NULL ELSE M[u]
  BY DEF CellsClear
<1>2. ASSUME NEW f \in Frames
      PROVE  /\ C(f) \in Nat /\ Uses(N, f) = Uses(M, f) - C(f)
             /\ (\A u \in S : M[u] # f) => C(f) = 0
  <2> DEFINE A == {u \in Cells : M[u] = f}
             B == {u \in S : M[u] = f}
             D == {u \in Cells : N[u] = f}
  <2>1. D = A \ B /\ A \cap B = B /\ A \in SUBSET Cells /\ B \in SUBSET Cells
    BY <1>0, <1>1
  <2>2. (\A u \in S : M[u] # f) => B = {}
    OBVIOUS
  <2> HIDE DEF A, B, D
  <2>3. IsFiniteSet(A) /\ IsFiniteSet(B)
    BY <2>1, CellsFinite, FS_Subset
  <2>4. Cardinality(A \ B) = Cardinality(A) - Cardinality(A \cap B)
    BY <2>3, FS_Difference
  <2>5. Cardinality(B) \in Nat /\ (B = {} => Cardinality(B) = 0)
    BY <2>3, FS_CardinalityType, FS_EmptySet
  <2> QED BY <2>1, <2>2, <2>4, <2>5 DEF A, B, D, Uses
<1>3. \A f \in Frames : r[f] = refs[f] - C(f)
  OBVIOUS
<1> HIDE DEF C
<1>4. \A u \in S : M[u] \in Frames /\ M[u] \notin lo /\ M[u] \notin fr
                   /\ \A s \in Slots : H[s] # M[u]
  BY <1>0 DEF Ledger, OnePlace
<1>5. ASSUME NEW f \in Frames \ lo
      PROVE  r[f] = IF \E t \in TableSlots : H[t] = f THEN 1 ELSE Uses(N, f)
  <2>1. refs[f] = IF \E t \in TableSlots : H[t] = f THEN 1 ELSE Uses(M, f)
    BY DEF Ledger, RefsOK
  <2>2. CASE \E t \in TableSlots : H[t] = f
    <3>1. \A u \in S : M[u] # f
      BY <2>2, <1>4 DEF Slots
    <3> QED BY <3>1, <2>1, <2>2, <1>2, <1>3
  <2>3. CASE ~\E t \in TableSlots : H[t] = f
    BY <2>1, <2>3, <1>2, <1>3
  <2> QED BY <2>2, <2>3
<1>6. ASSUME NEW f \in Frames PROVE r[f] \in Nat
  <2>1. CASE f \in lo
    <3>1. C(f) = 0 /\ refs[f] \in Nat
      BY <2>1, <1>0, <1>2, <1>4
    <3> QED BY <3>1, <1>3
  <2>2. CASE f \notin lo
    BY <2>2, <1>5, CellsFinite
  <2> QED BY <2>1, <2>2
<1>7. r \in [Frames -> Nat]
  <2>1. r = [f \in Frames |-> r[f]]
    OBVIOUS
  <2> QED BY <2>1, <1>6
<1>8. \A f \in F : /\ f \in Frames /\ f \notin lo /\ (\A s \in Slots : H[s] # f)
                   /\ (\E u \in Cells : M[u] = f) /\ \A u \in Cells : N[u] # f
  <2> SUFFICES ASSUME NEW f \in F
               PROVE  /\ f \in Frames /\ f \notin lo /\ (\A s \in Slots : H[s] # f)
                      /\ (\E u \in Cells : M[u] = f) /\ \A u \in Cells : N[u] # f
    OBVIOUS
  <2>1. f \in Frames /\ (\E u \in S : M[u] = f) /\ r[f] = 0
    OBVIOUS
  <2>2. f \notin lo /\ \A s \in Slots : H[s] # f
    BY <2>1, <1>4
  <2>3. Uses(N, f) = 0
    BY <2>1, <2>2, <1>5 DEF Slots
  <2> QED BY <2>1, <2>2, <2>3, CellsFinite
<1>9. ASSUME NEW f \in Frames, NEW u \in S, M[u] = f, f \notin F
      PROVE  \E x \in Cells : N[x] = f
  <2>1. r[f] # 0 /\ f \notin lo /\ \A s \in Slots : H[s] # f
    BY <1>4, <1>9
  <2>2. Uses(N, f) # 0
    BY <2>1, <1>5 DEF Slots
  <2> QED BY <2>2, CellsFinite
<1>10. LedgerTypes(fr \cup F, lo, H, N, r)
  BY <1>0, <1>7, <1>8 DEF Ledger, LedgerTypes
<1>11. OnePlace(fr \cup F, lo, H, N)
  BY <1>1, <1>8 DEF Ledger, OnePlace
<1>12. RefsOK(lo, H, N, r)
  BY <1>5 DEF RefsOK
<1>13. AllThere(fr \cup F, lo, H, N)
  <2>1. ASSUME NEW g \in Frames
        PROVE  g \in fr \cup F \/ g \in lo \/ Taken(H, N, g)
               <=> g \in fr \/ g \in lo \/ Taken(H, M, g)
    <3>1. (\E u \in Cells : N[u] = g) => \E u \in Cells : M[u] = g
      BY <1>0, <1>1
    <3>2. (\E u \in Cells : M[u] = g) => g \in F \/ \E u \in Cells : N[u] = g
      BY <1>1, <1>9
    <3>3. g \in F => \E u \in Cells : M[u] = g
      BY <1>8
    <3> QED BY <3>1, <3>2, <3>3 DEF Taken
  <2> QED BY <2>1 DEF Ledger, AllThere
<1> QED BY <1>10, <1>11, <1>12, <1>13 DEF Ledger

----------------------------------------------------------------------------
(* The slots and the cells of the model *)

HeldOf(ks, pg, d0, t, x) ==
  [s \in Slots |-> IF s[1] = "kstack" THEN ks[s[2]]
                   ELSE IF s[1] = "pgdir" THEN pg[s[2]]
                   ELSE IF s[1] = "pd0" THEN d0[s[2]][s[3]]
                   ELSE IF s[1] = "pt" THEN t[s[2]][s[3]]
                   ELSE x]
MapsOf(e) == [u \in Cells |-> e[u[1]][u[2]]]

LEMMA SlotKinds ==
  /\ \A p \in Procs : <<"kstack", p, 0>> \in OtherSlots /\ <<"pgdir", p, 0>> \in OtherSlots
  /\ \A p \in Procs : \A i \in Pds : <<"pd0", p, i>> \in TableSlots
  /\ \A p \in Procs : \A j \in Pts : <<"pt", p, j>> \in TableSlots
  /\ <<"op", 0, 0>> \in OtherSlots
  /\ \A s \in OtherSlots : \/ \E p \in Procs : s = <<"kstack", p, 0>> \/ s = <<"pgdir", p, 0>>
                           \/ s = <<"op", 0, 0>>
  /\ \A s \in TableSlots : \/ \E p \in Procs : \E i \in Pds : s = <<"pd0", p, i>>
                           \/ \E p \in Procs : \E j \in Pts : s = <<"pt", p, j>>
  /\ OtherSlots \subseteq Slots /\ TableSlots \subseteq Slots
  /\ OtherSlots \cap TableSlots = {}
BY DEF OtherSlots, TableSlots, Slots

LEMMA SlotCases ==
  ASSUME NEW s \in Slots
  PROVE  \/ \E p \in Procs : s = <<"kstack", p, 0>>
         \/ \E p \in Procs : s = <<"pgdir", p, 0>>
         \/ \E p \in Procs : \E i \in Pds : s = <<"pd0", p, i>>
         \/ \E p \in Procs : \E j \in Pts : s = <<"pt", p, j>>
         \/ s = <<"op", 0, 0>>
BY SlotKinds DEF Slots

LEMMA HeldTypes ==
  ASSUME NEW X, NEW ks \in [Procs -> X], NEW pg \in [Procs -> X],
         NEW d0 \in [Procs -> [Pds -> X]], NEW t \in [Procs -> [Pts -> X]], NEW x \in X
  PROVE  HeldOf(ks, pg, d0, t, x) \in [Slots -> X]
<1> DEFINE H == HeldOf(ks, pg, d0, t, x)
<1>1. H = [s \in Slots |-> H[s]]
  BY DEF HeldOf
<1>2. ASSUME NEW s \in Slots PROVE H[s] \in X
  <2> HIDE DEF H
  <2>1. CASE \E p \in Procs : s = <<"kstack", p, 0>>
    BY <2>1, SlotKinds DEF H, HeldOf
  <2>2. CASE \E p \in Procs : s = <<"pgdir", p, 0>>
    BY <2>2, SlotKinds DEF H, HeldOf
  <2>3. CASE \E p \in Procs : \E i \in Pds : s = <<"pd0", p, i>>
    <3>1. PICK p \in Procs, i \in Pds : s = <<"pd0", p, i>>
      BY <2>3
    <3>2. H[s] = d0[p][i]
      BY <3>1, SlotKinds DEF H, HeldOf
    <3> QED BY <3>2
  <2>4. CASE \E p \in Procs : \E j \in Pts : s = <<"pt", p, j>>
    <3>1. PICK p \in Procs, j \in Pts : s = <<"pt", p, j>>
      BY <2>4
    <3>2. H[s] = t[p][j]
      BY <3>1, SlotKinds DEF H, HeldOf
    <3> QED BY <3>2
  <2>5. CASE s = <<"op", 0, 0>>
    BY <2>5, SlotKinds DEF H, HeldOf
  <2> QED BY <2>1, <2>2, <2>3, <2>4, <2>5, SlotCases
<1> HIDE DEF H
<1>3. H \in [Slots -> X]
  BY <1>1, <1>2
<1> QED BY <1>3 DEF H

\* Slots that hold the same before and after.
LEMMA HeldSame ==
  ASSUME NEW ks, NEW pg, NEW d0, NEW t, NEW x,
         NEW ks2, NEW pg2, NEW d2, NEW t2, NEW x2, NEW S,
         \A p \in Procs : <<"kstack", p, 0>> \notin S => ks2[p] = ks[p],
         \A p \in Procs : <<"pgdir", p, 0>> \notin S => pg2[p] = pg[p],
         \A p \in Procs : \A i \in Pds : <<"pd0", p, i>> \notin S => d2[p][i] = d0[p][i],
         \A p \in Procs : \A j \in Pts : <<"pt", p, j>> \notin S => t2[p][j] = t[p][j],
         <<"op", 0, 0>> \notin S => x2 = x
  PROVE  \A s \in Slots : s \notin S =>
           HeldOf(ks2, pg2, d2, t2, x2)[s] = HeldOf(ks, pg, d0, t, x)[s]
<1> SUFFICES ASSUME NEW s \in Slots, s \notin S
             PROVE  HeldOf(ks2, pg2, d2, t2, x2)[s] = HeldOf(ks, pg, d0, t, x)[s]
  OBVIOUS
<1>1. CASE \E p \in Procs : s = <<"kstack", p, 0>>
  BY <1>1, SlotKinds DEF HeldOf
<1>2. CASE \E p \in Procs : s = <<"pgdir", p, 0>>
  BY <1>2, SlotKinds DEF HeldOf
<1>3. CASE \E p \in Procs : \E i \in Pds : s = <<"pd0", p, i>>
  <2>1. PICK p \in Procs, i \in Pds : s = <<"pd0", p, i>>
    BY <1>3
  <2>2. d2[p][i] = d0[p][i]
    BY <2>1
  <2>3. /\ HeldOf(ks, pg, d0, t, x)[<<"pd0", p, i>>] = d0[p][i]
        /\ HeldOf(ks2, pg2, d2, t2, x2)[<<"pd0", p, i>>] = d2[p][i]
    BY SlotKinds DEF HeldOf
  <2> QED BY <2>1, <2>2, <2>3
<1>4. CASE \E p \in Procs : \E j \in Pts : s = <<"pt", p, j>>
  <2>1. PICK p \in Procs, j \in Pts : s = <<"pt", p, j>>
    BY <1>4
  <2>2. t2[p][j] = t[p][j]
    BY <2>1
  <2>3. /\ HeldOf(ks, pg, d0, t, x)[<<"pt", p, j>>] = t[p][j]
        /\ HeldOf(ks2, pg2, d2, t2, x2)[<<"pt", p, j>>] = t2[p][j]
    BY SlotKinds DEF HeldOf
  <2> QED BY <2>1, <2>2, <2>3
<1>5. CASE s = <<"op", 0, 0>>
  BY <1>5, SlotKinds DEF HeldOf
<1> QED BY <1>1, <1>2, <1>3, <1>4, <1>5, SlotCases

----------------------------------------------------------------------------
(* The ledger of the model, step by step *)

Held == HeldOf(kstack, pgdir, pd0, pt, op.page)
MapsTo == MapsOf(pte)
LedgerOK == Ledger(free, lost, Held, MapsTo, page_ref)

HeldValues ==
  /\ Held \in [Slots -> Frames \cup {NULL}]
  /\ MapsTo \in [Cells -> Frames \cup {NULL}]
  /\ \A p \in Procs : Held[<<"kstack", p, 0>>] = kstack[p] /\ Held[<<"pgdir", p, 0>>] = pgdir[p]
  /\ \A p \in Procs : \A i \in Pds : Held[<<"pd0", p, i>>] = pd0[p][i]
  /\ \A p \in Procs : \A j \in Pts : Held[<<"pt", p, j>>] = pt[p][j]
  /\ Held[<<"op", 0, 0>>] = op.page
  /\ \A p \in Procs : \A v \in Vas : <<p, v>> \in Cells /\ MapsTo[<<p, v>>] = pte[p][v]

LEMMA HeldNow == Core => HeldValues
<1> SUFFICES ASSUME Core PROVE HeldValues
  OBVIOUS
<1>1. op.page \in Frames \cup {NULL}
  BY OpFacts DEF Core
<1>2. Held \in [Slots -> Frames \cup {NULL}]
  BY <1>1, HeldTypes DEF Core, MemTypes, Held
<1>3. MapsTo \in [Cells -> Frames \cup {NULL}]
  BY DEF Core, MemTypes, MapsTo, MapsOf, Cells
<1>4. \A p \in Procs : Held[<<"kstack", p, 0>>] = kstack[p] /\ Held[<<"pgdir", p, 0>>] = pgdir[p]
  BY SlotKinds DEF Held, HeldOf
<1>5. \A p \in Procs : \A i \in Pds : Held[<<"pd0", p, i>>] = pd0[p][i]
  BY SlotKinds DEF Held, HeldOf
<1>6. \A p \in Procs : \A j \in Pts : Held[<<"pt", p, j>>] = pt[p][j]
  BY SlotKinds DEF Held, HeldOf
<1>7. Held[<<"op", 0, 0>>] = op.page
  BY SlotKinds DEF Held, HeldOf
<1>8. \A p \in Procs : \A v \in Vas : <<p, v>> \in Cells /\ MapsTo[<<p, v>>] = pte[p][v]
  BY DEF MapsTo, MapsOf, Cells
<1> QED BY <1>2, <1>3, <1>4, <1>5, <1>6, <1>7, <1>8 DEF HeldValues

\* The same after a step.
LEMMA HeldNext == Core' => HeldValues'
<1> SUFFICES ASSUME Core' PROVE HeldValues'
  OBVIOUS
<1>1. (op.page \in Frames \cup {NULL})'
  <2>1. OpTypes'
    BY DEF Core
  <2>2. CASE op' \in Calls
    BY <2>2 DEF Calls
  <2>3. CASE op' = Idle(op'.n)
    BY <2>3 DEF Idle
  <2> QED BY <2>1, <2>2, <2>3 DEF OpTypes, Idle
<1>2. (Held \in [Slots -> Frames \cup {NULL}])'
  BY <1>1, HeldTypes DEF Core, MemTypes, Held
<1>3. (MapsTo \in [Cells -> Frames \cup {NULL}])'
  BY DEF Core, MemTypes, MapsTo, MapsOf, Cells
<1>4. \A p \in Procs : (Held[<<"kstack", p, 0>>] = kstack[p] /\ Held[<<"pgdir", p, 0>>] = pgdir[p])'
  BY SlotKinds DEF Held, HeldOf
<1>5. \A p \in Procs : \A i \in Pds : (Held[<<"pd0", p, i>>] = pd0[p][i])'
  BY SlotKinds DEF Held, HeldOf
<1>6. \A p \in Procs : \A j \in Pts : (Held[<<"pt", p, j>>] = pt[p][j])'
  BY SlotKinds DEF Held, HeldOf
<1>7. (Held[<<"op", 0, 0>>] = op.page)'
  BY SlotKinds DEF Held, HeldOf
<1>8. \A p \in Procs : \A v \in Vas : (<<p, v>> \in Cells /\ MapsTo[<<p, v>>] = pte[p][v])'
  BY DEF MapsTo, MapsOf, Cells
<1> QED BY <1>2, <1>3, <1>4, <1>5, <1>6, <1>7, <1>8 DEF HeldValues

\* A step changes no slots but S.
SameBut(S) ==
  /\ \A p \in Procs : <<"kstack", p, 0>> \notin S => kstack'[p] = kstack[p]
  /\ \A p \in Procs : <<"pgdir", p, 0>> \notin S => pgdir'[p] = pgdir[p]
  /\ \A p \in Procs : \A i \in Pds : <<"pd0", p, i>> \notin S => pd0'[p][i] = pd0[p][i]
  /\ \A p \in Procs : \A j \in Pts : <<"pt", p, j>> \notin S => pt'[p][j] = pt[p][j]
  /\ <<"op", 0, 0>> \notin S => op'.page = op.page

LEMMA HeldStep ==
  ASSUME NEW S, SameBut(S)
  PROVE  \A s \in Slots : s \notin S => Held'[s] = Held[s]
BY HeldSame DEF SameBut, Held

LEMMA SlotStep ==
  ASSUME Core, Core', NEW s \in Slots, SameBut({s})
  PROVE  SlotSet(Held, Held', s, Held'[s])
BY HeldNext, HeldStep DEF SlotSet, HeldValues

LEMMA HeldUnchanged ==
  ASSUME Core, Core', SameBut({}) PROVE Held' = Held
<1>1. Held \in [Slots -> Frames \cup {NULL}] /\ Held' \in [Slots -> Frames \cup {NULL}]
  BY HeldNow, HeldNext DEF HeldValues
<1>2. \A s \in Slots : Held'[s] = Held[s]
  BY HeldStep
<1> QED BY <1>1, <1>2

LEMMA CellStep ==
  ASSUME Core, Core', NEW p \in Procs, NEW v \in Vas, NEW f,
         pte' = [pte EXCEPT ![p][v] = f]
  PROVE  CellSet(MapsTo, MapsTo', <<p, v>>, f)
<1>1. MapsTo' \in [Cells -> Frames \cup {NULL}] /\ <<p, v>> \in Cells
  BY HeldNext DEF HeldValues, Cells
<1>2. \A q \in Procs : \A u \in Vas : pte'[q][u] = IF q = p /\ u = v THEN f ELSE pte[q][u]
  BY DEF Core, MemTypes
<1>3. \A x \in Cells : MapsTo[x] = pte[x[1]][x[2]] /\ MapsTo'[x] = pte'[x[1]][x[2]]
  BY DEF MapsTo, MapsOf
<1>4. MapsTo'[<<p, v>>] = f
  BY <1>1, <1>2, <1>3
<1>5. ASSUME NEW x \in Cells, x # <<p, v>> PROVE MapsTo'[x] = MapsTo[x]
  <2>1. PICK q \in Procs, u \in Vas : x = <<q, u>>
    BY DEF Cells
  <2>2. ~(q = p /\ u = v)
    BY <1>5, <2>1
  <2> QED BY <1>2, <1>3, <2>1, <2>2
<1> QED BY <1>1, <1>4, <1>5 DEF CellSet

\* Steps that move no frame.
LEMMA QuietLedger ==
  ASSUME Core, Core', LedgerOK, op'.page = op.page,
         UNCHANGED <<kstack, pgdir, pd0, pt, pte, free, lost, page_ref>>
  PROVE  LedgerOK'
<1>1. SameBut({})
  BY DEF SameBut
<1>2. Held' = Held /\ MapsTo' = MapsTo
  BY <1>1, HeldUnchanged DEF MapsTo
<1> QED BY <1>2 DEF LedgerOK

\* There is a page in hand only in pgdir_alloc_page.
LEMMA PageSame ==
  ASSUME Core, Core', op.at # "insert", op'.at # "insert"
  PROVE  op'.page = op.page
BY DEF Core, CallOK

QuietAction ==
  \/ SetupPgdirFails \/ BuildFails \/ CopyPagePanic \/ ForkFilesFail \/ LoadPageFails
  \/ FaultPanic \/ CopyNext \/ ForkDone \/ AreaDone \/ ExecDone \/ ExecLoad
  \/ BecomeZombie \/ (\E a \in op.todo : DupVma(a) \/ MapArea(a))
  \/ \E p \in Procs : \/ Exit(p)
                      \/ \E v \in Vas : TouchFault(p, v) \/ LastFault(p, v)
                      \/ \E prog \in Programs : Exec(p, prog)
  \/ UNCHANGED vars

LEMMA QuietSteps ==
  ASSUME Core, Core', LedgerOK, QuietAction
  PROVE  LedgerOK'
<1>0. op.at # "idle" => op \in Calls
  BY OpFacts DEF Core
<1>1. CASE SetupPgdirFails \/ BuildFails \/ ForkFilesFail \/ LoadPageFails
  <2>1. op.at # "insert" /\ op.at # "idle"
    BY <1>1 DEF SetupPgdirFails, BuildFails, ForkFilesFail, LoadPageFails, At
  <2>2. op'.at # "insert"
    BY <1>1, <1>0, <2>1 DEF SetupPgdirFails, BuildFails, ForkFilesFail, LoadPageFails, CleanUp, Calls
  <2> QED BY <1>1, <2>1, <2>2, PageSame, QuietLedger
        DEF SetupPgdirFails, BuildFails, ForkFilesFail, LoadPageFails, mapVars, memVars
<1>2. CASE CopyNext \/ ForkDone \/ AreaDone \/ ExecDone \/ ExecLoad \/ BecomeZombie
  <2>1. op.at # "insert" /\ op.at # "idle"
    BY <1>2 DEF CopyNext, ForkDone, AreaDone, ExecDone, ExecLoad, BecomeZombie, At
  <2>2. op'.at # "insert"
    BY <1>2, <1>0, <2>1
       DEF CopyNext, ForkDone, AreaDone, ExecDone, ExecLoad, BecomeZombie, Calls, Idle, Call
  <2> QED BY <1>2, <2>1, <2>2, PageSame, QuietLedger
        DEF CopyNext, ForkDone, AreaDone, ExecDone, ExecLoad, BecomeZombie, mapVars, memVars
<1>3. CASE CopyPagePanic \/ FaultPanic \/ UNCHANGED vars
  BY <1>3, QuietLedger DEF CopyPagePanic, FaultPanic, vars, mapVars, memVars
<1>4. ASSUME NEW a \in op.todo, DupVma(a) \/ MapArea(a) PROVE LedgerOK'
  <2>1. op.at # "insert" /\ op.at # "idle"
    BY <1>4 DEF DupVma, MapArea, At
  <2>2. op'.at # "insert"
    BY <1>4, <1>0, <2>1 DEF DupVma, MapArea, Calls
  <2> QED BY <1>4, <2>1, <2>2, PageSame, QuietLedger DEF DupVma, MapArea, memVars
<1>5. ASSUME NEW p \in Procs, Exit(p) PROVE LedgerOK'
  <2>1. op.at # "insert" /\ op'.at # "insert"
    BY <1>5 DEF Exit, At, Call
  <2> QED BY <1>5, <2>1, PageSame, QuietLedger DEF Exit, mapVars, memVars
<1>6. ASSUME NEW p \in Procs, NEW v \in Vas, TouchFault(p, v) \/ LastFault(p, v) PROVE LedgerOK'
  <2>1. op.at # "insert"
    BY <1>6 DEF TouchFault, LastFault, Fault, At
  <2>2. TouchFault(p, v) => op'.at # "insert"
    BY DEF TouchFault, Call
  <2>3. LastFault(p, v) => op'.at # "insert"
    BY DEF LastFault, Idle
  <2> QED BY <1>6, <2>1, <2>2, <2>3, PageSame, QuietLedger DEF TouchFault, LastFault, mapVars, memVars
<1>7. ASSUME NEW p \in Procs, NEW prog \in Programs, Exec(p, prog) PROVE LedgerOK'
  <2>1. op.at # "insert" /\ op'.at # "insert"
    BY <1>7 DEF Exec, At, Call
  <2> QED BY <1>7, <2>1, PageSame, QuietLedger DEF Exec, mapVars, memVars
<1> QED BY <1>1, <1>2, <1>3, <1>4, <1>5, <1>6, <1>7 DEF QuietAction

\* Steps that call alloc_page for the slot s.
LEMMA TakeStep ==
  ASSUME Core, Core', LedgerOK, NEW s \in Slots, SameBut({s}), Held[s] = NULL,
         NEW f \in Frames, Held'[s] = f, Alloc(f), UNCHANGED <<pte, lost>>,
         page_ref' = IF s \in TableSlots THEN [page_ref EXCEPT ![f] = 1] ELSE page_ref
  PROVE  LedgerOK'
<1>1. SlotSet(Held, Held', s, f)
  BY SlotStep
<1>2. MapsTo' = MapsTo
  BY DEF MapsTo
<1>3. f \in free /\ free' = free \ {f}
  BY DEF Alloc
<1>4. Ledger(free \ {f}, lost, Held', MapsTo, page_ref')
  BY <1>1, <1>3, TakeFrame DEF LedgerOK
<1> QED BY <1>2, <1>3, <1>4 DEF LedgerOK

\* Where get_pte works.
LEMMA BuildingPage ==
  ASSUME Core, Building
  PROVE  /\ op \in Calls /\ op.m \in Procs /\ op.p \in Procs /\ Va \in op.pages
         /\ Va \in Vas /\ PtOf(Va) \in Pts /\ PdOf(PtOf(Va)) \in Pds
         /\ pte[op.m][Va] = NULL
<1>1. op.at # "idle" /\ op.pages # {}
  BY DEF Building, At
<1>2. op \in Calls /\ op.m \in Procs /\ op.p \in Procs /\ op.pages \subseteq Vas
  BY <1>1, OpFacts DEF Core, Calls
<1>3. Va \in op.pages /\ Va \in Vas /\ PtOf(Va) \in Pts /\ PdOf(PtOf(Va)) \in Pds
  BY <1>1, <1>2, VaIsPage
<1> QED BY <1>2, <1>3 DEF Core, TodoOK

LEMMA GetPd0Ledger ==
  ASSUME Core, Core', LedgerOK, NEW f \in Frames, GetPd0(f) PROVE LedgerOK'
<1>1. Building
  BY DEF GetPd0
<1>2. PICK m \in Procs, i \in Pds : m = op.m /\ i = PdOf(PtOf(Va))
  BY <1>1, BuildingPage
<1>3. pd0[m][i] = NULL /\ pd0' = [pd0 EXCEPT ![m][i] = f]
  BY <1>2 DEF GetPd0, NoPd0
<1>4. pd0 \in [Procs -> [Pds -> Frames \cup {NULL}]]
  BY DEF Core, MemTypes
<1> DEFINE s == <<"pd0", m, i>>
<1>5. s \in Slots /\ s \in TableSlots
  BY SlotKinds
<1>6. Held[s] = NULL /\ Held'[s] = f
  BY <1>3, <1>4, HeldNow, HeldNext DEF HeldValues
<1>7. SameBut({s})
  <2>1. UNCHANGED <<kstack, pgdir, pt, op>>
    BY DEF GetPd0
  <2>2. \A q \in Procs : \A k \in Pds : ~(q = m /\ k = i) => pd0'[q][k] = pd0[q][k]
    BY <1>3, <1>4
  <2> QED BY <2>1, <2>2 DEF SameBut
<1>8. Alloc(f) /\ UNCHANGED <<pte, lost>> /\ page_ref' = [page_ref EXCEPT ![f] = 1]
  BY DEF GetPd0
<1> HIDE DEF s
<1> QED BY <1>5, <1>6, <1>7, <1>8, TakeStep

LEMMA GetPtLedger ==
  ASSUME Core, Core', LedgerOK, NEW f \in Frames, GetPt(f) PROVE LedgerOK'
<1>1. Building
  BY DEF GetPt
<1>2. PICK m \in Procs, j \in Pts : m = op.m /\ j = PtOf(Va)
  BY <1>1, BuildingPage
<1>3. pt[m][j] = NULL /\ pt' = [pt EXCEPT ![m][j] = f]
  BY <1>2 DEF GetPt, NoPt
<1>4. pt \in [Procs -> [Pts -> Frames \cup {NULL}]]
  BY DEF Core, MemTypes
<1> DEFINE s == <<"pt", m, j>>
<1>5. s \in Slots /\ s \in TableSlots
  BY SlotKinds
<1>6. Held[s] = NULL /\ Held'[s] = f
  BY <1>3, <1>4, HeldNow, HeldNext DEF HeldValues
<1>7. SameBut({s})
  <2>1. UNCHANGED <<kstack, pgdir, pd0, op>>
    BY DEF GetPt
  <2>2. \A q \in Procs : \A k \in Pts : ~(q = m /\ k = j) => pt'[q][k] = pt[q][k]
    BY <1>3, <1>4
  <2> QED BY <2>1, <2>2 DEF SameBut
<1>8. Alloc(f) /\ UNCHANGED <<pte, lost>> /\ page_ref' = [page_ref EXCEPT ![f] = 1]
  BY DEF GetPt
<1> HIDE DEF s
<1> QED BY <1>5, <1>6, <1>7, <1>8, TakeStep

LEMMA SetupPgdirLedger ==
  ASSUME Core, Core', LedgerOK, NEW f \in Frames, SetupPgdir(f) PROVE LedgerOK'
<1>0. op \in Calls /\ op.at = "pgdir"
  BY OpFacts DEF SetupPgdir, At, Core
<1>1. PICK m \in Procs : m = op.m
  BY <1>0 DEF Calls
<1>2. pgdir[m] = NULL /\ pgdir' = [pgdir EXCEPT ![m] = f]
  BY <1>0, <1>1 DEF SetupPgdir, Core, CallOK
<1>3. pgdir \in [Procs -> Frames \cup {NULL}]
  BY DEF Core, MemTypes
<1> DEFINE s == <<"pgdir", m, 0>>
<1>5. s \in Slots /\ s \notin TableSlots
  BY SlotKinds
<1>6. Held[s] = NULL /\ Held'[s] = f
  BY <1>2, <1>3, HeldNow, HeldNext DEF HeldValues
<1>7. SameBut({s})
  <2>1. UNCHANGED <<kstack, pd0, pt>>
    BY DEF SetupPgdir
  <2>2. op'.at # "insert"
    BY <1>0 DEF SetupPgdir, Calls
  <2>3. op'.page = op.page
    BY <1>0, <2>2, PageSame
  <2>4. \A q \in Procs : q # m => pgdir'[q] = pgdir[q]
    BY <1>2, <1>3
  <2> QED BY <2>1, <2>3, <2>4 DEF SameBut
<1>8. Alloc(f) /\ UNCHANGED <<pte, lost, page_ref>>
  BY DEF SetupPgdir
<1> HIDE DEF s
<1> QED BY <1>5, <1>6, <1>7, <1>8, TakeStep

\* setup_kstack
LEMMA StackLedger ==
  ASSUME Core, Core', LedgerOK, NEW c \in Procs, NEW f \in Frames, Alloc(f), op'.page = op.page,
         kstack' = [kstack EXCEPT ![c] = f], state[c] = "none",
         UNCHANGED <<pgdir, pd0, pt, pte, page_ref, lost>>
  PROVE  LedgerOK'
<1> DEFINE s == <<"kstack", c, 0>>
<1>1. kstack[c] = NULL /\ kstack \in [Procs -> Frames \cup {NULL}]
  BY DEF Core, StateOK, MemTypes
<1>2. s \in Slots /\ s \notin TableSlots
  BY SlotKinds
<1>3. Held[s] = NULL /\ Held'[s] = f
  BY <1>1, HeldNow, HeldNext DEF HeldValues
<1>4. SameBut({s})
  BY <1>1 DEF SameBut
<1> HIDE DEF s
<1> QED BY <1>2, <1>3, <1>4, TakeStep

LEMMA NewProcessLedger ==
  ASSUME Core, Core', LedgerOK, NEW p \in Procs, NEW f \in Frames,
         KernelThread(p, f) \/ \E c \in Procs : Fork(p, c, f)
  PROVE  LedgerOK'
<1>1. CASE KernelThread(p, f)
  <2>1. op.at # "insert" /\ op'.at # "insert"
    BY <1>1 DEF KernelThread, At, Idle
  <2> QED BY <1>1, <2>1, PageSame, StackLedger DEF KernelThread, mapVars
<1>2. ASSUME NEW c \in Procs, Fork(p, c, f) PROVE LedgerOK'
  <2>1. op.at # "insert" /\ op'.at # "insert"
    BY <1>2 DEF Fork, At, Call
  <2> QED BY <1>2, <2>1, PageSame, StackLedger DEF Fork, mapVars
<1> QED BY <1>1, <1>2

LEMMA LoadPageLedger ==
  ASSUME Core, Core', LedgerOK, NEW f \in Frames, LoadPage(f) PROVE LedgerOK'
<1>0. op \in Calls /\ op.at = "page"
  BY OpFacts DEF LoadPage, At, Core
<1>1. op.page = NULL /\ op'.page = f
  BY <1>0 DEF LoadPage, Core, CallOK, Calls
<1> DEFINE s == <<"op", 0, 0>>
<1>5. s \in Slots /\ s \notin TableSlots
  BY SlotKinds
<1>6. Held[s] = NULL /\ Held'[s] = f
  BY <1>1, HeldNow, HeldNext DEF HeldValues
<1>7. SameBut({s})
  BY DEF SameBut, LoadPage, mapVars
<1>8. Alloc(f) /\ UNCHANGED <<pte, lost, page_ref>>
  BY DEF LoadPage, mapVars
<1> HIDE DEF s
<1> QED BY <1>5, <1>6, <1>7, <1>8, TakeStep

\* page_insert of a page that alloc_page has just given.
LEMMA MapNewStep ==
  ASSUME Core, Core', LedgerOK, Building, NEW f \in Frames, Alloc(f),
         pte' = [pte EXCEPT ![op.m][Va] = f], page_ref' = [page_ref EXCEPT ![f] = @ + 1],
         SameBut({}), lost' = lost
  PROVE  LedgerOK'
<1>1. PICK m \in Procs, v \in Vas : m = op.m /\ v = Va
  BY BuildingPage
<1>2. pte[m][v] = NULL /\ pte' = [pte EXCEPT ![m][v] = f]
  BY <1>1, BuildingPage
<1> DEFINE u == <<m, v>>
<1>3. CellSet(MapsTo, MapsTo', u, f)
  BY <1>2, CellStep
<1>4. u \in Cells /\ MapsTo[u] = NULL
  BY <1>2, HeldNow DEF HeldValues
<1>5. Held' = Held
  BY HeldUnchanged
<1>6. f \in free /\ free' = free \ {f}
  BY DEF Alloc
<1> HIDE DEF u
<1>7. Ledger(free \ {f}, lost, Held, MapsTo', [page_ref EXCEPT ![f] = @ + 1])
  BY <1>3, <1>4, <1>6, MapNewFrame DEF LedgerOK
<1> QED BY <1>5, <1>6, <1>7 DEF LedgerOK

LEMMA CopyPageLedger ==
  ASSUME Core, Core', LedgerOK, NEW f \in Frames, CopyPage(f) PROVE LedgerOK'
<1>1. op.at # "insert" /\ op \in Calls /\ Building
  BY OpFacts DEF CopyPage, At, Core
<1>2. op'.at # "insert"
  BY <1>1 DEF CopyPage, Calls
<1>3. SameBut({})
  BY <1>1, <1>2, PageSame DEF SameBut, CopyPage
<1> QED BY <1>1, <1>3, MapNewStep DEF CopyPage, Map

LEMMA ZeroPageLedger ==
  ASSUME Core, Core', LedgerOK, NEW f \in Frames, ZeroPage(f) PROVE LedgerOK'
<1>1. op.at # "insert" /\ Building
  BY DEF ZeroPage, At, Building, Core, TodoOK
<1>2. op'.at # "insert"
  BY DEF ZeroPage, Idle
<1>3. SameBut({})
  BY <1>1, <1>2, PageSame DEF SameBut, ZeroPage
<1> QED BY <1>1, <1>3, MapNewStep DEF ZeroPage, Map

LEMMA InsertPageLedger == ASSUME Core, Core', LedgerOK, InsertPage PROVE LedgerOK'
<1>0. op.at = "insert" /\ op \in Calls /\ Building
  BY OpFacts DEF InsertPage, At, Core
<1>1. PICK m \in Procs, v \in Vas : m = op.m /\ v = Va
  BY <1>0, BuildingPage
<1>a. PICK f \in Frames : f = op.page
  BY <1>0 DEF Core, CallOK, Calls
<1>2. /\ pte[m][v] = NULL /\ pte' = [pte EXCEPT ![m][v] = f]
      /\ page_ref' = [page_ref EXCEPT ![f] = @ + 1]
  BY <1>0, <1>1, <1>a, BuildingPage DEF InsertPage, Map
<1>b. op'.page = NULL
  BY <1>0 DEF InsertPage, Calls
<1> DEFINE u == <<m, v>>
           s == <<"op", 0, 0>>
<1>3. CellSet(MapsTo, MapsTo', u, f)
  BY <1>2, CellStep
<1>4. u \in Cells /\ MapsTo[u] = NULL
  BY <1>2, HeldNow DEF HeldValues
<1>5. s \in OtherSlots /\ s \in Slots
  BY SlotKinds
<1>6. Held[s] = f /\ Held'[s] = NULL /\ f # NULL
  BY <1>a, <1>b, HeldNow, HeldNext DEF HeldValues, Frames, NULL
<1>7. SameBut({s})
  BY DEF SameBut, InsertPage
<1>8. free' = free /\ lost' = lost
  BY DEF InsertPage
<1> HIDE DEF u, s
<1>9. SlotSet(Held, Held', s, NULL)
  BY <1>5, <1>6, <1>7, SlotStep
<1>10. CellSet(MapsTo, MapsTo', u, Held[s]) /\ Held[s] # NULL
  BY <1>3, <1>6
<1>11. Ledger(free, lost, Held', MapsTo', [page_ref EXCEPT ![Held[s]] = @ + 1])
  BY <1>4, <1>5, <1>9, <1>10, MapHeldFrame DEF LedgerOK
<1> QED BY <1>2, <1>6, <1>8, <1>11 DEF LedgerOK

LEMMA SharePageLedger == ASSUME Core, Core', LedgerOK, SharePage PROVE LedgerOK'
<1>0. op.at = "copy" /\ op \in Calls /\ Building
  BY OpFacts DEF SharePage, At, Core
<1>1. PICK m \in Procs, p \in Procs, v \in Vas : m = op.m /\ p = op.p /\ v = Va /\ v \in op.pages
  BY <1>0, BuildingPage
<1>2. pte[m][v] = NULL /\ pte[p][v] # NULL
  BY <1>0, <1>1, BuildingPage DEF Core, DupOK, Forking
<1>3. /\ pte' = [pte EXCEPT ![m][v] = pte[p][v]]
      /\ page_ref' = [page_ref EXCEPT ![pte[p][v]] = @ + 1]
  BY <1>1 DEF SharePage
<1>a. PICK f \in Frames : f = pte[p][v]
  BY <1>2 DEF Core, MemTypes
<1> DEFINE u == <<m, v>>
           x == <<p, v>>
<1>4. CellSet(MapsTo, MapsTo', u, f)
  BY <1>3, <1>a, CellStep
<1>5. u \in Cells /\ MapsTo[u] = NULL /\ x \in Cells /\ MapsTo[x] = f /\ MapsTo[x] # NULL
  BY <1>2, <1>a, HeldNow DEF HeldValues
<1>6. op'.at # "insert"
  BY <1>0 DEF SharePage, Calls
<1>7. SameBut({})
  BY <1>0, <1>6, PageSame DEF SameBut, SharePage
<1>8. Held' = Held
  BY <1>7, HeldUnchanged
<1>9. free' = free /\ lost' = lost
  BY DEF SharePage
<1> HIDE DEF u, x
<1>10. CellSet(MapsTo, MapsTo', u, MapsTo[x])
  BY <1>4, <1>5
<1>11. Ledger(free, lost, Held, MapsTo', [page_ref EXCEPT ![MapsTo[x]] = @ + 1])
  BY <1>5, <1>10, MapSharedFrame DEF LedgerOK
<1> QED BY <1>3, <1>a, <1>5, <1>8, <1>9, <1>11 DEF LedgerOK

LEMMA WriteFaultLedger ==
  ASSUME Core, Core', LedgerOK, NEW p \in Procs, NEW v \in Vas, NEW f \in Frames,
         pte[p][v] # NULL, WriteFault(p, v, f)
  PROVE  LedgerOK'
<1> DEFINE u == <<p, v>>
<1>1. /\ pte' = [pte EXCEPT ![p][v] = f] /\ page_ref[pte[p][v]] > 1
      /\ page_ref' = [page_ref EXCEPT ![f] = 1, ![pte[p][v]] = @ - 1]
  BY DEF WriteFault
<1>2. CellSet(MapsTo, MapsTo', u, f)
  BY <1>1, CellStep
<1>3. u \in Cells /\ MapsTo[u] = pte[p][v]
  BY HeldNow DEF HeldValues
<1>4. op.at # "insert" /\ op'.at # "insert"
  BY DEF WriteFault, Fault, At, Idle
<1>5. SameBut({})
  BY <1>4, PageSame DEF SameBut, WriteFault
<1>6. Held' = Held
  BY <1>5, HeldUnchanged
<1>7. f \in free /\ free' = free \ {f} /\ lost' = lost
  BY DEF WriteFault, Alloc
<1> HIDE DEF u
<1>8. MapsTo[u] # NULL /\ page_ref[MapsTo[u]] > 1
  BY <1>1, <1>3
<1>9. Ledger(free \ {f}, lost, Held, MapsTo',
             [page_ref EXCEPT ![f] = 1, ![MapsTo[u]] = @ - 1])
  BY <1>2, <1>3, <1>7, <1>8, ReplaceFrame DEF LedgerOK
<1> QED BY <1>1, <1>3, <1>6, <1>7, <1>9 DEF LedgerOK

\* A pair for every element.
LEMMA PairsCount ==
  ASSUME NEW m, NEW R, IsFiniteSet(R)
  PROVE  IsFiniteSet({m} \X R) /\ Cardinality({m} \X R) = Cardinality(R)
<1> DEFINE f == [x \in R |-> <<m, x>>]
<1>1. f \in Bijection(R, {m} \X R)
  <2>1. f \in [R -> {m} \X R]
    OBVIOUS
  <2>2. \A x, y \in R : f[x] = f[y] => x = y
    OBVIOUS
  <2>3. \A y \in {m} \X R : \E x \in R : f[x] = y
    OBVIOUS
  <2> QED BY <2>1, <2>2, <2>3 DEF Bijection, Injection, Surjection, IsInjective
<1> QED BY <1>1, FS_Bijection DEF ExistsBijection

LEMMA UnmapAllLedger == ASSUME Core, Core', LedgerOK, UnmapAll PROVE LedgerOK'
<1>0. op.at = "unmap" /\ op \in Calls
  BY OpFacts DEF UnmapAll, At, Core
<1>1. PICK m \in Procs : m = op.m
  BY <1>0 DEF Calls
<1>2. UnmapSet \subseteq Vas /\ \A v \in Vas : v \in UnmapSet <=> pte[m][v] # NULL
  BY <1>1, UnmapsEverything
<1>a. PICK S \in SUBSET Vas : S = UnmapSet
  BY <1>2
<1> DEFINE Maps(f) == {v \in S : pte[m][v] = f}
           C == {m} \X S
           r == [f \in Frames |-> page_ref[f] - Cardinality({u \in C : MapsTo[u] = f})]
<1>3. /\ pte' = [pte EXCEPT ![m] = [v \in Vas |-> IF v \in S THEN NULL ELSE pte[m][v]]]
      /\ page_ref' = [f \in Frames |-> page_ref[f] - Cardinality(Maps(f))]
      /\ free' = free \cup {f \in Frames : Maps(f) # {} /\ page_ref'[f] = 0}
  <2>1. pte \in [Procs -> [Vas -> Frames \cup {NULL}]]
    BY DEF Core, MemTypes
  <2> QED BY <2>1, <1>1, <1>a DEF UnmapAll, UnmapSet
<1>4. C \in SUBSET Cells /\ \A v \in S : MapsTo[<<m, v>>] = pte[m][v]
  BY HeldNow DEF Cells, HeldValues
<1>5. \A u \in C : MapsTo[u] # NULL
  BY <1>2, <1>a, <1>4
<1>6. ASSUME NEW f \in Frames
      PROVE  /\ Cardinality({u \in C : MapsTo[u] = f}) = Cardinality(Maps(f))
             /\ (\E u \in C : MapsTo[u] = f) <=> Maps(f) # {}
  <2>1. {u \in C : MapsTo[u] = f} = {m} \X Maps(f)
    BY <1>4
  <2>2. IsFiniteSet(Maps(f))
    BY FS_Subset, PageNumbers
  <2>3. (\E u \in C : MapsTo[u] = f) <=> Maps(f) # {}
    <3>1. ASSUME NEW u \in C, MapsTo[u] = f PROVE u[2] \in Maps(f)
      BY <1>4, <3>1
    <3>2. ASSUME NEW v \in Maps(f) PROVE <<m, v>> \in C /\ MapsTo[<<m, v>>] = f
      BY <1>4
    <3> QED BY <3>1, <3>2
  <2> HIDE DEF Maps, C
  <2> QED BY <2>1, <2>2, <2>3, PairsCount
<1>7. CellsClear(MapsTo, MapsTo', C)
  <2>1. MapsTo' \in [Cells -> Frames \cup {NULL}]
    BY HeldNext DEF HeldValues
  <2>2. pte \in [Procs -> [Vas -> Frames \cup {NULL}]]
    BY DEF Core, MemTypes
  <2>3. ASSUME NEW x \in Cells PROVE MapsTo'[x] = IF x \in C THEN NULL ELSE MapsTo[x]
    <3>1. PICK q \in Procs, v \in Vas : x = <<q, v>>
      BY DEF Cells
    <3>2. MapsTo'[x] = pte'[q][v] /\ MapsTo[x] = pte[q][v]
      BY <3>1 DEF MapsTo, MapsOf, Cells
    <3>3. x \in C <=> q = m /\ v \in S
      BY <3>1
    <3>4. pte'[q][v] = IF q = m /\ v \in S THEN NULL ELSE pte[q][v]
      BY <1>3, <2>2
    <3> QED BY <3>2, <3>3, <3>4
  <2> HIDE DEF C
  <2> QED BY <1>4, <1>5, <2>1, <2>3 DEF CellsClear
<1>8. page_ref' = r
  BY <1>3, <1>6
<1>9. free' = free \cup {f \in Frames : (\E u \in C : MapsTo[u] = f) /\ r[f] = 0}
  BY <1>3, <1>6, <1>8
<1>10. SameBut({})
  <2>1. op'.at # "insert" /\ op.at # "insert"
    BY <1>0 DEF UnmapAll, Calls
  <2> QED BY <2>1, PageSame DEF SameBut, UnmapAll
<1>11. Held' = Held /\ lost' = lost
  BY <1>10, HeldUnchanged DEF UnmapAll
<1> DEFINE F == {f \in Frames : (\E u \in C : MapsTo[u] = f) /\ r[f] = 0}
<1>12. FewerUses(MapsTo, page_ref, C, r) /\ LastUses(MapsTo, C, r, F)
  BY DEF FewerUses, LastUses
<1>13. free' = free \cup F
  BY <1>9
<1>b. Ledger(free, lost, Held, MapsTo, page_ref)
  BY DEF LedgerOK
<1> HIDE DEF C, r, F
<1>14. Ledger(free \cup F, lost, Held, MapsTo', r)
  BY <1>7, <1>12, <1>b, UnmapFrames
<1> QED BY <1>8, <1>11, <1>13, <1>14 DEF LedgerOK

\* Steps that give back the frames F of the slots S.
LEMMA GiveStep ==
  ASSUME Core, Core', LedgerOK, NEW S \in SUBSET Slots, SameBut(S),
         \A s \in S : Held'[s] = NULL, NEW F, Contents(Held, S, F), FreePages(F),
         UNCHANGED <<pte, lost>>
  PROVE  LedgerOK'
<1>1. SlotsClear(Held, Held', S)
  BY HeldNext, HeldStep DEF SlotsClear, HeldValues
<1>2. MapsTo' = MapsTo
  BY DEF MapsTo
<1>3. free' = free \cup F /\ page_ref' = Cleared(page_ref, F)
  BY DEF FreePages
<1>4. Ledger(free \cup F, lost, Held', MapsTo, Cleared(page_ref, F))
  BY <1>1, GiveFrames DEF LedgerOK
<1> QED BY <1>2, <1>3, <1>4 DEF LedgerOK

LEMMA StackBackLedger ==
  ASSUME Core, Core', LedgerOK, NEW p \in Procs, kstack[p] # NULL,
         kstack' = [kstack EXCEPT ![p] = NULL], FreePages({kstack[p]}), op'.page = op.page,
         UNCHANGED <<pgdir, pd0, pt, pte, lost>>
  PROVE  LedgerOK'
<1> DEFINE s == <<"kstack", p, 0>>
<1>1. kstack \in [Procs -> Frames \cup {NULL}]
  BY DEF Core, MemTypes
<1>2. s \in Slots
  BY SlotKinds
<1>3. Held[s] = kstack[p] /\ Held'[s] = NULL
  BY <1>1, HeldNow, HeldNext DEF HeldValues
<1>4. SameBut({s})
  BY <1>1 DEF SameBut
<1> HIDE DEF s
<1>5. Contents(Held, {s}, {kstack[p]})
  BY <1>3 DEF Contents
<1> QED BY <1>2, <1>3, <1>4, <1>5, GiveStep

LEMMA StacksLedger ==
  ASSUME Core, Core', LedgerOK, ForkFailed \/ \E p \in Procs : Reap(p)
  PROVE  LedgerOK'
<1>1. CASE ForkFailed
  <2>1. op \in Calls /\ op.at = "gone" /\ op.why = "fork"
    BY <1>1, OpFacts DEF ForkFailed, At, Core
  <2>2. PICK m \in Procs : m = op.m
    BY <2>1 DEF Calls
  <2>3. kstack[m] # NULL
    BY <2>1, <2>2 DEF Core, CallOK, StateOK
  <2>4. op'.at # "insert"
    BY <1>1 DEF ForkFailed, Idle
  <2>5. op'.page = op.page
    BY <2>1, <2>4, PageSame
  <2> QED BY <1>1, <2>2, <2>3, <2>5, StackBackLedger DEF ForkFailed, mapVars
<1>2. ASSUME NEW p \in Procs, Reap(p) PROVE LedgerOK'
  <2>1. kstack[p] # NULL
    BY <1>2 DEF Reap, Core, StateOK
  <2> QED BY <1>2, <2>1, StackBackLedger DEF Reap, mapVars
<1> QED BY <1>1, <1>2

LEMMA GetPteFailsLedger == ASSUME Core, Core', LedgerOK, GetPteFails PROVE LedgerOK'
<1>0. op \in Calls /\ Building
  BY OpFacts DEF GetPteFails, Building, At, Core
<1>1. op'.page = NULL
  BY <1>0 DEF GetPteFails, CleanUp, Calls
<1> DEFINE s == <<"op", 0, 0>>
<1>2. CASE op.at = "insert"
  <2>1. op.page # NULL /\ FreePages({op.page})
    BY <1>2 DEF Core, CallOK, GetPteFails, PageBack
  <2>2. s \in Slots
    BY SlotKinds
  <2>3. Held[s] = op.page /\ Held'[s] = NULL
    BY <1>1, HeldNow, HeldNext DEF HeldValues
  <2>4. SameBut({s}) /\ UNCHANGED <<pte, lost>>
    BY DEF SameBut, GetPteFails, mapVars
  <2> HIDE DEF s
  <2>5. PICK f : f = op.page
    OBVIOUS
  <2>6. Contents(Held, {s}, {f})
    BY <2>1, <2>3, <2>5 DEF Contents
  <2>7. FreePages({f}) /\ \A t \in {s} : Held'[t] = NULL
    BY <2>1, <2>3, <2>5
  <2> QED BY <2>2, <2>4, <2>6, <2>7, GiveStep
<1>3. CASE op.at # "insert"
  <2>1. op.page = NULL
    BY <1>3 DEF Core, CallOK
  <2>2. SameBut({}) /\ UNCHANGED <<pte, lost>>
    BY <1>1, <2>1 DEF SameBut, GetPteFails, mapVars
  <2>3. FreePages({})
    BY <1>3 DEF GetPteFails, PageBack
  <2>4. Contents(Held, {}, {})
    BY DEF Contents
  <2> QED BY <2>2, <2>3, <2>4, GiveStep
<1> QED BY <1>2, <1>3

\* Steps that give back the frames F of the slots S, and drop the slots R, with
\* the frames L in them.
LEMMA TearStep ==
  ASSUME Core, Core', LedgerOK, NEW S \in SUBSET Slots, NEW R \in SUBSET Slots, S \cap R = {},
         SameBut(S \cup R), \A s \in S \cup R : Held'[s] = NULL,
         NEW F, Contents(Held, S, F), FreePages(F),
         NEW L, Contents(Held, R, L), lost' = lost \cup L, MapsTo' = MapsTo
  PROVE  LedgerOK'
<1>0. Held \in [Slots -> Frames \cup {NULL}] /\ Held' \in [Slots -> Frames \cup {NULL}]
  BY HeldNow, HeldNext DEF HeldValues
<1>1. PICK G : G = [s \in Slots |-> IF s \in S THEN NULL ELSE Held[s]]
  OBVIOUS
<1>2. /\ G \in [Slots -> Frames \cup {NULL}]
      /\ \A s \in Slots : G[s] = IF s \in S THEN NULL ELSE Held[s]
  BY <1>0, <1>1
<1>3. SlotsClear(Held, G, S)
  BY <1>2 DEF SlotsClear
<1>4. Ledger(free \cup F, lost, G, MapsTo, Cleared(page_ref, F))
  BY <1>3, GiveFrames DEF LedgerOK
<1>5. \A s \in Slots : s \notin S \cup R => Held'[s] = Held[s]
  BY HeldStep
<1>6. SlotsClear(G, Held', R)
  BY <1>0, <1>2, <1>5 DEF SlotsClear
<1>7. Contents(G, R, L)
  BY <1>2 DEF Contents
<1>8. Ledger(free \cup F, lost \cup L, Held', MapsTo, Cleared(page_ref, F))
  BY <1>4, <1>6, <1>7, LoseFrames
<1> QED BY <1>8 DEF LedgerOK, FreePages

LEMMA ExitRangeLedger ==
  ASSUME Core, Core', LedgerOK, NEW a \in op.todo, ExitRange(a) PROVE LedgerOK'
<1>1. PICK m \in Procs : m = op.m
  BY ExitRangeIs
<1> DEFINE T == FreedPts(a)
           D == FreedPds(a)
           K == LostPts(a)
           S == ({"pt"} \X {m} \X T) \cup ({"pd0"} \X {m} \X D)
           R == {"pt"} \X {m} \X K
           F == {pt[m][j] : j \in T} \cup {pd0[m][i] : i \in D}
           L == {pt[m][j] : j \in K}
<1>2. /\ T \subseteq Pts /\ D \subseteq Pds /\ K \subseteq Pts /\ T \cap K = {}
      /\ \A j \in T : pt[m][j] # NULL
      /\ \A i \in D : pd0[m][i] # NULL
      /\ \A j \in K : pt[m][j] # NULL
  BY <1>1 DEF FreedPts, FreedPds, LostPts, FreesPd0
<1>3. /\ \A p \in Procs : p # m => pt'[p] = pt[p] /\ pd0'[p] = pd0[p]
      /\ \A j \in Pts : pt'[m][j] = IF j \in T \cup K THEN NULL ELSE pt[m][j]
      /\ \A i \in Pds : pd0'[m][i] = IF i \in D THEN NULL ELSE pd0[m][i]
  BY <1>1, ExitRangeTables
<1>4. FreePages(F) /\ lost' = lost \cup L
  <2>1. /\ F = {pt[op.m][j] : j \in T} \cup {pd0[op.m][i] : i \in D}
        /\ L = {pt[op.m][j] : j \in K}
    BY <1>1
  <2>2. /\ FreePages({pt[op.m][j] : j \in T} \cup {pd0[op.m][i] : i \in D})
        /\ lost' = lost \cup {pt[op.m][j] : j \in K}
    BY ExitRangeIs
  <2> HIDE DEF F, L, T, D, K
  <2> QED BY <2>1, <2>2, Zenon
<1>5. UNCHANGED <<kstack, pgdir, pte>> /\ op'.page = op.page
  BY ExitRangeIs DEF Calls
<1> HIDE DEF T, D, K
<1>6. /\ \A j \in T : <<"pt", m, j>> \in S /\ <<"pt", m, j>> \notin R
      /\ \A i \in D : <<"pd0", m, i>> \in S
      /\ \A j \in K : <<"pt", m, j>> \in R
      /\ \A s \in S : \/ \E j \in T : s = <<"pt", m, j>>
                      \/ \E i \in D : s = <<"pd0", m, i>>
      /\ \A s \in R : \E j \in K : s = <<"pt", m, j>>
  BY <1>2
<1>7. S \cap R = {}
  BY <1>2
<1>8. S \in SUBSET Slots /\ R \in SUBSET Slots
  BY <1>2, <1>6, SlotKinds
<1>9. /\ \A j \in Pts : Held[<<"pt", m, j>>] = pt[m][j] /\ Held'[<<"pt", m, j>>] = pt'[m][j]
      /\ \A i \in Pds : Held[<<"pd0", m, i>>] = pd0[m][i] /\ Held'[<<"pd0", m, i>>] = pd0'[m][i]
  BY HeldNow, HeldNext DEF HeldValues
<1>10. SameBut(S \cup R)
  <2>1. ASSUME NEW p \in Procs, NEW j \in Pts, <<"pt", p, j>> \notin S \cup R
        PROVE  pt'[p][j] = pt[p][j]
    <3>1. p # m \/ j \notin T \cup K
      BY <2>1
    <3> QED BY <1>3, <3>1
  <2>2. ASSUME NEW p \in Procs, NEW i \in Pds, <<"pd0", p, i>> \notin S \cup R
        PROVE  pd0'[p][i] = pd0[p][i]
    <3>1. p # m \/ i \notin D
      BY <2>2
    <3> QED BY <1>3, <3>1
  <2> HIDE DEF S, R
  <2> QED BY <1>5, <2>1, <2>2 DEF SameBut
<1>11. /\ \A j \in T : pt[m][j] \in F
       /\ \A i \in D : pd0[m][i] \in F
       /\ \A f \in F : (\E j \in T : f = pt[m][j]) \/ \E i \in D : f = pd0[m][i]
       /\ \A j \in K : pt[m][j] \in L
       /\ \A f \in L : \E j \in K : f = pt[m][j]
  OBVIOUS
<1> HIDE DEF S, R, F, L
<1>12. \A s \in S \cup R : Held'[s] = NULL
  BY <1>2, <1>3, <1>6, <1>9
<1>13. Contents(Held, S, F)
  <2>1. ASSUME NEW s \in S PROVE Held[s] # NULL /\ Held[s] \in F
    BY <1>2, <1>6, <1>9, <1>11
  <2>2. ASSUME NEW f \in F PROVE \E s \in S : f = Held[s]
    <3>1. CASE \E j \in T : f = pt[m][j]
      BY <3>1, <1>2, <1>6, <1>9
    <3>2. CASE \E i \in D : f = pd0[m][i]
      BY <3>2, <1>2, <1>6, <1>9
    <3> QED BY <3>1, <3>2, <1>11
  <2> QED BY <2>1, <2>2 DEF Contents
<1>14. Contents(Held, R, L)
  <2>1. ASSUME NEW s \in R PROVE Held[s] # NULL /\ Held[s] \in L
    BY <1>2, <1>6, <1>9, <1>11
  <2>2. ASSUME NEW f \in L PROVE \E s \in R : f = Held[s]
    <3>1. PICK j \in K : f = pt[m][j]
      BY <1>11
    <3>2. <<"pt", m, j>> \in R /\ j \in Pts
      BY <1>2, <1>6
    <3>3. f = Held[<<"pt", m, j>>]
      BY <1>9, <3>1, <3>2
    <3> QED BY <3>2, <3>3
  <2> QED BY <2>1, <2>2 DEF Contents
<1>15. MapsTo' = MapsTo
  BY <1>5 DEF MapsTo
<1> QED BY <1>4, <1>7, <1>8, <1>10, <1>12, <1>13, <1>14, <1>15, TearStep

LEMMA PutPgdirLedger == ASSUME Core, Core', LedgerOK, PutPgdir PROVE LedgerOK'
<1>0. op.at = "tables" /\ op \in Calls
  BY OpFacts DEF PutPgdir, At, Core
<1>1. PICK m \in Procs : m = op.m
  BY <1>0 DEF Calls
<1>2. pgdir[m] # NULL /\ \A v \in Vas : pte[m][v] = NULL
  BY <1>0, <1>1 DEF Core, CallOK, TodoOK
<1> DEFINE S == {<<"pgdir", m, 0>>}
           K == {j \in Pts : pt[m][j] # NULL}
           D == {i \in Pds : pd0[m][i] # NULL}
           R == ({"pt"} \X {m} \X K) \cup ({"pd0"} \X {m} \X D)
           L == {pt[m][j] : j \in K} \cup {pd0[m][i] : i \in D}
<1>3. /\ pgdir' = [pgdir EXCEPT ![m] = NULL]
      /\ pd0' = [pd0 EXCEPT ![m] = [i \in Pds |-> NULL]]
      /\ pt' = [pt EXCEPT ![m] = [j \in Pts |-> NULL]]
      /\ pte' = [pte EXCEPT ![m] = [v \in Vas |-> NULL]]
      /\ lost' = lost \cup (({pd0[m][i] : i \in Pds} \cup {pt[m][j] : j \in Pts}
                             \cup {pte[m][v] : v \in Vas}) \ {NULL})
      /\ FreePages({pgdir[m]}) /\ kstack' = kstack
  BY <1>1 DEF PutPgdir
<1>4. lost' = lost \cup L
  BY <1>2, <1>3
<1>a. /\ pgdir \in [Procs -> Frames \cup {NULL}]
      /\ pd0 \in [Procs -> [Pds -> Frames \cup {NULL}]]
      /\ pt \in [Procs -> [Pts -> Frames \cup {NULL}]]
      /\ pte \in [Procs -> [Vas -> Frames \cup {NULL}]]
  BY DEF Core, MemTypes
<1>5. /\ \A p \in Procs : p # m => /\ pgdir'[p] = pgdir[p] /\ pd0'[p] = pd0[p]
                                   /\ pt'[p] = pt[p] /\ pte'[p] = pte[p]
      /\ pgdir'[m] = NULL
      /\ \A j \in Pts : pt'[m][j] = NULL
      /\ \A i \in Pds : pd0'[m][i] = NULL
      /\ \A v \in Vas : pte'[m][v] = NULL
  BY <1>3, <1>a
<1>b. pte' = pte
  <2>1. pte' \in [Procs -> [Vas -> Frames \cup {NULL}]]
    BY DEF Core, MemTypes
  <2>2. ASSUME NEW p \in Procs PROVE pte'[p] = pte[p]
    <3>1. CASE p = m
      <4>1. pte'[m] \in [Vas -> Frames \cup {NULL}] /\ pte[m] \in [Vas -> Frames \cup {NULL}]
        BY <1>a, <2>1
      <4>2. \A v \in Vas : pte'[m][v] = pte[m][v]
        BY <1>2, <1>5
      <4> QED BY <3>1, <4>1, <4>2
    <3> QED BY <3>1, <1>5
  <2> QED BY <1>a, <2>1, <2>2
<1>c. op'.page = op.page
  <2>1. op'.at # "insert"
    BY <1>0 DEF PutPgdir, Calls
  <2> QED BY <1>0, <2>1, PageSame
<1>6. /\ \A j \in K : <<"pt", m, j>> \in R
      /\ \A i \in D : <<"pd0", m, i>> \in R
      /\ \A s \in R : \/ \E j \in K : s = <<"pt", m, j>>
                      \/ \E i \in D : s = <<"pd0", m, i>>
      /\ K \subseteq Pts /\ D \subseteq Pds
  OBVIOUS
<1>7. S \cap R = {}
  OBVIOUS
<1>8. S \in SUBSET Slots /\ R \in SUBSET Slots
  <2>1. <<"pgdir", m, 0>> \in Slots
    BY SlotKinds
  <2>2. \A s \in R : s \in Slots
    <3> HIDE DEF R, K, D
    <3> QED BY <1>6, SlotKinds
  <2> QED BY <2>1, <2>2
<1>9. /\ \A j \in Pts : Held[<<"pt", m, j>>] = pt[m][j] /\ Held'[<<"pt", m, j>>] = pt'[m][j]
      /\ \A i \in Pds : Held[<<"pd0", m, i>>] = pd0[m][i] /\ Held'[<<"pd0", m, i>>] = pd0'[m][i]
      /\ Held[<<"pgdir", m, 0>>] = pgdir[m] /\ Held'[<<"pgdir", m, 0>>] = pgdir'[m]
  BY HeldNow, HeldNext DEF HeldValues
<1>10. SameBut(S \cup R)
  <2>1. ASSUME NEW p \in Procs, NEW j \in Pts, <<"pt", p, j>> \notin S \cup R
        PROVE  pt'[p][j] = pt[p][j]
    <3>1. p # m \/ j \notin K
      BY <2>1
    <3> QED BY <1>5, <3>1
  <2>2. ASSUME NEW p \in Procs, NEW i \in Pds, <<"pd0", p, i>> \notin S \cup R
        PROVE  pd0'[p][i] = pd0[p][i]
    <3>1. p # m \/ i \notin D
      BY <2>2
    <3> QED BY <1>5, <3>1
  <2>3. ASSUME NEW p \in Procs, <<"pgdir", p, 0>> \notin S \cup R PROVE pgdir'[p] = pgdir[p]
    BY <1>5, <2>3
  <2> HIDE DEF S, R
  <2> QED BY <1>3, <1>c, <2>1, <2>2, <2>3 DEF SameBut
<1>11. /\ \A j \in K : pt[m][j] \in L /\ pt[m][j] # NULL
       /\ \A i \in D : pd0[m][i] \in L /\ pd0[m][i] # NULL
       /\ \A f \in L : (\E j \in K : f = pt[m][j]) \/ \E i \in D : f = pd0[m][i]
  OBVIOUS
<1>12. \A s \in S : Held'[s] = NULL
  BY <1>5, <1>9
<1>13. Contents(Held, S, {pgdir[m]})
  BY <1>2, <1>9 DEF Contents
<1> HIDE DEF S, R, L, K, D
<1>14. \A s \in R : Held'[s] = NULL
  BY <1>5, <1>6, <1>9
<1>15. Contents(Held, R, L)
  <2>1. ASSUME NEW s \in R PROVE Held[s] # NULL /\ Held[s] \in L
    BY <1>6, <1>9, <1>11
  <2>2. ASSUME NEW f \in L PROVE \E s \in R : f = Held[s]
    <3>1. CASE \E j \in K : f = pt[m][j]
      BY <3>1, <1>6, <1>9
    <3>2. CASE \E i \in D : f = pd0[m][i]
      BY <3>2, <1>6, <1>9
    <3> QED BY <3>1, <3>2, <1>11
  <2> QED BY <2>1, <2>2 DEF Contents
<1>16. MapsTo' = MapsTo
  BY <1>b DEF MapsTo
<1>17. PICK F : F = {pgdir[m]}
  OBVIOUS
<1>18. Contents(Held, S, F) /\ FreePages(F)
  BY <1>3, <1>13, <1>17
<1> QED BY <1>4, <1>7, <1>8, <1>10, <1>12, <1>14, <1>15, <1>16, <1>18, TearStep

LEMMA LedgerInit == Init => LedgerOK
<1> SUFFICES ASSUME Init PROVE LedgerOK
  OBVIOUS
<1>1. HeldValues
  BY CoreInit, HeldNow
<1>2. op.page = NULL
  BY IdleFields DEF Init
<1>3. \A s \in Slots : Held[s] = NULL
  <2> SUFFICES ASSUME NEW s \in Slots PROVE Held[s] = NULL
    OBVIOUS
  <2>1. /\ \A p \in Procs : kstack[p] = NULL /\ pgdir[p] = NULL
        /\ \A p \in Procs : \A i \in Pds : pd0[p][i] = NULL
        /\ \A p \in Procs : \A j \in Pts : pt[p][j] = NULL
    BY DEF Init
  <2>2. CASE \E p \in Procs : s = <<"kstack", p, 0>> \/ s = <<"pgdir", p, 0>>
    <3>1. PICK p \in Procs : s = <<"kstack", p, 0>> \/ s = <<"pgdir", p, 0>>
      BY <2>2
    <3> QED BY <1>1, <2>1, <3>1 DEF HeldValues
  <2>3. CASE \E p \in Procs : \E i \in Pds : s = <<"pd0", p, i>>
    <3>1. PICK p \in Procs, i \in Pds : s = <<"pd0", p, i>>
      BY <2>3
    <3> QED BY <1>1, <2>1, <3>1 DEF HeldValues
  <2>4. CASE \E p \in Procs : \E j \in Pts : s = <<"pt", p, j>>
    <3>1. PICK p \in Procs, j \in Pts : s = <<"pt", p, j>>
      BY <2>4
    <3> QED BY <1>1, <2>1, <3>1 DEF HeldValues
  <2>5. CASE s = <<"op", 0, 0>>
    BY <1>1, <1>2, <2>5 DEF HeldValues
  <2> QED BY <2>2, <2>3, <2>4, <2>5, SlotCases
<1>4. \A u \in Cells : MapsTo[u] = NULL
  BY DEF Init, MapsTo, MapsOf, Cells
<1>5. \A f \in Frames : f # NULL /\ page_ref[f] = 0
  BY DEF Init, Frames, NULL
<1>6. LedgerTypes(free, lost, Held, MapsTo, page_ref)
  <2>1. free \subseteq Frames /\ lost \subseteq Frames
    BY CoreInit DEF Core, MemTypes
  <2>2. page_ref \in [Frames -> Nat]
    BY DEF Init
  <2> QED BY <1>1, <2>1, <2>2 DEF LedgerTypes, HeldValues
<1>7. OnePlace(free, lost, Held, MapsTo)
  BY <1>3, <1>4 DEF OnePlace, Init
<1>8. RefsOK(lost, Held, MapsTo, page_ref)
  <2>1. ASSUME NEW f \in Frames PROVE Uses(MapsTo, f) = 0
    BY <1>4, <1>5, CellsFinite
  <2>2. \A f \in Frames : ~\E s \in TableSlots : Held[s] = f
    BY <1>3, <1>5 DEF Slots
  <2> QED BY <1>5, <2>1, <2>2 DEF RefsOK
<1>9. AllThere(free, lost, Held, MapsTo)
  <2>1. PICK n \in Sizes : free = 1..n
    BY DEF Init
  <2>2. n \in Nat
    BY VmAssumption
  <2>3. \A f \in Frames : f <= n <=> f \in free
    BY <2>1, <2>2 DEF Frames
  <2>4. \A f \in Frames : f \notin lost /\ ~Taken(Held, MapsTo, f)
    BY <1>3, <1>4, <1>5 DEF Taken, Init
  <2> QED BY <2>3, <2>4 DEF AllThere
<1> QED BY <1>6, <1>7, <1>8, <1>9 DEF LedgerOK, Ledger

LEMMA LedgerStep == Core /\ MarkedOK /\ LedgerOK /\ [Next]_vars => LedgerOK'
<1> SUFFICES ASSUME Core, MarkedOK, LedgerOK, [Next]_vars PROVE LedgerOK'
  OBVIOUS
<1>a. Core'
  BY CoreStep
<1>0. CASE QuietAction
  BY <1>0, <1>a, QuietSteps
<1>1. ASSUME NEW f \in Frames,
             GetPd0(f) \/ GetPt(f) \/ SetupPgdir(f) \/ CopyPage(f) \/ LoadPage(f) \/ ZeroPage(f)
      PROVE  LedgerOK'
  BY <1>a, <1>1, GetPd0Ledger, GetPtLedger, SetupPgdirLedger, CopyPageLedger,
     LoadPageLedger, ZeroPageLedger
<1>2. CASE GetPteFails \/ SharePage \/ InsertPage
  BY <1>a, <1>2, GetPteFailsLedger, SharePageLedger, InsertPageLedger
<1>3. CASE UnmapAll \/ PutPgdir \/ ForkFailed \/ \E p \in Procs : Reap(p)
  BY <1>a, <1>3, UnmapAllLedger, PutPgdirLedger, StacksLedger
<1>4. ASSUME NEW a \in op.todo, ExitRange(a) PROVE LedgerOK'
  BY <1>a, <1>4, ExitRangeLedger
<1>5. ASSUME NEW p \in Procs, NEW v \in Vas, NEW f \in Frames, WriteFault(p, v, f)
      PROVE  LedgerOK'
  <2>1. pte[p][v] # NULL
    BY <1>5 DEF WriteFault, MarkedOK
  <2> QED BY <1>a, <1>5, <2>1, WriteFaultLedger
<1>6. ASSUME NEW p \in Procs, NEW f \in Frames,
             KernelThread(p, f) \/ \E c \in Procs : Fork(p, c, f)
      PROVE  LedgerOK'
  BY <1>a, <1>6, NewProcessLedger
<1>7. QuietAction
      \/ (\E f \in Frames : \/ GetPd0(f) \/ GetPt(f) \/ SetupPgdir(f) \/ CopyPage(f)
                            \/ LoadPage(f) \/ ZeroPage(f))
      \/ GetPteFails \/ SharePage \/ InsertPage
      \/ UnmapAll \/ PutPgdir \/ ForkFailed \/ (\E p \in Procs : Reap(p))
      \/ (\E a \in op.todo : ExitRange(a))
      \/ (\E p \in Procs : \E v \in Vas : \E f \in Frames : WriteFault(p, v, f))
      \/ \E p \in Procs : \E f \in Frames : KernelThread(p, f) \/ \E c \in Procs : Fork(p, c, f)
  BY Zenon DEF Next, QuietAction
<1> QED BY <1>0, <1>1, <1>2, <1>3, <1>4, <1>5, <1>6, <1>7

----------------------------------------------------------------------------
(***************************************************************************)
(* Copy on write: who may write to a page.  With share, a page in w has    *)
(* one mapping; without, every page has.                                   *)
(***************************************************************************)
AlonePage(p, v) ==
  \A q \in Procs : \A u \in Vas : pte[q][u] = pte[p][v] => q = p /\ u = v

BitsOK ==
  \A p \in Procs :
    /\ \A v \in w[p] \cup cow[p] : pte[p][v] # NULL
    /\ w[p] \cap cow[p] = {}
    /\ \A a \in mmap[p] : a.write =>
         \A v \in Vas : Within(v, a) /\ pte[p][v] # NULL => v \in w[p] \cup cow[p]
    /\ \A v \in w[p] : AlonePage(p, v)
    /\ ~share => cow[p] = {} /\ \A v \in Vas : pte[p][v] # NULL => AlonePage(p, v)

LEMMA BitsMarked == BitsOK => MarkedOK
BY DEF BitsOK, MarkedOK

LEMMA BitsInit == Init => BitsOK
<1> SUFFICES ASSUME Init, NEW p \in Procs
             PROVE  w[p] = {} /\ cow[p] = {} /\ mmap[p] = {} /\ \A v \in Vas : pte[p][v] = NULL
  BY DEF BitsOK
<1> QED BY DEF Init

\* Steps that leave mappings and marks alone.
LEMMA QuietBits ==
  ASSUME BitsOK, UNCHANGED <<mmap, pte, w, cow, share>>
  PROVE  BitsOK'
BY DEF BitsOK, AlonePage, Within

LEMMA FreshPage ==
  ASSUME Core, LedgerOK, NEW f \in free
  PROVE  f \in Frames /\ f # NULL /\ \A q \in Procs : \A u \in Vas : pte[q][u] # f
<1>1. f \in Frames /\ f # NULL /\ \A u \in Cells : MapsTo[u] # f
  BY FreshFrame DEF LedgerOK
<1>2. \A q \in Procs : \A u \in Vas : <<q, u>> \in Cells /\ MapsTo[<<q, u>>] = pte[q][u]
  BY HeldNow DEF HeldValues
<1> QED BY <1>1, <1>2

\* The page v of m is mapped; it is marked writable if its vma is.
NewMark(m, v) ==
  /\ w[m] \subseteq w'[m] /\ w'[m] \subseteq w[m] \cup {v}
  /\ \A q \in Procs : q # m => w'[q] = w[q]
  /\ \A a \in mmap[m] : Within(v, a) /\ a.write => v \in w'[m]

LEMMA NewPageBits ==
  ASSUME Core, BitsOK, NEW m \in Procs, NEW v \in Vas, pte[m][v] = NULL,
         NEW f \in Frames, f # NULL, \A q \in Procs : \A u \in Vas : pte[q][u] # f,
         pte' = [pte EXCEPT ![m][v] = f], NewMark(m, v), UNCHANGED <<mmap, cow, share>>
  PROVE  BitsOK'
<1>1. /\ \A q \in Procs : \A u \in Vas : pte'[q][u] = IF q = m /\ u = v THEN f ELSE pte[q][u]
      /\ \A q \in Procs : w[q] \subseteq Vas /\ cow[q] \subseteq Vas
  BY DEF Core, MemTypes
<1>2. v \notin w[m] \cup cow[m]
  BY DEF BitsOK
<1>3. AlonePage(m, v)'
  BY <1>1 DEF AlonePage
<1>4. ASSUME NEW p \in Procs, NEW u \in Vas, ~(p = m /\ u = v), AlonePage(p, u), pte[p][u] # NULL
      PROVE  AlonePage(p, u)'
  BY <1>1, <1>4 DEF AlonePage
<1> SUFFICES ASSUME NEW p \in Procs
             PROVE  /\ \A u \in w'[p] \cup cow'[p] : pte'[p][u] # NULL
                    /\ w'[p] \cap cow'[p] = {}
                    /\ \A a \in mmap'[p] : a.write =>
                         \A u \in Vas : Within(u, a) /\ pte'[p][u] # NULL => u \in w'[p] \cup cow'[p]
                    /\ \A u \in w'[p] : AlonePage(p, u)'
                    /\ ~share' => cow'[p] = {} /\ \A u \in Vas : pte'[p][u] # NULL => AlonePage(p, u)'
  BY DEF BitsOK, Within
<1>5. /\ \A u \in w[p] \cup cow[p] : pte[p][u] # NULL
      /\ w[p] \cap cow[p] = {}
      /\ \A a \in mmap[p] : a.write =>
           \A u \in Vas : Within(u, a) /\ pte[p][u] # NULL => u \in w[p] \cup cow[p]
      /\ \A u \in w[p] : AlonePage(p, u)
      /\ ~share => cow[p] = {} /\ \A u \in Vas : pte[p][u] # NULL => AlonePage(p, u)
  BY DEF BitsOK
<1>6. /\ p = m => w[p] \subseteq w'[p] /\ w'[p] \subseteq w[p] \cup {v}
      /\ p # m => w'[p] = w[p]
      /\ p = m => \A a \in mmap[p] : Within(v, a) /\ a.write => v \in w'[p]
  BY DEF NewMark
<1>7. \A u \in w'[p] \cup cow'[p] : pte'[p][u] # NULL
  BY <1>1, <1>5, <1>6
<1>8. w'[p] \cap cow'[p] = {}
  BY <1>2, <1>5, <1>6
<1>9. ASSUME NEW a \in mmap'[p], a.write, NEW u \in Vas, Within(u, a), pte'[p][u] # NULL
      PROVE  u \in w'[p] \cup cow'[p]
  <2>1. CASE p = m /\ u = v
    BY <1>6, <1>9, <2>1
  <2>2. CASE ~(p = m /\ u = v)
    BY <1>1, <1>5, <1>6, <1>9, <2>2
  <2> QED BY <2>1, <2>2
<1>10. ASSUME NEW u \in w'[p] PROVE AlonePage(p, u)'
  <2>1. CASE p = m /\ u = v
    BY <1>3, <2>1
  <2>2. CASE ~(p = m /\ u = v)
    BY <1>1, <1>4, <1>5, <1>6, <2>2
  <2> QED BY <2>1, <2>2
<1>11. ASSUME ~share', NEW u \in Vas, pte'[p][u] # NULL PROVE AlonePage(p, u)'
  <2>1. CASE p = m /\ u = v
    BY <1>3, <2>1
  <2>2. CASE ~(p = m /\ u = v)
    BY <1>1, <1>4, <1>5, <1>11, <2>2
  <2> QED BY <2>1, <2>2
<1> QED BY <1>5, <1>7, <1>8, <1>9, <1>10, <1>11

\* A vma that is linked into the list: what is mapped lies in the others.
LEMMA NewAreaBits ==
  ASSUME Core, Core', BitsOK, NEW m \in Procs, NEW a \in Segs,
         mmap' = [mmap EXCEPT ![m] = @ \cup {a}], UNCHANGED <<pte, w, cow, share>>
  PROVE  BitsOK'
<1> SUFFICES ASSUME NEW p \in Procs, NEW b \in mmap'[p], b.write,
                    NEW v \in Vas, Within(v, b), pte[p][v] # NULL
             PROVE  v \in w[p] \cup cow[p]
  BY DEF BitsOK, AlonePage, Within
<1>1. mmap \in [Procs -> SUBSET Segs] /\ mmap' \in [Procs -> SUBSET Segs]
  BY DEF Core, MemTypes
<1>2. PICK c \in mmap[p] : Within(v, c)
  BY DEF Core, LevelsOK, Inside
<1>3. c \in mmap'[p] /\ b \in Segs /\ c \in Segs
  BY <1>1
<1>4. b # c => b.hi <= c.lo \/ c.hi <= b.lo
  BY <1>3 DEF Core, ApartOK
<1>5. b = c
  BY <1>2, <1>3, <1>4, ApartPages
<1> QED BY <1>2, <1>5 DEF BitsOK

LEMMA NewAreasBits ==
  ASSUME Core, Core', BitsOK, NEW a \in op.todo, DupVma(a) \/ MapArea(a) PROVE BitsOK'
<1>1. op.at # "idle"
  BY DEF DupVma, MapArea, At
<1>2. a \in Segs /\ op \in Calls
  BY <1>1, OpFacts DEF Core
<1>3. PICK m \in Procs : m = op.m
  BY <1>2 DEF Calls
<1> QED BY <1>2, <1>3, NewAreaBits DEF DupVma, MapArea, bits

LEMMA CopyPageBits ==
  ASSUME Core, LedgerOK, BitsOK, NEW f \in Frames, CopyPage(f) PROVE BitsOK'
<1>1. op.at = "copy" /\ Building
  BY DEF CopyPage, At
<1>2. PICK m \in Procs, p \in Procs, v \in Vas : m = op.m /\ p = op.p /\ v = Va /\ v \in op.pages
  BY <1>1, BuildingPage
<1>3. pte[m][v] = NULL /\ pte[p][v] # NULL /\ mmap[m] \subseteq mmap[p]
  BY <1>1, <1>2, BuildingPage DEF Core, DupOK, Forking
<1>4. /\ pte' = [pte EXCEPT ![m][v] = f] /\ ~share
      /\ w' = IF v \in w[p] THEN [w EXCEPT ![m] = @ \cup {v}] ELSE w
      /\ UNCHANGED <<mmap, cow, share>>
  BY <1>2 DEF CopyPage, Map
<1>5. f \in free
  BY DEF CopyPage, Alloc
<1>6. \A a \in mmap[p] : Within(v, a) /\ a.write => v \in w[p]
  BY <1>3, <1>4 DEF BitsOK
<1>7. NewMark(m, v)
  <2>1. w \in [Procs -> SUBSET Vas]
    BY DEF Core, MemTypes
  <2> QED BY <1>3, <1>4, <1>6, <2>1 DEF NewMark
<1> QED BY <1>3, <1>4, <1>5, <1>7, FreshPage, NewPageBits

\* A page mapped in the vma that load_icode or do_pgfault works on.
LEMMA AreaPageMark ==
  ASSUME Core, op.at \in {"insert", "fault"}, NEW m \in Procs, m = op.m, NEW v \in Vas,
         v \in op.pages, w' = IF op.area.write THEN [w EXCEPT ![m] = @ \cup {v}] ELSE w
  PROVE  NewMark(m, v)
<1>1. w \in [Procs -> SUBSET Vas] /\ mmap[m] \subseteq Segs
  BY DEF Core, MemTypes
<1>2. op.area \in mmap[m] /\ Within(v, op.area)
  BY DEF Core, TodoOK
<1>3. ASSUME NEW a \in mmap[m], Within(v, a) PROVE a = op.area
  <2>1. a # op.area => a.hi <= op.area.lo \/ op.area.hi <= a.lo
    BY <1>2 DEF Core, ApartOK
  <2>2. PICK b \in Segs : b = op.area
    BY <1>1, <1>2
  <2> QED BY <1>1, <1>2, <1>3, <2>1, <2>2, ApartPages
<1>4. op.area.write => w' = [w EXCEPT ![m] = @ \cup {v}]
  OBVIOUS
<1>5. ~op.area.write => w' = w
  OBVIOUS
<1>6. \A a \in mmap[m] : Within(v, a) /\ a.write => v \in w'[m]
  BY <1>1, <1>3, <1>4
<1> QED BY <1>1, <1>4, <1>5, <1>6 DEF NewMark

LEMMA InsertPageBits ==
  ASSUME Core, LedgerOK, BitsOK, InsertPage PROVE BitsOK'
<1>1. op.at = "insert" /\ Building /\ op \in Calls
  BY OpFacts DEF InsertPage, At, Core
<1>2. PICK m \in Procs, v \in Vas : m = op.m /\ v = Va /\ v \in op.pages
  BY <1>1, BuildingPage
<1>3. PICK f \in Frames : f = op.page /\ f # NULL
  BY <1>1 DEF Core, CallOK, Calls
<1>4. /\ pte[m][v] = NULL /\ pte' = [pte EXCEPT ![m][v] = f]
      /\ w' = IF op.area.write THEN [w EXCEPT ![m] = @ \cup {v}] ELSE w
      /\ UNCHANGED <<mmap, cow, share>>
  BY <1>1, <1>2, <1>3, BuildingPage DEF InsertPage, Map
<1>5. \A q \in Procs : \A u \in Vas : pte[q][u] # f
  <2>1. <<"op", 0, 0>> \in Slots /\ Held[<<"op", 0, 0>>] = f
    BY <1>3, SlotKinds, HeldNow DEF HeldValues
  <2>2. \A u \in Cells : MapsTo[u] # f
    BY <1>3, <2>1 DEF LedgerOK, Ledger, OnePlace
  <2>3. \A q \in Procs : \A u \in Vas : <<q, u>> \in Cells /\ MapsTo[<<q, u>>] = pte[q][u]
    BY HeldNow DEF HeldValues
  <2> QED BY <2>2, <2>3
<1>6. NewMark(m, v)
  BY <1>1, <1>2, <1>4, AreaPageMark
<1> QED BY <1>3, <1>4, <1>5, <1>6, NewPageBits

LEMMA ZeroPageBits ==
  ASSUME Core, LedgerOK, BitsOK, NEW f \in Frames, ZeroPage(f) PROVE BitsOK'
<1>1. op.at = "fault" /\ Building
  BY DEF ZeroPage, At, Building, Core, TodoOK
<1>2. PICK m \in Procs, v \in Vas : m = op.m /\ v = Va /\ v \in op.pages
  BY <1>1, BuildingPage
<1>4. /\ pte[m][v] = NULL /\ pte' = [pte EXCEPT ![m][v] = f]
      /\ w' = IF op.area.write THEN [w EXCEPT ![m] = @ \cup {v}] ELSE w
      /\ UNCHANGED <<mmap, cow, share>>
  BY <1>1, <1>2, BuildingPage DEF ZeroPage, Map
<1>5. f \in free
  BY DEF ZeroPage, Alloc
<1>6. NewMark(m, v)
  BY <1>1, <1>2, <1>4, AreaPageMark
<1> QED BY <1>4, <1>5, <1>6, FreshPage, NewPageBits

LEMMA SharePageBits == ASSUME Core, BitsOK, SharePage PROVE BitsOK'
<1>1. op.at = "copy" /\ Building /\ share /\ op.at # "idle"
  BY DEF SharePage, At
<1>2. PICK m \in Procs, p \in Procs, v \in Vas : m = op.m /\ p = op.p /\ v = Va /\ v \in op.pages
  BY <1>1, BuildingPage
<1>3. pte[m][v] = NULL /\ pte[p][v] # NULL /\ m # p
  BY <1>1, <1>2, BuildingPage DEF Core, DupOK, Forking, CallOK
<1>4. /\ pte' = [pte EXCEPT ![m][v] = pte[p][v]]
      /\ w' = [w EXCEPT ![p] = @ \ {v}]
      /\ cow' = [cow EXCEPT ![p] = @ \cup {v}, ![m] = @ \cup {v}]
      /\ UNCHANGED <<mmap, share>>
  BY <1>2 DEF SharePage
<1>5. /\ pte \in [Procs -> [Vas -> Frames \cup {NULL}]]
      /\ w \in [Procs -> SUBSET Vas] /\ cow \in [Procs -> SUBSET Vas]
  BY DEF Core, MemTypes
<1>6. /\ \A q \in Procs : \A u \in Vas :
           pte'[q][u] = IF q = m /\ u = v THEN pte[p][v] ELSE pte[q][u]
      /\ \A q \in Procs : w'[q] = IF q = p THEN w[q] \ {v} ELSE w[q]
      /\ \A q \in Procs : cow'[q] = IF q = p \/ q = m THEN cow[q] \cup {v} ELSE cow[q]
  BY <1>4, <1>5
<1> SUFFICES ASSUME NEW q \in Procs
             PROVE  /\ \A u \in w'[q] \cup cow'[q] : pte'[q][u] # NULL
                    /\ w'[q] \cap cow'[q] = {}
                    /\ \A a \in mmap[q] : a.write =>
                         \A u \in Vas : Within(u, a) /\ pte'[q][u] # NULL => u \in w'[q] \cup cow'[q]
                    /\ \A u \in w'[q] : AlonePage(q, u)'
  BY <1>1, <1>4 DEF BitsOK, Within
<1>7. /\ \A u \in w[q] \cup cow[q] : pte[q][u] # NULL
      /\ w[q] \cap cow[q] = {}
      /\ \A a \in mmap[q] : a.write =>
           \A u \in Vas : Within(u, a) /\ pte[q][u] # NULL => u \in w[q] \cup cow[q]
      /\ \A u \in w[q] : AlonePage(q, u)
      /\ w[q] \subseteq Vas /\ cow[q] \subseteq Vas
  BY <1>5 DEF BitsOK
<1>8. q = m => v \notin w[q]
  BY <1>3, <1>7
<1>9. ASSUME NEW u \in w'[q] \cup cow'[q] PROVE pte'[q][u] # NULL
  <2>1. u \in w'[q] => u \in w[q]
    BY <1>6
  <2>2. u \in cow'[q] => u \in cow[q] \/ (u = v /\ (q = p \/ q = m))
    BY <1>6
  <2>3. CASE u \in w[q] \cup cow[q]
    BY <2>3, <1>3, <1>6, <1>7
  <2>4. CASE u = v /\ (q = p \/ q = m)
    BY <2>4, <1>3, <1>6
  <2> QED BY <2>1, <2>2, <2>3, <2>4
<1>10. w'[q] \cap cow'[q] = {}
  BY <1>6, <1>7, <1>8
<1>11. ASSUME NEW a \in mmap[q], a.write, NEW u \in Vas, Within(u, a), pte'[q][u] # NULL
       PROVE  u \in w'[q] \cup cow'[q]
  <2>1. CASE u = v /\ (q = m \/ q = p)
    BY <1>6, <2>1
  <2>2. CASE ~(u = v /\ (q = m \/ q = p))
    BY <1>6, <1>7, <1>11, <2>2
  <2> QED BY <2>1, <2>2
<1>12. ASSUME NEW u \in w'[q] PROVE AlonePage(q, u)'
  <2>1. u \in w[q] /\ ~(q = p /\ u = v) /\ ~(q = m /\ u = v) /\ AlonePage(q, u) /\ u \in Vas
    BY <1>6, <1>7, <1>8
  <2>2. pte'[q][u] = pte[q][u] /\ pte[p][v] # pte[q][u]
    BY <1>6, <2>1 DEF AlonePage
  <2> QED BY <1>6, <2>1, <2>2 DEF AlonePage
<1> QED BY <1>9, <1>10, <1>11, <1>12

\* do_pgfault makes the page v of p writable; the frame is now f.
OnlyAt(p, v, f) == \A q \in Procs : \A u \in Vas : pte[q][u] = f => q = p /\ u = v

LEMMA WritableBits ==
  ASSUME Core, BitsOK, share, NEW p \in Procs, NEW v \in Vas, NEW f \in Frames, f # NULL,
         v \in cow[p], OnlyAt(p, v, f),
         pte' = [pte EXCEPT ![p][v] = f], w' = [w EXCEPT ![p] = @ \cup {v}],
         cow' = [cow EXCEPT ![p] = @ \ {v}], UNCHANGED <<mmap, share>>
  PROVE  BitsOK'
<1>5. /\ pte \in [Procs -> [Vas -> Frames \cup {NULL}]]
      /\ w \in [Procs -> SUBSET Vas] /\ cow \in [Procs -> SUBSET Vas]
  BY DEF Core, MemTypes
<1>6. /\ \A q \in Procs : \A u \in Vas :
           pte'[q][u] = IF q = p /\ u = v THEN f ELSE pte[q][u]
      /\ \A q \in Procs : w'[q] = IF q = p THEN w[q] \cup {v} ELSE w[q]
      /\ \A q \in Procs : cow'[q] = IF q = p THEN cow[q] \ {v} ELSE cow[q]
  BY <1>5
<1> SUFFICES ASSUME NEW q \in Procs
             PROVE  /\ \A u \in w'[q] \cup cow'[q] : pte'[q][u] # NULL
                    /\ w'[q] \cap cow'[q] = {}
                    /\ \A a \in mmap[q] : a.write =>
                         \A u \in Vas : Within(u, a) /\ pte'[q][u] # NULL => u \in w'[q] \cup cow'[q]
                    /\ \A u \in w'[q] : AlonePage(q, u)'
  BY DEF BitsOK, Within
<1>7. /\ \A u \in w[q] \cup cow[q] : pte[q][u] # NULL
      /\ w[q] \cap cow[q] = {}
      /\ \A a \in mmap[q] : a.write =>
           \A u \in Vas : Within(u, a) /\ pte[q][u] # NULL => u \in w[q] \cup cow[q]
      /\ \A u \in w[q] : AlonePage(q, u)
      /\ w[q] \subseteq Vas /\ cow[q] \subseteq Vas
  BY <1>5 DEF BitsOK
<1>8. pte[p][v] # NULL
  BY DEF BitsOK
<1>9. ASSUME NEW u \in w'[q] \cup cow'[q] PROVE pte'[q][u] # NULL
  <2>1. u \in Vas /\ (u \in w[q] \cup cow[q] \/ (q = p /\ u = v))
    BY <1>6, <1>7
  <2> QED BY <2>1, <1>6, <1>7
<1>10. w'[q] \cap cow'[q] = {}
  BY <1>6, <1>7
<1>11. ASSUME NEW a \in mmap[q], a.write, NEW u \in Vas, Within(u, a), pte'[q][u] # NULL
       PROVE  u \in w'[q] \cup cow'[q]
  BY <1>6, <1>7, <1>8, <1>11
<1>12. ASSUME NEW u \in w'[q] PROVE AlonePage(q, u)'
  <2>1. CASE q = p /\ u = v
    BY <1>6, <2>1 DEF AlonePage, OnlyAt
  <2>2. CASE ~(q = p /\ u = v)
    <3>1. u \in w[q] /\ u \in Vas /\ AlonePage(q, u) /\ pte'[q][u] = pte[q][u]
      BY <1>6, <1>7, <2>2
    <3>2. pte[q][u] # f
      BY <2>2, <3>1 DEF OnlyAt
    <3> QED BY <1>6, <3>1, <3>2 DEF AlonePage
  <2> QED BY <2>1, <2>2
<1> QED BY <1>9, <1>10, <1>11, <1>12

LEMMA WriteFaultBits ==
  ASSUME Core, LedgerOK, BitsOK, NEW p \in Procs, NEW v \in Vas, NEW f \in Frames,
         WriteFault(p, v, f)
  PROVE  BitsOK'
<1>1. f \in free
  BY DEF WriteFault, Alloc
<1>2. f # NULL /\ \A q \in Procs : \A u \in Vas : pte[q][u] # f
  BY <1>1, FreshPage
<1>3. OnlyAt(p, v, f)
  BY <1>2 DEF OnlyAt
<1> QED BY <1>2, <1>3, WritableBits DEF WriteFault, Fault

\* A page with one reference is mapped once.
LEMMA OneUse ==
  ASSUME Core, LedgerOK, NEW p \in Procs, NEW v \in Vas, pte[p][v] # NULL,
         page_ref[pte[p][v]] = 1
  PROVE  AlonePage(p, v)
<1>1. PICK f \in Frames : f = pte[p][v] /\ f # NULL
  BY DEF Core, MemTypes
<1>2. \A q \in Procs : \A u \in Vas : <<q, u>> \in Cells /\ MapsTo[<<q, u>>] = pte[q][u]
  BY HeldNow DEF HeldValues
<1>3. f \notin lost /\ \A s \in Slots : Held[s] # f
  BY <1>1, <1>2 DEF LedgerOK, Ledger, OnePlace
<1>4. Uses(MapsTo, f) = 1
  BY <1>1, <1>3 DEF LedgerOK, Ledger, RefsOK, Slots
<1> DEFINE T == {x \in Cells : MapsTo[x] = f}
<1>5. IsFiniteSet(T) /\ Cardinality(T) = 1
  <2>1. IsFiniteSet(T)
    BY CellsFinite
  <2> QED BY <2>1, <1>4 DEF Uses
<1>6. PICK x : T = {x}
  <2> HIDE DEF T
  <2> QED BY <1>5, FS_Singleton
<1>7. \A q \in Procs : \A u \in Vas : pte[q][u] = f => <<q, u>> \in T
  BY <1>2
<1> HIDE DEF T
<1>8. x = <<p, v>>
  BY <1>1, <1>6, <1>7
<1>9. ASSUME NEW q \in Procs, NEW u \in Vas, pte[q][u] = f PROVE q = p /\ u = v
  <2>1. <<q, u>> = <<p, v>>
    BY <1>6, <1>7, <1>8, <1>9
  <2> QED BY <2>1
<1> QED BY <1>1, <1>9 DEF AlonePage

LEMMA LastFaultBits ==
  ASSUME Core, LedgerOK, BitsOK, NEW p \in Procs, NEW v \in Vas, LastFault(p, v)
  PROVE  BitsOK'
<1>1. /\ v \in cow[p] /\ page_ref[pte[p][v]] = 1 /\ share
      /\ w' = [w EXCEPT ![p] = @ \cup {v}] /\ cow' = [cow EXCEPT ![p] = @ \ {v}]
      /\ UNCHANGED <<mmap, pte, share>>
  BY DEF LastFault, Fault
<1>2. pte[p][v] # NULL
  BY <1>1 DEF BitsOK
<1>3. PICK f \in Frames : f = pte[p][v] /\ f # NULL
  BY <1>2 DEF Core, MemTypes
<1>4. OnlyAt(p, v, f)
  BY <1>1, <1>2, <1>3, OneUse DEF AlonePage, OnlyAt
<1>5. pte' = [pte EXCEPT ![p][v] = f]
  BY <1>1, <1>3 DEF Core, MemTypes
<1> QED BY <1>1, <1>3, <1>4, <1>5, WritableBits

\* An address space that loses all its pages.
LEMMA ClearedBits ==
  ASSUME BitsOK, NEW m \in Procs, \A v \in Vas : pte'[m][v] = NULL, w'[m] = {}, cow'[m] = {},
         \A q \in Procs : q # m => pte'[q] = pte[q] /\ w'[q] = w[q] /\ cow'[q] = cow[q],
         \A q \in Procs : mmap'[q] \subseteq mmap[q], share' = share,
         \A q \in Procs : w[q] \subseteq Vas
  PROVE  BitsOK'
<1> SUFFICES ASSUME NEW q \in Procs
             PROVE  /\ \A u \in w'[q] \cup cow'[q] : pte'[q][u] # NULL
                    /\ w'[q] \cap cow'[q] = {}
                    /\ \A a \in mmap'[q] : a.write =>
                         \A u \in Vas : Within(u, a) /\ pte'[q][u] # NULL => u \in w'[q] \cup cow'[q]
                    /\ \A u \in w'[q] : AlonePage(q, u)'
                    /\ ~share' => cow'[q] = {} /\ \A u \in Vas : pte'[q][u] # NULL => AlonePage(q, u)'
  BY DEF BitsOK, Within
<1>1. CASE q = m
  BY <1>1
<1>2. CASE q # m
  <2>1. ASSUME NEW u \in Vas, AlonePage(q, u), pte[q][u] # NULL PROVE AlonePage(q, u)'
    <3> SUFFICES ASSUME NEW r \in Procs, NEW x \in Vas, pte'[r][x] = pte'[q][u]
                 PROVE  r = q /\ x = u
      BY DEF AlonePage
    <3>1. CASE r = m
      BY <1>2, <2>1, <3>1
    <3>2. CASE r # m
      BY <1>2, <2>1, <3>2 DEF AlonePage
    <3> QED BY <3>1, <3>2
  <2>2. /\ \A u \in w[q] \cup cow[q] : pte[q][u] # NULL
        /\ w[q] \cap cow[q] = {}
        /\ \A a \in mmap[q] : a.write =>
             \A u \in Vas : Within(u, a) /\ pte[q][u] # NULL => u \in w[q] \cup cow[q]
        /\ \A u \in w[q] : AlonePage(q, u)
        /\ ~share => cow[q] = {} /\ \A u \in Vas : pte[q][u] # NULL => AlonePage(q, u)
    BY DEF BitsOK
  <2> QED BY <1>2, <2>1, <2>2
<1> QED BY <1>1, <1>2

LEMMA TearDownBits == ASSUME Core, BitsOK, UnmapAll \/ PutPgdir PROVE BitsOK'
<1>1. op.at # "idle"
  BY DEF UnmapAll, PutPgdir, At
<1>2. PICK m \in Procs : m = op.m
  BY <1>1, OpFacts DEF Core, Calls
<1>3. /\ pte \in [Procs -> [Vas -> Frames \cup {NULL}]] /\ mmap \in [Procs -> SUBSET Segs]
      /\ w \in [Procs -> SUBSET Vas] /\ cow \in [Procs -> SUBSET Vas]
  BY DEF Core, MemTypes
<1>4. CASE UnmapAll
  <2>1. PICK S \in SUBSET Vas : S = UnmapSet /\ \A v \in Vas : v \in S <=> pte[m][v] # NULL
    BY <1>2, UnmapsEverything
  <2>2. /\ pte' = [pte EXCEPT ![m] = [v \in Vas |-> IF v \in S THEN NULL ELSE pte[m][v]]]
        /\ w' = [w EXCEPT ![m] = @ \ S] /\ cow' = [cow EXCEPT ![m] = @ \ S]
        /\ UNCHANGED <<mmap, share>>
    BY <1>2, <1>3, <1>4, <2>1 DEF UnmapAll, UnmapSet
  <2>3. w[m] \subseteq S /\ cow[m] \subseteq S
    BY <1>3, <2>1 DEF BitsOK
  <2>4. w'[m] = {} /\ cow'[m] = {} /\ \A v \in Vas : pte'[m][v] = NULL
    BY <1>3, <2>1, <2>2, <2>3
  <2>5. \A q \in Procs : q # m => pte'[q] = pte[q] /\ w'[q] = w[q] /\ cow'[q] = cow[q]
    BY <1>3, <2>2
  <2> QED BY <1>3, <2>2, <2>4, <2>5, ClearedBits
<1>5. CASE PutPgdir
  <2>1. /\ pte' = [pte EXCEPT ![m] = [v \in Vas |-> NULL]]
        /\ w' = [w EXCEPT ![m] = {}] /\ cow' = [cow EXCEPT ![m] = {}]
        /\ mmap' = [mmap EXCEPT ![m] = {}] /\ share' = share
    BY <1>2, <1>5 DEF PutPgdir
  <2>2. w'[m] = {} /\ cow'[m] = {} /\ \A v \in Vas : pte'[m][v] = NULL
    BY <1>3, <2>1
  <2>3. \A q \in Procs : q # m => pte'[q] = pte[q] /\ w'[q] = w[q] /\ cow'[q] = cow[q]
    BY <1>3, <2>1
  <2>4. \A q \in Procs : mmap'[q] \subseteq mmap[q]
    BY <1>3, <2>1
  <2> QED BY <1>3, <2>1, <2>2, <2>3, <2>4, ClearedBits
<1> QED BY <1>4, <1>5

LEMMA BitsStep == Core /\ LedgerOK /\ BitsOK /\ [Next]_vars => BitsOK'
<1> SUFFICES ASSUME Core, LedgerOK, BitsOK, [Next]_vars PROVE BitsOK'
  OBVIOUS
<1>a. Core'
  BY CoreStep, BitsMarked
<1>0. CASE UNCHANGED vars
  BY <1>0, QuietBits DEF vars, mapVars, bits
<1>1. ASSUME NEW f \in Frames, GetPd0(f) \/ GetPt(f) \/ SetupPgdir(f) \/ LoadPage(f)
      PROVE  BitsOK'
  BY <1>1, QuietBits DEF GetPd0, GetPt, SetupPgdir, LoadPage, mapVars, bits
<1>2. ASSUME NEW f \in Frames, CopyPage(f) \/ ZeroPage(f) PROVE BitsOK'
  BY <1>2, CopyPageBits, ZeroPageBits
<1>3. CASE GetPteFails \/ SetupPgdirFails \/ BuildFails \/ CopyPagePanic
           \/ ForkFilesFail \/ LoadPageFails
  BY <1>3, QuietBits DEF GetPteFails, SetupPgdirFails, BuildFails, CopyPagePanic,
     ForkFilesFail, LoadPageFails, mapVars, bits
<1>4. CASE FaultPanic \/ CopyNext \/ ForkDone \/ AreaDone \/ ExecDone
           \/ ForkFailed \/ ExecLoad \/ BecomeZombie
  BY <1>4, QuietBits DEF FaultPanic, CopyNext, ForkDone, AreaDone, ExecDone, ForkFailed,
     ExecLoad, BecomeZombie, mapVars, bits
<1>5. CASE SharePage \/ InsertPage \/ UnmapAll \/ PutPgdir
  BY <1>5, SharePageBits, InsertPageBits, TearDownBits
<1>6. ASSUME NEW a \in op.todo, DupVma(a) \/ MapArea(a) \/ ExitRange(a) PROVE BitsOK'
  <2>1. CASE ExitRange(a)
    BY <2>1, QuietBits DEF ExitRange, bits
  <2> QED BY <1>a, <1>6, <2>1, NewAreasBits
<1>7. ASSUME NEW p \in Procs, Exit(p) \/ Reap(p) PROVE BitsOK'
  BY <1>7, QuietBits DEF Exit, Reap, mapVars, bits
<1>8. ASSUME NEW p \in Procs, NEW v \in Vas,
             \/ TouchFault(p, v) \/ LastFault(p, v)
             \/ \E f \in Frames : WriteFault(p, v, f)
      PROVE  BitsOK'
  <2>1. CASE TouchFault(p, v)
    BY <2>1, QuietBits DEF TouchFault, mapVars, bits
  <2> QED BY <1>8, <2>1, LastFaultBits, WriteFaultBits
<1>9. ASSUME NEW p \in Procs, NEW prog \in Programs, Exec(p, prog) PROVE BitsOK'
  BY <1>9, QuietBits DEF Exec, mapVars, bits
<1>10. ASSUME NEW p \in Procs, NEW f \in Frames,
              KernelThread(p, f) \/ \E c \in Procs : Fork(p, c, f)
       PROVE  BitsOK'
  BY <1>10, QuietBits DEF KernelThread, Fork, mapVars, bits
<1> QED BY <1>0, <1>1, <1>2, <1>3, <1>4, <1>5, <1>6, <1>7, <1>8, <1>9, <1>10 DEF Next

----------------------------------------------------------------------------
(* What the runs check follows: CowOK and CountedOK *)

LEMMA AloneMappings ==
  ASSUME NEW p \in Procs, NEW v \in Vas, AlonePage(p, v)
  PROVE  Mappings(pte[p][v]) = 1
<1> DEFINE T == {u \in Procs \X Vas : pte[u[1]][u[2]] = pte[p][v]}
<1>1. <<p, v>> \in T
  OBVIOUS
<1>2. ASSUME NEW u \in T PROVE u = <<p, v>>
  <2>1. PICK q \in Procs, x \in Vas : u = <<q, x>>
    OBVIOUS
  <2>2. pte[q][x] = pte[p][v]
    BY <2>1
  <2> QED BY <2>1, <2>2 DEF AlonePage
<1>3. T = {<<p, v>>}
  <2> HIDE DEF T
  <2> QED BY <1>1, <1>2
<1>4. Mappings(pte[p][v]) = Cardinality(T)
  BY DEF Mappings
<1> HIDE DEF T
<1> QED BY <1>3, <1>4, FS_Singleton

LEMMA BitsCow == Core /\ BitsOK => CowOK
<1> SUFFICES ASSUME Core, BitsOK, NEW p \in Procs
             PROVE  /\ \A v \in w[p] : Mappings(pte[p][v]) = 1
                    /\ w[p] \cup cow[p] \subseteq Mapped(p) /\ w[p] \cap cow[p] = {}
                    /\ \A a \in mmap[p] : a.write =>
                         \A v \in a.lo..(a.hi - 1) : pte[p][v] # NULL => v \in w[p] \cup cow[p]
  BY DEF CowOK
<1>1. w[p] \subseteq Vas /\ cow[p] \subseteq Vas /\ mmap[p] \subseteq Segs
  BY DEF Core, MemTypes
<1>2. \A v \in w[p] : Mappings(pte[p][v]) = 1
  BY <1>1, AloneMappings DEF BitsOK
<1>3. w[p] \cup cow[p] \subseteq Mapped(p) /\ w[p] \cap cow[p] = {}
  BY <1>1 DEF BitsOK, Mapped
<1>4. ASSUME NEW a \in mmap[p], a.write, NEW v \in a.lo..(a.hi - 1), pte[p][v] # NULL
      PROVE  v \in w[p] \cup cow[p]
  <2>1. v \in Vas /\ Within(v, a)
    BY <1>1, SegFacts
  <2> QED BY <1>4, <2>1 DEF BitsOK
<1> QED BY <1>2, <1>3, <1>4

LEMMA LedgerType == Core /\ LedgerOK => TypeOK
<1> SUFFICES ASSUME Core, LedgerOK PROVE TypeOK
  OBVIOUS
<1>1. page_ref \in [Frames -> Nat]
  BY DEF LedgerOK, Ledger, LedgerTypes
<1> QED BY <1>1 DEF Core, MemTypes, TypeOK

\* The sets of CountedOK, as slots and cells.
LEMMA FrameSets ==
  ASSUME Core
  PROVE  /\ Tables \subseteq Frames /\ Others \subseteq Frames /\ Pages \subseteq Frames
         /\ \A f \in Frames : f \in Tables <=> \E s \in TableSlots : Held[s] = f
         /\ \A f \in Frames : f \in Others <=> \E s \in OtherSlots : Held[s] = f
         /\ \A f \in Frames : f \in Pages <=> \E u \in Cells : MapsTo[u] = f
<1>0. HeldValues
  BY HeldNow
<1>a. op.page \in Frames \cup {NULL}
  BY OpFacts DEF Core
<1>b. /\ kstack \in [Procs -> Frames \cup {NULL}] /\ pgdir \in [Procs -> Frames \cup {NULL}]
      /\ pd0 \in [Procs -> [Pds -> Frames \cup {NULL}]]
      /\ pt \in [Procs -> [Pts -> Frames \cup {NULL}]]
      /\ pte \in [Procs -> [Vas -> Frames \cup {NULL}]]
  BY DEF Core, MemTypes
<1>1. Tables \subseteq Frames
  BY <1>b DEF Tables
<1>2. Others \subseteq Frames
  BY <1>a, <1>b DEF Others
<1>3. Pages \subseteq Frames
  BY <1>b DEF Pages
<1> SUFFICES ASSUME NEW f \in Frames
             PROVE  /\ f \in Tables <=> \E s \in TableSlots : Held[s] = f
                    /\ f \in Others <=> \E s \in OtherSlots : Held[s] = f
                    /\ f \in Pages <=> \E u \in Cells : MapsTo[u] = f
  BY <1>1, <1>2, <1>3
<1>4. f # NULL
  BY DEF Frames, NULL
<1>5. f \in Tables <=> \/ \E p \in Procs : \E i \in Pds : pd0[p][i] = f
                       \/ \E p \in Procs : \E j \in Pts : pt[p][j] = f
  BY <1>4 DEF Tables
<1>6. (\E s \in TableSlots : Held[s] = f)
        <=> \/ \E p \in Procs : \E i \in Pds : pd0[p][i] = f
            \/ \E p \in Procs : \E j \in Pts : pt[p][j] = f
  <2>1. ASSUME NEW s \in TableSlots, Held[s] = f
        PROVE  \/ \E p \in Procs : \E i \in Pds : pd0[p][i] = f
               \/ \E p \in Procs : \E j \in Pts : pt[p][j] = f
    <3>1. CASE \E p \in Procs : \E i \in Pds : s = <<"pd0", p, i>>
      <4>1. PICK p \in Procs, i \in Pds : s = <<"pd0", p, i>>
        BY <3>1
      <4>2. pd0[p][i] = f
        BY <1>0, <2>1, <4>1 DEF HeldValues
      <4> QED BY <4>2
    <3>2. CASE \E p \in Procs : \E j \in Pts : s = <<"pt", p, j>>
      <4>1. PICK p \in Procs, j \in Pts : s = <<"pt", p, j>>
        BY <3>2
      <4>2. pt[p][j] = f
        BY <1>0, <2>1, <4>1 DEF HeldValues
      <4> QED BY <4>2
    <3> QED BY <3>1, <3>2, SlotKinds
  <2>2. ASSUME NEW p \in Procs, NEW i \in Pds, pd0[p][i] = f PROVE \E s \in TableSlots : Held[s] = f
    BY <1>0, <2>2, SlotKinds DEF HeldValues
  <2>3. ASSUME NEW p \in Procs, NEW j \in Pts, pt[p][j] = f PROVE \E s \in TableSlots : Held[s] = f
    BY <1>0, <2>3, SlotKinds DEF HeldValues
  <2> QED BY <2>1, <2>2, <2>3
<1>7. f \in Others <=> \/ \E p \in Procs : kstack[p] = f \/ pgdir[p] = f
                       \/ op.page = f
  BY <1>4 DEF Others
<1>8. (\E s \in OtherSlots : Held[s] = f)
        <=> \/ \E p \in Procs : kstack[p] = f \/ pgdir[p] = f
            \/ op.page = f
  <2>1. ASSUME NEW s \in OtherSlots, Held[s] = f
        PROVE  (\E p \in Procs : kstack[p] = f \/ pgdir[p] = f) \/ op.page = f
    <3>1. CASE \E p \in Procs : s = <<"kstack", p, 0>> \/ s = <<"pgdir", p, 0>>
      <4>1. PICK p \in Procs : s = <<"kstack", p, 0>> \/ s = <<"pgdir", p, 0>>
        BY <3>1
      <4>2. Held[<<"kstack", p, 0>>] = kstack[p] /\ Held[<<"pgdir", p, 0>>] = pgdir[p]
        BY <1>0 DEF HeldValues
      <4> QED BY <2>1, <4>1, <4>2
    <3>2. CASE s = <<"op", 0, 0>>
      BY <1>0, <2>1, <3>2 DEF HeldValues
    <3> QED BY <3>1, <3>2, SlotKinds
  <2>2. ASSUME NEW p \in Procs, kstack[p] = f \/ pgdir[p] = f PROVE \E s \in OtherSlots : Held[s] = f
    BY <1>0, <2>2, SlotKinds DEF HeldValues
  <2>3. ASSUME op.page = f PROVE \E s \in OtherSlots : Held[s] = f
    BY <1>0, <2>3, SlotKinds DEF HeldValues
  <2> QED BY <2>1, <2>2, <2>3
<1>9. f \in Pages <=> \E u \in Cells : MapsTo[u] = f
  <2>1. f \in Pages <=> \E p \in Procs : \E v \in Vas : pte[p][v] = f
    BY <1>4 DEF Pages
  <2>2. ASSUME NEW u \in Cells, MapsTo[u] = f PROVE \E p \in Procs : \E v \in Vas : pte[p][v] = f
    <3>1. PICK p \in Procs, v \in Vas : u = <<p, v>>
      BY DEF Cells
    <3> QED BY <1>0, <2>2, <3>1 DEF HeldValues
  <2>3. ASSUME NEW p \in Procs, NEW v \in Vas, pte[p][v] = f PROVE \E u \in Cells : MapsTo[u] = f
    BY <1>0, <2>3 DEF HeldValues
  <2> QED BY <2>1, <2>2, <2>3
<1> QED BY <1>5, <1>6, <1>7, <1>8, <1>9

\* As many frames as places, when no frame is in two places.
LEMMA ImageCount ==
  ASSUME NEW S, IsFiniteSet(S), NEW T, NEW g \in Bijection(S, T)
  PROVE  IsFiniteSet(T) /\ Cardinality(T) = Cardinality(S) /\ Cardinality(S) \in Nat
<1> QED BY FS_Bijection, FS_CardinalityType DEF ExistsBijection

LEMMA DisjointCount ==
  ASSUME NEW S, IsFiniteSet(S), NEW T, IsFiniteSet(T), S \cap T = {}
  PROVE  IsFiniteSet(S \cup T) /\ Cardinality(S \cup T) = Cardinality(S) + Cardinality(T)
<1>1. Cardinality(S \cap T) = 0
  BY FS_EmptySet
<1>2. Cardinality(S) \in Nat /\ Cardinality(T) \in Nat
  BY FS_CardinalityType
<1>3. /\ IsFiniteSet(S \cup T)
      /\ Cardinality(S \cup T) = Cardinality(S) + Cardinality(T) - Cardinality(S \cap T)
  BY FS_Union
<1> QED BY <1>1, <1>2, <1>3

LEMMA PlacesCount ==
  ASSUME Core, LedgerOK PROVE Cardinality(Tables \cup Others) = Places
<1> DEFINE KS == {p \in Procs : kstack[p] # NULL}
           PG == {p \in Procs : pgdir[p] # NULL}
           D0 == {u \in Procs \X Pds : pd0[u[1]][u[2]] # NULL}
           PT == {u \in Procs \X Pts : pt[u[1]][u[2]] # NULL}
           OP == {op.page} \ {NULL}
           FKS == {kstack[p] : p \in KS}
           FPG == {pgdir[p] : p \in PG}
           FD0 == {pd0[u[1]][u[2]] : u \in D0}
           FPT == {pt[u[1]][u[2]] : u \in PT}
<1>0. HeldValues
  BY HeldNow
<1>1. \A s, t \in Slots : Held[s] # NULL /\ Held[s] = Held[t] => s = t
  BY DEF LedgerOK, Ledger, OnePlace
<1>2. /\ \A p \in Procs : /\ <<"kstack", p, 0>> \in Slots /\ Held[<<"kstack", p, 0>>] = kstack[p]
                          /\ <<"pgdir", p, 0>> \in Slots /\ Held[<<"pgdir", p, 0>>] = pgdir[p]
      /\ \A p \in Procs : \A i \in Pds :
           <<"pd0", p, i>> \in Slots /\ Held[<<"pd0", p, i>>] = pd0[p][i]
      /\ \A p \in Procs : \A j \in Pts :
           <<"pt", p, j>> \in Slots /\ Held[<<"pt", p, j>>] = pt[p][j]
      /\ <<"op", 0, 0>> \in Slots /\ Held[<<"op", 0, 0>>] = op.page
  BY <1>0, SlotKinds DEF HeldValues
<1>3. IsFiniteSet(KS) /\ IsFiniteSet(PG) /\ IsFiniteSet(D0) /\ IsFiniteSet(PT)
  <2>1. IsFiniteSet(Procs) /\ IsFiniteSet(Procs \X Pds) /\ IsFiniteSet(Procs \X Pts)
    BY VmAssumption, PageNumbers, FS_Product
  <2> QED BY <2>1, FS_Subset
<1>4. IsFiniteSet(FKS) /\ Cardinality(FKS) = Cardinality(KS) /\ Cardinality(KS) \in Nat
  <2> DEFINE g == [p \in KS |-> kstack[p]]
  <2>1. g \in [KS -> FKS] /\ \A t \in FKS : \E x \in KS : g[x] = t
    OBVIOUS
  <2>2. ASSUME NEW x \in KS, NEW y \in KS, g[x] = g[y] PROVE x = y
    <3>1. PICK s \in Slots, t \in Slots : s = <<"kstack", x, 0>> /\ t = <<"kstack", y, 0>>
      BY <1>2
    <3>2. Held[s] = kstack[x] /\ Held[t] = kstack[y] /\ kstack[x] # NULL /\ kstack[x] = kstack[y]
      BY <1>2, <2>2, <3>1
    <3>3. s = t
      BY <1>1, <3>2
    <3> QED BY <3>1, <3>3
  <2>3. g \in Bijection(KS, FKS)
    <3> HIDE DEF g, KS, FKS
    <3> QED BY <2>1, <2>2 DEF Bijection, Injection, Surjection, IsInjective
  <2> HIDE DEF g, KS, FKS
  <2> QED BY <1>3, <2>3, ImageCount
<1>5. IsFiniteSet(FPG) /\ Cardinality(FPG) = Cardinality(PG) /\ Cardinality(PG) \in Nat
  <2> DEFINE g == [p \in PG |-> pgdir[p]]
  <2>1. g \in [PG -> FPG] /\ \A t \in FPG : \E x \in PG : g[x] = t
    OBVIOUS
  <2>2. ASSUME NEW x \in PG, NEW y \in PG, g[x] = g[y] PROVE x = y
    <3>1. PICK s \in Slots, t \in Slots : s = <<"pgdir", x, 0>> /\ t = <<"pgdir", y, 0>>
      BY <1>2
    <3>2. Held[s] = pgdir[x] /\ Held[t] = pgdir[y] /\ pgdir[x] # NULL /\ pgdir[x] = pgdir[y]
      BY <1>2, <2>2, <3>1
    <3>3. s = t
      BY <1>1, <3>2
    <3> QED BY <3>1, <3>3
  <2>3. g \in Bijection(PG, FPG)
    <3> HIDE DEF g, PG, FPG
    <3> QED BY <2>1, <2>2 DEF Bijection, Injection, Surjection, IsInjective
  <2> HIDE DEF g, PG, FPG
  <2> QED BY <1>3, <2>3, ImageCount
<1>6. IsFiniteSet(FD0) /\ Cardinality(FD0) = Cardinality(D0) /\ Cardinality(D0) \in Nat
  <2> DEFINE g == [u \in D0 |-> pd0[u[1]][u[2]]]
  <2>1. g \in [D0 -> FD0] /\ \A t \in FD0 : \E x \in D0 : g[x] = t
    OBVIOUS
  <2>2. ASSUME NEW x \in D0, NEW y \in D0, g[x] = g[y] PROVE x = y
    <3>1. PICK p \in Procs, i \in Pds : x = <<p, i>>
      OBVIOUS
    <3>2. PICK q \in Procs, k \in Pds : y = <<q, k>>
      OBVIOUS
    <3>3. pd0[p][i] # NULL /\ pd0[p][i] = pd0[q][k]
      BY <2>2, <3>1, <3>2
    <3>4. PICK s \in Slots, t \in Slots : s = <<"pd0", p, i>> /\ t = <<"pd0", q, k>>
      BY <1>2
    <3>5. Held[s] = pd0[p][i] /\ Held[t] = pd0[q][k]
      BY <1>2, <3>4
    <3>6. s = t
      BY <1>1, <3>3, <3>5
    <3> QED BY <3>1, <3>2, <3>4, <3>6
  <2>3. g \in Bijection(D0, FD0)
    <3> HIDE DEF g, D0, FD0
    <3> QED BY <2>1, <2>2 DEF Bijection, Injection, Surjection, IsInjective
  <2> HIDE DEF g, D0, FD0
  <2> QED BY <1>3, <2>3, ImageCount
<1>7. IsFiniteSet(FPT) /\ Cardinality(FPT) = Cardinality(PT) /\ Cardinality(PT) \in Nat
  <2> DEFINE g == [u \in PT |-> pt[u[1]][u[2]]]
  <2>1. g \in [PT -> FPT] /\ \A t \in FPT : \E x \in PT : g[x] = t
    OBVIOUS
  <2>2. ASSUME NEW x \in PT, NEW y \in PT, g[x] = g[y] PROVE x = y
    <3>1. PICK p \in Procs, j \in Pts : x = <<p, j>>
      OBVIOUS
    <3>2. PICK q \in Procs, k \in Pts : y = <<q, k>>
      OBVIOUS
    <3>3. pt[p][j] # NULL /\ pt[p][j] = pt[q][k]
      BY <2>2, <3>1, <3>2
    <3>4. PICK s \in Slots, t \in Slots : s = <<"pt", p, j>> /\ t = <<"pt", q, k>>
      BY <1>2
    <3>5. Held[s] = pt[p][j] /\ Held[t] = pt[q][k]
      BY <1>2, <3>4
    <3>6. s = t
      BY <1>1, <3>3, <3>5
    <3> QED BY <3>1, <3>2, <3>4, <3>6
  <2>3. g \in Bijection(PT, FPT)
    <3> HIDE DEF g, PT, FPT
    <3> QED BY <2>1, <2>2 DEF Bijection, Injection, Surjection, IsInjective
  <2> HIDE DEF g, PT, FPT
  <2> QED BY <1>3, <2>3, ImageCount
<1>8. IsFiniteSet(OP) /\ Cardinality(OP) = IF op.page # NULL THEN 1 ELSE 0
  <2>1. CASE op.page = NULL
    <3>1. OP = {}
      BY <2>1
    <3> QED BY <2>1, <3>1, FS_EmptySet
  <2>2. CASE op.page # NULL
    <3>1. OP = {op.page}
      BY <2>2
    <3> QED BY <2>2, <3>1, FS_Singleton
  <2> QED BY <2>1, <2>2
<1>9. /\ \A f \in FKS : f # NULL /\ \E p \in Procs : Held[<<"kstack", p, 0>>] = f
      /\ \A f \in FPG : f # NULL /\ \E p \in Procs : Held[<<"pgdir", p, 0>>] = f
      /\ \A f \in OP : f # NULL /\ Held[<<"op", 0, 0>>] = f
  BY <1>2
<1>10. \A f \in FD0 : f # NULL /\ \E p \in Procs : \E i \in Pds : Held[<<"pd0", p, i>>] = f
  <2> SUFFICES ASSUME NEW u \in D0
               PROVE  \E p \in Procs : \E i \in Pds : Held[<<"pd0", p, i>>] = pd0[u[1]][u[2]]
    OBVIOUS
  <2>1. PICK p \in Procs, i \in Pds : u = <<p, i>>
    OBVIOUS
  <2> QED BY <1>2, <2>1
<1>11. \A f \in FPT : f # NULL /\ \E p \in Procs : \E j \in Pts : Held[<<"pt", p, j>>] = f
  <2> SUFFICES ASSUME NEW u \in PT
               PROVE  \E p \in Procs : \E j \in Pts : Held[<<"pt", p, j>>] = pt[u[1]][u[2]]
    OBVIOUS
  <2>1. PICK p \in Procs, j \in Pts : u = <<p, j>>
    OBVIOUS
  <2> QED BY <1>2, <2>1
<1>12. Tables \cup Others = (((FKS \cup FPG) \cup FD0) \cup FPT) \cup OP
  <2>1. Others = (FKS \cup FPG) \cup OP
    BY DEF Others
  <2>2. Tables = FD0 \cup FPT
    <3>1. ASSUME NEW f \in Tables PROVE f \in FD0 \cup FPT
      <4>1. CASE \E p \in Procs : \E i \in Pds : f = pd0[p][i]
        <5>1. PICK p \in Procs, i \in Pds : f = pd0[p][i]
          BY <4>1
        <5>2. <<p, i>> \in D0 /\ f = pd0[<<p, i>>[1]][<<p, i>>[2]]
          BY <5>1 DEF Tables
        <5> QED BY <5>2
      <4>2. CASE \E p \in Procs : \E j \in Pts : f = pt[p][j]
        <5>1. PICK p \in Procs, j \in Pts : f = pt[p][j]
          BY <4>2
        <5>2. <<p, j>> \in PT /\ f = pt[<<p, j>>[1]][<<p, j>>[2]]
          BY <5>1 DEF Tables
        <5> QED BY <5>2
      <4> QED BY <4>1, <4>2 DEF Tables
    <3>2. FD0 \cup FPT \subseteq Tables
      BY DEF Tables
    <3> QED BY <3>1, <3>2
  <2> HIDE DEF FKS, FPG, FD0, FPT, OP
  <2> QED BY <2>1, <2>2
<1>13. Places = Cardinality(KS) + Cardinality(PG) + Cardinality(D0) + Cardinality(PT)
                + (IF op.page # NULL THEN 1 ELSE 0)
  BY DEF Places
<1> HIDE DEF KS, PG, D0, PT, OP, FKS, FPG, FD0, FPT
<1>14. FKS \cap FPG = {}
  <2>1. ASSUME NEW f \in FKS, f \in FPG PROVE FALSE
    <3>1. PICK p \in Procs, q \in Procs : Held[<<"kstack", p, 0>>] = f /\ Held[<<"pgdir", q, 0>>] = f
      BY <1>9, <2>1
    <3>2. PICK s \in Slots, t \in Slots : s = <<"kstack", p, 0>> /\ t = <<"pgdir", q, 0>>
      BY <1>2
    <3>3. Held[s] # NULL /\ Held[s] = Held[t]
      BY <1>9, <3>1, <3>2
    <3>4. s = t
      BY <1>1, <3>3
    <3> QED BY <3>2, <3>4
  <2> QED BY <2>1
<1>15. (FKS \cup FPG) \cap FD0 = {}
  <2>1. ASSUME NEW f \in FKS \cup FPG, f \in FD0 PROVE FALSE
    <3>1. PICK p \in Procs : Held[<<"kstack", p, 0>>] = f \/ Held[<<"pgdir", p, 0>>] = f
      BY <1>9
    <3>2. PICK q \in Procs, i \in Pds : Held[<<"pd0", q, i>>] = f
      BY <1>10, <2>1
    <3>3. f # NULL
      BY <1>9
    <3>4. <<"pd0", q, i>> = <<"kstack", p, 0>> \/ <<"pd0", q, i>> = <<"pgdir", p, 0>>
      BY <1>1, <1>2, <3>1, <3>2, <3>3
    <3> QED BY <3>4
  <2> QED BY <2>1
<1>16. ((FKS \cup FPG) \cup FD0) \cap FPT = {}
  <2>1. ASSUME NEW f \in (FKS \cup FPG) \cup FD0, f \in FPT PROVE FALSE
    <3>1. PICK q \in Procs, j \in Pts : Held[<<"pt", q, j>>] = f
      BY <1>11, <2>1
    <3>2. f # NULL
      BY <1>11, <2>1
    <3>3. CASE f \in FKS \cup FPG
      <4>1. PICK p \in Procs : Held[<<"kstack", p, 0>>] = f \/ Held[<<"pgdir", p, 0>>] = f
        BY <1>9, <3>3
      <4>2. <<"pt", q, j>> = <<"kstack", p, 0>> \/ <<"pt", q, j>> = <<"pgdir", p, 0>>
        BY <1>1, <1>2, <3>1, <3>2, <4>1
      <4> QED BY <4>2
    <3>4. CASE f \in FD0
      <4>1. PICK p \in Procs, i \in Pds : Held[<<"pd0", p, i>>] = f
        BY <1>10, <3>4
      <4>2. <<"pt", q, j>> = <<"pd0", p, i>>
        BY <1>1, <1>2, <3>1, <3>2, <4>1
      <4> QED BY <4>2
    <3> QED BY <3>3, <3>4
  <2> QED BY <2>1
<1>17. (((FKS \cup FPG) \cup FD0) \cup FPT) \cap OP = {}
  <2>1. ASSUME NEW f \in ((FKS \cup FPG) \cup FD0) \cup FPT, f \in OP PROVE FALSE
    <3>1. f # NULL /\ Held[<<"op", 0, 0>>] = f
      BY <1>9, <2>1
    <3>2. \A s \in Slots : Held[s] = f => s = <<"op", 0, 0>>
      BY <1>1, <1>2, <3>1
    <3>3. CASE f \in FKS \cup FPG
      <4>1. PICK p \in Procs : Held[<<"kstack", p, 0>>] = f \/ Held[<<"pgdir", p, 0>>] = f
        BY <1>9, <3>3
      <4>2. <<"op", 0, 0>> = <<"kstack", p, 0>> \/ <<"op", 0, 0>> = <<"pgdir", p, 0>>
        BY <1>2, <3>2, <4>1
      <4> QED BY <4>2
    <3>4. CASE f \in FD0
      <4>1. PICK p \in Procs, i \in Pds : Held[<<"pd0", p, i>>] = f
        BY <1>10, <3>4
      <4>2. <<"op", 0, 0>> = <<"pd0", p, i>>
        BY <1>2, <3>2, <4>1
      <4> QED BY <4>2
    <3>5. CASE f \in FPT
      <4>1. PICK p \in Procs, j \in Pts : Held[<<"pt", p, j>>] = f
        BY <1>11, <3>5
      <4>2. <<"op", 0, 0>> = <<"pt", p, j>>
        BY <1>2, <3>2, <4>1
      <4> QED BY <4>2
    <3> QED BY <2>1, <3>3, <3>4, <3>5
  <2> QED BY <2>1
<1>18. /\ IsFiniteSet(FKS \cup FPG)
       /\ Cardinality(FKS \cup FPG) = Cardinality(FKS) + Cardinality(FPG)
  BY <1>4, <1>5, <1>14, DisjointCount
<1>19. /\ IsFiniteSet((FKS \cup FPG) \cup FD0)
       /\ Cardinality((FKS \cup FPG) \cup FD0) = Cardinality(FKS \cup FPG) + Cardinality(FD0)
  BY <1>6, <1>15, <1>18, DisjointCount
<1>20. /\ IsFiniteSet(((FKS \cup FPG) \cup FD0) \cup FPT)
       /\ Cardinality(((FKS \cup FPG) \cup FD0) \cup FPT)
            = Cardinality((FKS \cup FPG) \cup FD0) + Cardinality(FPT)
  BY <1>7, <1>16, <1>19, DisjointCount
<1>21. Cardinality((((FKS \cup FPG) \cup FD0) \cup FPT) \cup OP)
         = Cardinality(((FKS \cup FPG) \cup FD0) \cup FPT) + Cardinality(OP)
  BY <1>8, <1>17, <1>20, DisjointCount
<1> QED BY <1>4, <1>5, <1>6, <1>7, <1>8, <1>12, <1>13, <1>18, <1>19, <1>20, <1>21

LEMMA LedgerFrames == Core /\ LedgerOK /\ BitsOK => CountedOK
<1> SUFFICES ASSUME Core, LedgerOK, BitsOK PROVE CountedOK
  OBVIOUS
<1>1. TypeOK
  BY LedgerType
<1>2. /\ Tables \subseteq Frames /\ Others \subseteq Frames /\ Pages \subseteq Frames
      /\ \A f \in Frames : f \in Tables <=> \E s \in TableSlots : Held[s] = f
      /\ \A f \in Frames : f \in Others <=> \E s \in OtherSlots : Held[s] = f
      /\ \A f \in Frames : f \in Pages <=> \E u \in Cells : MapsTo[u] = f
  BY FrameSets
<1>3. free \subseteq Frames /\ lost \subseteq Frames /\ \A f \in Frames : f # NULL
  BY DEF Core, MemTypes, Frames, NULL
<1>4. \A f \in Frames : Taken(Held, MapsTo, f) <=> f \in Tables \cup Others \cup Pages
  BY <1>2 DEF Taken, Slots
<1>5. \E n \in Sizes : free \cup lost \cup Tables \cup Pages \cup Others = 1..n
  <2>1. PICK n \in Sizes :
          \A f \in Frames : f <= n <=> f \in free \/ f \in lost \/ Taken(Held, MapsTo, f)
    BY DEF LedgerOK, Ledger, AllThere
  <2>2. n \in Nat /\ n <= NFrames /\ NFrames \in Nat
    BY VmAssumption
  <2>3. 1..n = {f \in Frames : f <= n}
    BY <2>2 DEF Frames
  <2>4. free \cup lost \cup Tables \cup Pages \cup Others = {f \in Frames : f <= n}
    BY <1>2, <1>3, <1>4, <2>1
  <2> QED BY <2>3, <2>4
<1>6. free \cap lost = {} /\ (Tables \cup Others \cup Pages) \cap (free \cup lost) = {}
  <2>1. free \cap lost = {}
    BY DEF LedgerOK, Ledger, OnePlace
  <2>2. ASSUME NEW f \in Frames, f \in Tables \cup Others PROVE f \notin free \cup lost
    <3>1. PICK s \in Slots : Held[s] = f
      BY <1>2, <2>2 DEF Slots
    <3> QED BY <1>3, <3>1 DEF LedgerOK, Ledger, OnePlace
  <2>3. ASSUME NEW f \in Frames, f \in Pages PROVE f \notin free \cup lost
    <3>1. PICK u \in Cells : MapsTo[u] = f
      BY <1>2, <2>3
    <3> QED BY <1>3, <3>1 DEF LedgerOK, Ledger, OnePlace
  <2> QED BY <1>2, <2>1, <2>2, <2>3
<1>7. Pages \cap (Tables \cup Others) = {}
  <2>1. ASSUME NEW f \in Frames, f \in Pages, f \in Tables \cup Others PROVE FALSE
    <3>1. PICK s \in Slots : Held[s] = f
      BY <1>2, <2>1 DEF Slots
    <3>2. PICK u \in Cells : MapsTo[u] = f
      BY <1>2, <2>1
    <3> QED BY <1>3, <3>1, <3>2 DEF LedgerOK, Ledger, OnePlace
  <2> QED BY <1>2, <2>1
<1>8. \A f : Mappings(f) = Uses(MapsTo, f)
  <2>1. \A f : {u \in Procs \X Vas : pte[u[1]][u[2]] = f} = {u \in Cells : MapsTo[u] = f}
    BY DEF Cells, MapsTo, MapsOf
  <2> QED BY <2>1 DEF Mappings, Uses
<1>9. \A f \in Frames \ lost : page_ref[f] = (IF f \in Tables THEN 1 ELSE Mappings(f))
  BY <1>2, <1>8 DEF LedgerOK, Ledger, RefsOK
<1>10. ASSUME ~share, NEW f \in Pages PROVE Mappings(f) = 1
  <2>1. PICK p \in Procs, v \in Vas : f = pte[p][v] /\ f # NULL
    BY DEF Pages
  <2>2. AlonePage(p, v)
    BY <1>10, <2>1 DEF BitsOK
  <2> QED BY <2>1, <2>2, AloneMappings
<1> QED BY <1>1, <1>5, <1>6, <1>7, <1>9, <1>10, PlacesCount DEF CountedOK

----------------------------------------------------------------------------
(* The theorems *)

IInv == Core /\ LedgerOK /\ BitsOK

LEMMA IInvInit == Init => IInv
BY CoreInit, LedgerInit, BitsInit DEF IInv

LEMMA IInvStep == IInv /\ [Next]_vars => IInv'
<1> SUFFICES ASSUME IInv, [Next]_vars PROVE IInv'
  OBVIOUS
<1>1. Core /\ LedgerOK /\ BitsOK /\ MarkedOK
  BY BitsMarked DEF IInv
<1>2. Core'
  BY <1>1, CoreStep
<1>3. LedgerOK'
  BY <1>1, LedgerStep
<1>4. BitsOK'
  BY <1>1, BitsStep
<1> QED BY <1>2, <1>3, <1>4 DEF IInv

LEMMA IInvAlways == Spec => []IInv
<1>1. Init => IInv
  BY IInvInit
<1>2. IInv /\ [Next]_vars => IInv'
  BY IInvStep
<1> QED BY <1>1, <1>2, PTL DEF Spec

\* fork, exec, exit and page faults, and the clean-up of each of them wherever an
\* allocation fails, leave every frame of the machine free, lost or in use for
\* one thing; page_ref (mm/pmm.c) counts the mappings of each page, so that
\* page_remove_pte frees it with the last of them and never before.
THEOREM CountedCorrect == Spec => []CountedOK
<1>1. IInv => CountedOK
  BY LedgerFrames DEF IInv
<1> QED BY <1>1, IInvAlways, PTL

\* What unmap_range and exit_range take for granted: page tables exist above
\* every page, pages lie in vmas, vmas lie apart, and only a process that runs
\* or is being forked has an address space.
THEOREM TreeCorrect == Spec => []TreeOK
<1>1. IInv => TreeOK
  BY CoreTree DEF IInv
<1> QED BY <1>1, IInvAlways, PTL

\* dup_mmap that succeeds has copied the vmas and every page of the parent.
THEOREM CopyCorrect == Spec => []CopyOK
<1>1. IInv => CopyOK
  BY CoreCopy DEF IInv
<1> QED BY <1>1, IInvAlways, PTL

\* Copy on write: a page with PTE_W has no second mapping, and a store to a page
\* of a writable vma finds PTE_W or PTE_COW.
THEOREM CowCorrect == Spec => []CowOK
<1>1. IInv => CowOK
  BY BitsCow DEF IInv
<1> QED BY <1>1, IInvAlways, PTL

----------------------------------------------------------------------------
(***************************************************************************)
(* What is lost.  With programs that fit (ProgramsFit), exit_range frees   *)
(* every page table, and put_pgdir finds no directory but those counted in *)
(* half.  KeepOK is the part of the invariant that says so: it follows the *)
(* layout of the program through load_icode and fork, and what exit_range  *)
(* has done so far.                                                        *)
(***************************************************************************)
FitOK ==
  /\ \A p \in Procs : AllFit(mmap[p])
  /\ Loading => AllFit(op.todo \cup mmap[op.m])
  /\ op.at # "idle" /\ op.why \in {"load", "exec"} => AllFit(op.prog)

\* Every table is there for a vma.
ServesOK ==
  \A p \in Procs :
    /\ \A j \in Pts : pt[p][j] # NULL => \E a \in mmap[p] : j \in Spans(a)
    /\ \A i \in Pds : pd0[p][i] # NULL => \E a \in mmap[p] : Met(a, i) # {}

\* The pages of a program are mapped, but in a process that is being built or
\* torn down.
FullOK ==
  \A p \in Procs : \A a \in mmap[p] : \A v \in a.pages :
    \/ pte[p][v] # NULL
    \/ op.at \in {"copy", "page", "insert"} /\ p = op.m /\ v \in op.pages
    \/ op.at \in {"unmap", "tables"} /\ p = op.m

\* A directory that lacks a table of a vma is in half, and exit_range leaves no
\* table of the vmas it has done.
HalfOK ==
  /\ op.at \in {"unmap", "tables"} =>
       \A i \in Pds : \A a \in mmap[op.m] : \A j \in Met(a, i) :
         pd0[op.m][i] # NULL /\ pt[op.m][j] = NULL => pd0[op.m][i] \in half
  /\ op.at = "tables" =>
       \A a \in mmap[op.m] \ op.todo : \A j \in Spans(a) : pt[op.m][j] = NULL

KeepOK == FitOK /\ ServesOK /\ FullOK /\ HalfOK /\ LostOK

LEMMA SpanFacts ==
  ASSUME NEW a \in Segs
  PROVE  /\ Spans(a) \subseteq Pts
         /\ \A i : \A j : j \in Met(a, i) <=> j \in Spans(a) /\ PdOf(j) = i
         /\ \A v \in Vas : Within(v, a) => PtOf(v) \in Spans(a)
<1>1. /\ a.lo \in Vas /\ a.hi - 1 \in Vas /\ a.hi \in Nat
      /\ Vas \subseteq Nat /\ PtOf(a.lo) \in Pts /\ PtOf(a.hi - 1) \in Pts
  BY SegFacts, PageNumbers
<1>2. NPD * PDN \in Nat
  BY VmAssumption
<1>3. Spans(a) \subseteq Pts
  BY <1>1, <1>2 DEF Spans, Pts
<1>4. \A i : \A j : j \in Met(a, i) <=> j \in Spans(a) /\ PdOf(j) = i
  BY DEF Met, Spans
<1>5. ASSUME NEW v \in Vas, Within(v, a) PROVE PtOf(v) \in Spans(a)
  <2>1. v \in Nat /\ a.lo \in Nat /\ a.hi - 1 \in Nat
    BY <1>1
  <2>2. a.lo <= v /\ v <= a.hi - 1
    BY <1>1, <1>5, <2>1 DEF Within
  <2>3. PTN \in Nat \ {0}
    BY VmAssumption
  <2>4. PtOf(a.lo) <= PtOf(v) /\ PtOf(v) <= PtOf(a.hi - 1)
    <3>1. a.lo \div PTN <= v \div PTN
      BY <2>1, <2>2, <2>3, DivMonotone
    <3> DEFINE top == a.hi - 1
    <3>2. top \in Nat /\ v <= top
      BY <2>1, <2>2
    <3> HIDE DEF top
    <3>3. v \div PTN <= top \div PTN
      BY <2>1, <2>3, <3>2, DivMonotone
    <3> QED BY <3>1, <3>3 DEF PtOf, top
  <2>5. PtOf(v) \in Int /\ PtOf(a.lo) \in Int /\ PtOf(a.hi - 1) \in Int
    <3>1. PtOf(v) \in Pts /\ Pts \subseteq Nat
      BY PageNumbers
    <3>2. Pts \subseteq Int
      BY <3>1
    <3> QED BY <1>1, <3>1, <3>2, Zenon
  <2> HIDE DEF PtOf
  <2> QED BY <2>4, <2>5 DEF Spans
<1> QED BY <1>3, <1>4, <1>5

LEMMA KeepInit == Init => KeepOK
<1> SUFFICES ASSUME Init PROVE KeepOK
  OBVIOUS
<1>1. op.at = "idle" /\ lost = {}
  BY IdleFields DEF Init
<1>2. \A p \in Procs : /\ mmap[p] = {}
                       /\ \A i \in Pds : pd0[p][i] = NULL
                       /\ \A j \in Pts : pt[p][j] = NULL
  BY DEF Init
<1>3. FitOK
  BY <1>1, <1>2 DEF FitOK, AllFit, Loading
<1>4. ServesOK /\ FullOK /\ HalfOK /\ LostOK
  BY <1>1, <1>2 DEF ServesOK, FullOK, HalfOK, LostOK
<1> QED BY <1>3, <1>4 DEF KeepOK

\* What a step does to FitOK depends on the vmas it adds.
LEMMA FitKept ==
  ASSUME FitOK, UNCHANGED mmap,
         \/ op'.at = "idle"
         \/ op' = op
         \/ /\ op.at # "idle" /\ op'.why = op.why /\ op'.prog = op.prog /\ op'.m = op.m
            /\ Loading' => Loading /\ op'.todo = op.todo
         \/ op'.at \notin {"map", "page", "insert"} /\ op'.why \in {"fork", "exit", "fault"}
  PROVE  FitOK'
<1>1. CASE op'.at = "idle"
  BY <1>1 DEF FitOK, Loading, AllFit, Fitting
<1>2. CASE op' = op
  BY <1>2 DEF FitOK, Loading, AllFit, Fitting
<1>3. CASE /\ op.at # "idle" /\ op'.why = op.why /\ op'.prog = op.prog /\ op'.m = op.m
           /\ Loading' => Loading /\ op'.todo = op.todo
  BY <1>3 DEF FitOK
<1>4. CASE op'.at \notin {"map", "page", "insert"} /\ op'.why \in {"fork", "exit", "fault"}
  BY <1>4 DEF FitOK, Loading
<1> QED BY <1>1, <1>2, <1>3, <1>4

\* Steps that leave the tables and vmas alone.
LEMMA QuietKeep ==
  ASSUME KeepOK, FitOK', UNCHANGED <<mmap, pt, pd0, half, lost>>,
         op.at \notin {"unmap", "tables"}, op'.at \notin {"unmap", "tables"},
         \A q \in Procs : \A u \in Vas : pte[q][u] # NULL => pte'[q][u] # NULL,
         op.at \in {"copy", "page", "insert"} =>
           \A v \in op.pages : \/ pte'[op.m][v] # NULL
                               \/ /\ op'.at \in {"copy", "page", "insert"}
                                  /\ op'.m = op.m /\ v \in op'.pages,
         MemTypes
  PROVE  KeepOK'
<1>1. ServesOK' /\ HalfOK' /\ LostOK'
  BY DEF KeepOK, ServesOK, HalfOK, LostOK, Spans, Met
<1>2. FullOK'
  <2> SUFFICES ASSUME NEW p \in Procs, NEW a \in mmap[p], NEW v \in a.pages, pte'[p][v] = NULL
               PROVE  op'.at \in {"copy", "page", "insert"} /\ p = op'.m /\ v \in op'.pages
    BY DEF FullOK
  <2>1. v \in Vas
    BY SegFacts DEF MemTypes
  <2>2. op.at \in {"copy", "page", "insert"} /\ p = op.m /\ v \in op.pages
    BY <2>1 DEF KeepOK, FullOK
  <2> QED BY <2>2
<1> QED BY <1>1, <1>2 DEF KeepOK

LEMMA SameKeep ==
  ASSUME KeepOK, UNCHANGED <<op, mmap, pt, pd0, pte, half, lost>>
  PROVE  KeepOK'
<1>1. FitOK'
  BY FitKept DEF KeepOK
<1>2. ServesOK' /\ HalfOK' /\ LostOK'
  BY DEF KeepOK, ServesOK, HalfOK, LostOK, Spans, Met
<1>3. FullOK'
  BY DEF KeepOK, FullOK
<1> QED BY <1>1, <1>2, <1>3 DEF KeepOK

\* A call that ends well, or has nothing to end.
LEMMA EndKeep ==
  ASSUME Core, KeepOK, op'.at = "idle", UNCHANGED <<mmap, pt, pd0, half, lost>>,
         op.at \in {"idle", "dup", "map", "gone", "fault"},
         \A q \in Procs : \A u \in Vas : pte[q][u] # NULL => pte'[q][u] # NULL
  PROVE  KeepOK'
<1>1. FitOK'
  BY FitKept DEF KeepOK
<1>2. MemTypes
  BY DEF Core
<1> QED BY <1>1, <1>2, QuietKeep

NewFrameAt(p, v) ==
  \A q \in Procs : \A u \in Vas : pte'[q][u] = pte[q][u] \/ (q = p /\ u = v /\ pte'[q][u] # NULL)

LEMMA MapAt ==
  ASSUME MemTypes, NEW p \in Procs, NEW v \in Vas, NEW f \in Frames,
         pte' = [pte EXCEPT ![p][v] = f]
  PROVE  NewFrameAt(p, v)
<1>1. f # NULL
  BY DEF Frames, NULL
<1> QED BY <1>1 DEF MemTypes, NewFrameAt

EndsWell == \/ \E p \in Procs : \/ \E f \in Frames : KernelThread(p, f)
                                \/ \E v \in Vas : \/ LastFault(p, v)
                                                  \/ \E f \in Frames : WriteFault(p, v, f)
            \/ ForkDone \/ ExecDone \/ ForkFailed \/ BecomeZombie
            \/ \E f \in Frames : ZeroPage(f)

LEMMA EndsKeep ==
  ASSUME Core, KeepOK, EndsWell
  PROVE  KeepOK'
<1>1. CASE \/ \E p \in Procs : \/ \E f \in Frames : KernelThread(p, f)
                               \/ \E v \in Vas : LastFault(p, v)
           \/ ForkDone \/ ExecDone \/ ForkFailed \/ BecomeZombie
  <2>1. op'.at = "idle"
    BY <1>1, IdleFields DEF KernelThread, LastFault, ForkDone, ExecDone, ForkFailed, BecomeZombie
  <2>2. op.at \in {"idle", "dup", "map", "gone", "fault"}
    BY <1>1 DEF KernelThread, LastFault, Fault, ForkDone, ExecDone, ForkFailed, BecomeZombie, At
  <2>3. UNCHANGED <<mmap, pt, pd0, pte, half, lost>>
    BY <1>1 DEF KernelThread, LastFault, ForkDone, ExecDone, ForkFailed, BecomeZombie, mapVars
  <2> QED BY <2>1, <2>2, <2>3, EndKeep
<1>2. ASSUME NEW p \in Procs, NEW v \in Vas, NEW f \in Frames, WriteFault(p, v, f)
      PROVE  KeepOK'
  <2>1. /\ op'.at = "idle" /\ op.at = "idle" /\ UNCHANGED <<mmap, pt, pd0, half, lost>>
        /\ pte' = [pte EXCEPT ![p][v] = f]
    BY <1>2, IdleFields DEF WriteFault, Fault, At
  <2>2. NewFrameAt(p, v)
    BY <2>1, MapAt DEF Core
  <2> QED BY <2>1, <2>2, EndKeep DEF NewFrameAt
<1>3. ASSUME NEW f \in Frames, ZeroPage(f) PROVE KeepOK'
  <2>1. Building
    BY <1>3 DEF ZeroPage, Building, Core, TodoOK, At
  <2>2. op.m \in Procs /\ Va \in Vas
    BY <2>1, VaInside
  <2>3. /\ op'.at = "idle" /\ op.at = "fault" /\ UNCHANGED <<mmap, pt, pd0, half, lost>>
        /\ pte' = [pte EXCEPT ![op.m][Va] = f]
    BY <1>3, IdleFields DEF ZeroPage, At, Map
  <2>4. NewFrameAt(op.m, Va)
    BY <2>2, <2>3, MapAt DEF Core
  <2> QED BY <2>3, <2>4, EndKeep DEF NewFrameAt
<1> QED BY <1>1, <1>2, <1>3 DEF EndsWell

\* A call goes on, with the same pages to do or with one of them done.
LEMMA GoOnKeep ==
  ASSUME Core, KeepOK, op \in Calls, op' \in Calls, UNCHANGED <<mmap, pt, pd0, half, lost>>,
         op'.why = op.why, op'.prog = op.prog, op'.m = op.m, op'.todo = op.todo,
         op.at \notin {"unmap", "tables"}, op'.at \notin {"unmap", "tables"},
         Loading' => Loading,
         op.pages = {} \/ op'.at \in {"copy", "page", "insert"},
         \A v \in op.pages : v \in op'.pages \/ pte'[op.m][v] # NULL,
         \A q \in Procs : \A u \in Vas : pte[q][u] # NULL => pte'[q][u] # NULL
  PROVE  KeepOK'
<1>1. op.at # "idle"
  BY DEF Calls, Stages
<1>2. FitOK'
  BY <1>1, FitKept DEF KeepOK
<1>3. MemTypes
  BY DEF Core
<1> QED BY <1>2, <1>3, QuietKeep

LEMMA PageDoneKeep ==
  ASSUME Core, KeepOK, Building, NEW f \in Frames, pte' = [pte EXCEPT ![op.m][Va] = f],
         UNCHANGED <<mmap, pt, pd0, half, lost>>,
         op' \in Calls, op'.why = op.why, op'.prog = op.prog, op'.m = op.m, op'.todo = op.todo,
         op'.pages = op.pages \ {Va}, op'.at \in {"copy", "page"}, op'.at = "page" => Loading
  PROVE  KeepOK'
<1>1. /\ op \in Calls /\ op.m \in Procs /\ Va \in Vas /\ Va \in op.pages
      /\ op.at \in {"copy", "insert", "fault"} /\ op.pages \subseteq Vas
  BY VaInside, OpFacts DEF Core
<1>2. NewFrameAt(op.m, Va)
  BY <1>1, MapAt DEF Core
<1>3. \A q \in Procs : \A u \in Vas : pte[q][u] # NULL => pte'[q][u] # NULL
  BY <1>2 DEF NewFrameAt
<1>4. pte'[op.m][Va] # NULL
  <2>1. f # NULL
    BY DEF Frames, NULL
  <2> QED BY <1>1, <2>1 DEF Core, MemTypes
<1>5. \A v \in op.pages : v \in op'.pages \/ pte'[op.m][v] # NULL
  BY <1>4
<1>6. Loading' => Loading
  BY DEF Loading
<1> QED BY <1>1, <1>3, <1>5, <1>6, GoOnKeep

LEMMA PagesKeep ==
  ASSUME Core, Core', KeepOK, SharePage \/ InsertPage \/ \E f \in Frames : CopyPage(f)
  PROVE  KeepOK'
<1>1. Building
  BY DEF SharePage, InsertPage, CopyPage
<1>2. /\ op \in Calls /\ op.m \in Procs /\ op.p \in Procs /\ Va \in Vas /\ Va \in op.pages
  BY <1>1, VaInside
<1>3. CASE SharePage
  <2>1. /\ op.at = "copy" /\ pte' = [pte EXCEPT ![op.m][Va] = pte[op.p][Va]]
        /\ op' = [op EXCEPT !.pages = @ \ {Va}] /\ UNCHANGED <<mmap, pt, pd0, half, lost>>
    BY <1>3 DEF SharePage, At
  <2>2. pte[op.p][Va] \in Frames
    BY <1>2, <2>1 DEF Core, MemTypes, DupOK, Forking
  <2>3. /\ op' \in Calls /\ op'.why = op.why /\ op'.prog = op.prog /\ op'.m = op.m
        /\ op'.todo = op.todo /\ op'.pages = op.pages \ {Va} /\ op'.at = "copy"
    BY <1>2, <2>1 DEF Calls
  <2> QED BY <1>1, <2>1, <2>2, <2>3, PageDoneKeep
<1>4. ASSUME NEW f \in Frames, CopyPage(f) PROVE KeepOK'
  <2>1. /\ op.at = "copy" /\ pte' = [pte EXCEPT ![op.m][Va] = f]
        /\ op' = [op EXCEPT !.pages = @ \ {Va}] /\ UNCHANGED <<mmap, pt, pd0, half, lost>>
    BY <1>4 DEF CopyPage, At, Map
  <2>3. /\ op' \in Calls /\ op'.why = op.why /\ op'.prog = op.prog /\ op'.m = op.m
        /\ op'.todo = op.todo /\ op'.pages = op.pages \ {Va} /\ op'.at = "copy"
    BY <1>2, <2>1 DEF Calls
  <2> QED BY <1>1, <2>1, <2>3, PageDoneKeep
<1>5. CASE InsertPage
  <2>1. /\ op.at = "insert" /\ pte' = [pte EXCEPT ![op.m][Va] = op.page]
        /\ op' = [op EXCEPT !.at = "page", !.pages = @ \ {Va}, !.page = NULL]
        /\ UNCHANGED <<mmap, pt, pd0, half, lost>>
    BY <1>5 DEF InsertPage, At, Map
  <2>2. op.page \in Frames
    BY <2>1, OpFacts DEF Core, CallOK
  <2>3. /\ op' \in Calls /\ op'.why = op.why /\ op'.prog = op.prog /\ op'.m = op.m
        /\ op'.todo = op.todo /\ op'.pages = op.pages \ {Va} /\ op'.at = "page"
    BY <1>2, <2>1 DEF Calls, Stages
  <2>4. Loading
    BY <2>1 DEF Loading
  <2> QED BY <1>1, <2>1, <2>2, <2>3, <2>4, PageDoneKeep
<1> QED BY <1>3, <1>4, <1>5

LEMMA MovesKeep ==
  ASSUME Core, KeepOK,
         SetupPgdirFails \/ CopyNext \/ AreaDone \/ \E f \in Frames : LoadPage(f)
  PROVE  KeepOK'
<1> DEFINE Goes ==
      /\ op \in Calls /\ op' \in Calls /\ UNCHANGED <<mmap, pt, pd0, half, lost, pte>>
      /\ op'.why = op.why /\ op'.prog = op.prog /\ op'.m = op.m /\ op'.todo = op.todo
      /\ op.at \notin {"unmap", "tables"} /\ op'.at \notin {"unmap", "tables"}
      /\ Loading' => Loading
      /\ op.pages = {} \/ op'.at \in {"copy", "page", "insert"}
      /\ op'.pages = op.pages
<1>1. Goes => KeepOK'
  BY GoOnKeep
<1>2. op.at # "idle" => op \in Calls
  BY OpFacts DEF Core
<1>3. CASE SetupPgdirFails
  <2>1. op.at = "pgdir" /\ op.pages = {} /\ op' = [op EXCEPT !.at = "gone"]
    BY <1>3 DEF SetupPgdirFails, At, Core, TodoOK
  <2>2. Goes
    BY <1>2, <1>3, <2>1 DEF SetupPgdirFails, Calls, Stages, Loading, mapVars
  <2> QED BY <1>1, <2>2
<1>4. CASE CopyNext
  <2>1. op.at = "copy" /\ op.pages = {} /\ op' = [op EXCEPT !.at = "dup"]
    BY <1>4 DEF CopyNext, At
  <2>2. Goes
    BY <1>2, <1>4, <2>1 DEF CopyNext, Calls, Stages, Loading, mapVars
  <2> QED BY <1>1, <2>2
<1>5. CASE AreaDone
  <2>1. op.at = "page" /\ op.pages = {} /\ op' = [op EXCEPT !.at = "map"]
    BY <1>5 DEF AreaDone, At
  <2>2. Goes
    BY <1>2, <1>5, <2>1 DEF AreaDone, Calls, Stages, Loading, mapVars
  <2> QED BY <1>1, <2>2
<1>6. ASSUME NEW f \in Frames, LoadPage(f) PROVE KeepOK'
  <2>1. op.at = "page" /\ op' = [op EXCEPT !.at = "insert", !.page = f]
    BY <1>6 DEF LoadPage, At
  <2>2. Goes
    BY <1>2, <1>6, <2>1 DEF LoadPage, Calls, Stages, Loading, mapVars
  <2> QED BY <1>1, <2>2
<1> QED BY <1>3, <1>4, <1>5, <1>6

\* A table that get_pte adds is there for the vma of the page.
LEMMA PlaceServes ==
  ASSUME Core, Building
  PROVE  \E a \in mmap[op.m] : /\ PtOf(Va) \in Spans(a)
                               /\ PtOf(Va) \in Met(a, PdOf(PtOf(Va)))
<1>1. Va \in Vas /\ op.m \in Procs /\ Inside(Va, op.m)
  BY VaInside
<1>2. PICK a \in mmap[op.m] : Within(Va, a)
  BY <1>1 DEF Inside
<1>3. a \in Segs
  BY <1>1 DEF Core, MemTypes
<1> QED BY <1>1, <1>2, <1>3, SpanFacts

LEMMA TablesKeep ==
  ASSUME Core, KeepOK, \E f \in Frames : GetPd0(f) \/ GetPt(f)
  PROVE  KeepOK'
<1>1. Building /\ UNCHANGED <<op, mmap, pte, half, lost>>
  BY DEF GetPd0, GetPt
<1>2. /\ Va \in Vas /\ op.m \in Procs /\ op.at \in {"copy", "insert", "fault"}
      /\ PtOf(Va) \in Pts /\ PdOf(PtOf(Va)) \in Pds
  BY <1>1, VaInside
<1>3. FitOK'
  BY <1>1, FitKept DEF KeepOK
<1>4. FullOK' /\ HalfOK' /\ LostOK'
  BY <1>1, <1>2 DEF KeepOK, FullOK, HalfOK, LostOK
<1>5. PICK a \in mmap[op.m] : PtOf(Va) \in Spans(a) /\ PtOf(Va) \in Met(a, PdOf(PtOf(Va)))
  BY <1>1, PlaceServes
<1>6. PICK f \in Frames : GetPd0(f) \/ GetPt(f)
  OBVIOUS
<1>7. \A p \in Procs : \A j \in Pts : pt'[p][j] # NULL =>
        \/ pt[p][j] # NULL
        \/ p = op.m /\ j = PtOf(Va)
  BY <1>2, <1>6 DEF GetPd0, GetPt, Core, MemTypes
<1>8. \A p \in Procs : \A i \in Pds : pd0'[p][i] # NULL =>
        \/ pd0[p][i] # NULL
        \/ p = op.m /\ i = PdOf(PtOf(Va))
  BY <1>2, <1>6 DEF GetPd0, GetPt, Core, MemTypes
<1>9. ServesOK'
  <2>1. \A p \in Procs : \A j \in Pts : pt'[p][j] # NULL => \E b \in mmap[p] : j \in Spans(b)
    BY <1>5, <1>7 DEF KeepOK, ServesOK
  <2>2. \A p \in Procs : \A i \in Pds : pd0'[p][i] # NULL => \E b \in mmap[p] : Met(b, i) # {}
    BY <1>5, <1>8 DEF KeepOK, ServesOK
  <2> QED BY <1>1, <2>1, <2>2 DEF ServesOK, Spans, Met
<1> QED BY <1>3, <1>4, <1>9 DEF KeepOK

\* A page of a program is under its table, so a whole address space lacks none.
LEMMA WholeHalf ==
  ASSUME Core, KeepOK, op.at = "idle", NEW p \in Procs
  PROVE  \A a \in mmap[p] : \A j \in Spans(a) : pt[p][j] # NULL
<1> SUFFICES ASSUME NEW a \in mmap[p], NEW j \in Spans(a) PROVE pt[p][j] # NULL
  OBVIOUS
<1>1. a \in Segs
  BY DEF Core, MemTypes
<1>2. PICK v \in a.pages : PtOf(v) = j
  BY DEF KeepOK, FitOK, AllFit, Fitting
<1>3. v \in Vas
  BY <1>1, SegFacts
<1>4. pte[p][v] # NULL
  BY DEF KeepOK, FullOK
<1> QED BY <1>2, <1>3, <1>4 DEF Core, LevelsOK

LEMMA UnmapKeep ==
  ASSUME Core, KeepOK, FitOK', op.at = "idle", op'.at = "unmap", op'.m \in Procs,
         UNCHANGED <<mmap, pt, pd0, pte, half, lost>>
  PROVE  KeepOK'
<1>1. ServesOK' /\ LostOK'
  BY DEF KeepOK, ServesOK, LostOK, Spans, Met
<1>2. FullOK'
  BY DEF KeepOK, FullOK
<1>3. HalfOK'
  <2>1. \A a \in mmap[op'.m] : a \in Segs
    BY DEF Core, MemTypes
  <2>2. \A a \in mmap[op'.m] : \A i \in Pds : \A j \in Met(a, i) : pt[op'.m][j] # NULL
    BY <2>1, WholeHalf, SpanFacts
  <2> QED BY <2>2 DEF HalfOK, Met
<1> QED BY <1>1, <1>2, <1>3 DEF KeepOK

LEMMA StartKeep ==
  ASSUME Core, KeepOK, op.at = "idle", op'.at \in {"pgdir", "fault"},
         op'.why \in {"load", "exec"} => AllFit(op'.prog),
         UNCHANGED <<mmap, pt, pd0, pte, half, lost>>
  PROVE  KeepOK'
<1>1. FitOK'
  BY DEF KeepOK, FitOK, AllFit, Fitting, Met, Loading
<1>2. op.pages = {} /\ MemTypes
  BY OpFacts DEF Core
<1> QED BY <1>1, <1>2, QuietKeep

LEMMA StartsKeep ==
  ASSUME Core, KeepOK, ProgramsFit, NEW p \in Procs,
         \/ Exit(p)
         \/ \E v \in Vas : TouchFault(p, v)
         \/ \E prog \in Programs : Exec(p, prog)
         \/ \E c \in Procs : \E f \in Frames : Fork(p, c, f)
  PROVE  KeepOK'
<1>1. CASE Exit(p)
  <2>1. /\ op.at = "idle" /\ op' = [Call("unmap", "exit", p, p, {}) EXCEPT !.todo = mmap[p]]
        /\ UNCHANGED <<mmap, pt, pd0, pte, half, lost>>
    BY <1>1 DEF Exit, At, mapVars
  <2>2. op'.at = "unmap" /\ op'.why = "exit" /\ op'.m = p
    BY <2>1 DEF Call
  <2>3. FitOK'
    BY <2>1, <2>2, FitKept DEF KeepOK
  <2> QED BY <2>1, <2>2, <2>3, UnmapKeep
<1>2. ASSUME NEW v \in Vas, TouchFault(p, v) PROVE KeepOK'
  <2>1. op.at = "idle" /\ UNCHANGED <<mmap, pt, pd0, pte, half, lost>>
    BY <1>2 DEF TouchFault, Fault, At, mapVars
  <2>2. op'.at = "fault" /\ op'.why = "fault"
    BY <1>2 DEF TouchFault, Call
  <2> QED BY <2>1, <2>2, StartKeep
<1>3. ASSUME NEW prog \in Programs, Exec(p, prog) PROVE KeepOK'
  <2>1. op.at = "idle" /\ UNCHANGED <<mmap, pt, pd0, pte, half, lost>>
    BY <1>3 DEF Exec, At, mapVars
  <2>2. AllFit(prog)
    BY DEF ProgramsFit
  <2>3. CASE pgdir[p] = NULL
    <3>1. op'.at = "pgdir" /\ op'.prog = prog
      BY <1>3, <2>3 DEF Exec, Call
    <3> QED BY <2>1, <2>2, <3>1, StartKeep
  <2>4. CASE pgdir[p] # NULL
    <3>1. op'.at = "unmap" /\ op'.prog = prog /\ op'.m = p
      BY <1>3, <2>4 DEF Exec, Call
    <3>2. FitOK'
      BY <2>1, <2>2, <3>1 DEF KeepOK, FitOK, AllFit, Fitting, Met, Loading
    <3> QED BY <2>1, <3>1, <3>2, UnmapKeep
  <2> QED BY <2>3, <2>4
<1>4. ASSUME NEW c \in Procs, NEW f \in Frames, Fork(p, c, f) PROVE KeepOK'
  <2>1. op.at = "idle" /\ UNCHANGED <<mmap, pt, pd0, pte, half, lost>>
    BY <1>4 DEF Fork, At, mapVars
  <2>2. op'.at = "pgdir" /\ op'.why = "fork"
    BY <1>4 DEF Fork, Call
  <2> QED BY <2>1, <2>2, StartKeep
<1> QED BY <1>1, <1>2, <1>3, <1>4

LEMMA ExecLoadKeep == ASSUME Core, KeepOK, ExecLoad PROVE KeepOK'
<1>1. /\ op.at = "gone" /\ op.why = "exec" /\ UNCHANGED <<mmap, pt, pd0, pte, half, lost>>
      /\ op.pages = {}
  BY DEF ExecLoad, At, mapVars, Core, TodoOK
<1>2. op'.at = "pgdir" /\ op'.prog = op.prog
  BY DEF ExecLoad, Call
<1>3. AllFit(op.prog)
  BY <1>1 DEF KeepOK, FitOK
<1>4. FitOK'
  BY <1>1, <1>2, <1>3 DEF KeepOK, FitOK, AllFit, Fitting, Met, Loading
<1>5. MemTypes
  BY DEF Core
<1> QED BY <1>1, <1>2, <1>4, <1>5, QuietKeep

\* A call that fails counts the directories that lack a table.
LEMMA CleanUpKeep ==
  ASSUME Core, KeepOK, CleanUp, op \in Calls, UNCHANGED <<mmap, pt, pd0, pte, lost>>,
         op.at \notin {"unmap", "tables"}
  PROVE  KeepOK'
<1>1. /\ op'.at = "unmap" /\ op'.why = op.why /\ op'.prog = op.prog /\ op'.m = op.m
      /\ op'.todo = mmap[op.m] /\ op.at # "idle"
  BY DEF CleanUp, Calls, Stages
<1>2. half \subseteq half'
  BY DEF CleanUp
<1>3. FitOK'
  BY <1>1 DEF KeepOK, FitOK, Loading, AllFit, Fitting, Met
<1>4. ServesOK' /\ LostOK'
  BY <1>2 DEF KeepOK, ServesOK, LostOK, Spans, Met
<1>5. FullOK'
  BY <1>1 DEF KeepOK, FullOK
<1>6. HalfOK'
  <2> SUFFICES ASSUME NEW i \in Pds, NEW a \in mmap[op.m], NEW j \in Met(a, i),
                      pd0[op.m][i] # NULL, pt[op.m][j] = NULL
               PROVE  pd0[op.m][i] \in half'
    BY <1>1 DEF HalfOK, Met
  <2> QED BY DEF CleanUp
<1> QED BY <1>3, <1>4, <1>5, <1>6 DEF KeepOK

LEMMA FailsKeep ==
  ASSUME Core, KeepOK, GetPteFails \/ BuildFails \/ ForkFilesFail \/ LoadPageFails
  PROVE  KeepOK'
<1>1. /\ op.at \notin {"idle", "unmap", "tables"} /\ CleanUp
      /\ UNCHANGED <<mmap, pt, pd0, pte, lost>>
  BY DEF GetPteFails, Building, BuildFails, ForkFilesFail, LoadPageFails, At, mapVars
<1>2. op \in Calls
  BY <1>1, OpFacts DEF Core
<1> QED BY <1>1, <1>2, CleanUpKeep

LEMMA SetupKeep ==
  ASSUME Core, KeepOK, NEW f \in Frames, SetupPgdir(f)
  PROVE  KeepOK'
<1>1. /\ op.at = "pgdir" /\ op.pages = {} /\ UNCHANGED <<mmap, pt, pd0, pte, half, lost>>
      /\ op \in Calls /\ op.m \in Procs
  BY OpFacts DEF SetupPgdir, At, Core, TodoOK, mapVars, bits, Calls
<1>2. mmap[op.m] = {}
  BY <1>1 DEF Core, CallOK, LevelsOK
<1>3. CASE op.why = "fork"
  <2>1. op'.at = "dup" /\ op'.why = "fork"
    BY <1>1, <1>3 DEF SetupPgdir, Calls
  <2>2. FitOK'
    BY <1>1, <2>1, FitKept DEF KeepOK
  <2>3. MemTypes
    BY DEF Core
  <2> QED BY <1>1, <2>1, <2>2, <2>3, QuietKeep
<1>4. CASE op.why # "fork"
  <2>1. /\ op'.at = "map" /\ op'.why = op.why /\ op'.m = op.m /\ op'.prog = op.prog
        /\ op'.todo = op.prog
    BY <1>1, <1>4 DEF SetupPgdir, Calls
  <2>2. op.why = "load"
    BY <1>1, <1>4 DEF Core, CallOK
  <2>3. AllFit(op.prog)
    BY <1>1, <2>2 DEF KeepOK, FitOK
  <2>4. op'.todo \cup mmap'[op'.m] = op.prog
    BY <1>1, <1>2, <2>1
  <2>5. AllFit(op.prog)'
    BY <2>1, <2>3 DEF AllFit, Fitting, Met
  <2>6. \A p \in Procs : AllFit(mmap'[p])
    BY <1>1 DEF KeepOK, FitOK
  <2>7. FitOK'
    BY <2>1, <2>3, <2>4, <2>6 DEF FitOK, AllFit, Fitting, Met
  <2>8. MemTypes
    BY DEF Core
  <2> QED BY <1>1, <2>1, <2>7, <2>8, QuietKeep
<1> QED BY <1>3, <1>4

LEMMA FitSubset ==
  ASSUME NEW S, NEW T, AllFit(S), T \subseteq S
  PROVE  AllFit(T)
BY DEF AllFit

\* A vma is added, with the pages of its program to do.
LEMMA AddKeep ==
  ASSUME Core, KeepOK, FitOK', op \in Calls, op.m \in Procs, NEW a \in op.todo,
         mmap' = [mmap EXCEPT ![op.m] = @ \cup {a}], UNCHANGED <<pt, pd0, pte, half, lost>>,
         op.at \notin {"copy", "page", "insert", "unmap", "tables"},
         op'.at \in {"copy", "page"}, op'.m = op.m,
         \A v \in a.pages : v \in op'.pages
  PROVE  KeepOK'
<1>1. /\ \A p \in Procs : mmap[p] \subseteq mmap'[p]
      /\ \A p \in Procs : \A b \in mmap'[p] : b \in mmap[p] \/ (p = op.m /\ b = a)
  BY DEF Core, MemTypes
<1>2. ServesOK'
  <2>1. \A p \in Procs : \A j \in Pts : pt'[p][j] # NULL => \E b \in mmap'[p] : j \in Spans(b)
    BY <1>1 DEF KeepOK, ServesOK
  <2>2. \A p \in Procs : \A i \in Pds : pd0'[p][i] # NULL => \E b \in mmap'[p] : Met(b, i) # {}
    BY <1>1 DEF KeepOK, ServesOK
  <2> QED BY <2>1, <2>2 DEF ServesOK, Spans, Met
<1>3. HalfOK' /\ LostOK'
  BY DEF KeepOK, HalfOK, LostOK
<1>4. FullOK'
  <2> SUFFICES ASSUME NEW p \in Procs, NEW b \in mmap'[p], NEW v \in b.pages, pte'[p][v] = NULL
               PROVE  op'.at \in {"copy", "page", "insert"} /\ p = op'.m /\ v \in op'.pages
    BY DEF FullOK
  <2>1. CASE b \in mmap[p]
    BY <2>1 DEF KeepOK, FullOK
  <2>2. CASE p = op.m /\ b = a
    BY <2>2
  <2> QED BY <1>1, <2>1, <2>2
<1> QED BY <1>2, <1>3, <1>4 DEF KeepOK

LEMMA MapAreaKeep ==
  ASSUME Core, KeepOK, NEW a \in op.todo, MapArea(a)
  PROVE  KeepOK'
<1>1. /\ op.at = "map" /\ op \in Calls /\ op.m \in Procs
      /\ UNCHANGED <<pt, pd0, pte, half, lost>>
      /\ mmap' = [mmap EXCEPT ![op.m] = @ \cup {a}]
      /\ op' = [op EXCEPT !.at = "page", !.todo = @ \ {a}, !.area = a, !.pages = a.pages]
  BY OpFacts DEF MapArea, At, Core, Calls
<1>2. /\ op'.at = "page" /\ op'.m = op.m /\ op'.pages = a.pages /\ op'.prog = op.prog
      /\ op'.why = op.why /\ op'.todo = op.todo \ {a}
  BY <1>1 DEF Calls
<1>3. AllFit(op.todo \cup mmap[op.m]) /\ \A p \in Procs : AllFit(mmap[p])
  BY <1>1 DEF KeepOK, FitOK, Loading
<1>4. /\ \A p \in Procs : p # op.m => mmap'[p] = mmap[p]
      /\ mmap'[op.m] = mmap[op.m] \cup {a}
  BY <1>1 DEF Core, MemTypes
<1>5. AllFit(mmap'[op.m]) /\ AllFit(op'.todo \cup mmap'[op.m])
  BY <1>2, <1>3, <1>4 DEF AllFit
<1>6. \A p \in Procs : AllFit(mmap'[p])
  BY <1>3, <1>4, <1>5
<1>7. op'.why \in {"load", "exec"} => AllFit(op'.prog)
  BY <1>1, <1>2 DEF KeepOK, FitOK
<1>8. FitOK'
  BY <1>2, <1>5, <1>6, <1>7 DEF FitOK, AllFit, Fitting, Met
<1> QED BY <1>1, <1>2, <1>8, AddKeep

LEMMA DupVmaKeep ==
  ASSUME Core, KeepOK, NEW a \in op.todo, DupVma(a)
  PROVE  KeepOK'
<1>1. /\ op.at = "dup" /\ op \in Calls /\ op.m \in Procs /\ op.p \in Procs
      /\ UNCHANGED <<pt, pd0, pte, half, lost>>
      /\ mmap' = [mmap EXCEPT ![op.m] = @ \cup {a}]
      /\ op' = [op EXCEPT !.at = "copy", !.todo = @ \ {a}, !.pages = Copied(a)]
  BY OpFacts DEF DupVma, At, Core, Calls
<1>2. /\ op'.at = "copy" /\ op'.m = op.m /\ op'.pages = Copied(a) /\ op'.prog = op.prog
      /\ op'.why = op.why
  BY <1>1 DEF Calls
<1>3. /\ op.todo \cup mmap[op.m] = mmap[op.p] /\ op.why = "fork" /\ op.p # op.m /\ a \in Segs
  BY <1>1 DEF Core, DupOK, CallOK, Forking, Calls
<1>4. \A p \in Procs : AllFit(mmap[p])
  BY DEF KeepOK, FitOK
<1>5. /\ \A p \in Procs : p # op.m => mmap'[p] = mmap[p]
      /\ mmap'[op.m] \subseteq mmap[op.p]
  BY <1>1, <1>3 DEF Core, MemTypes
<1>6. \A p \in Procs : AllFit(mmap'[p])
  BY <1>1, <1>4, <1>5, FitSubset
<1>7. FitOK'
  BY <1>2, <1>3, <1>6 DEF FitOK, AllFit, Fitting, Met, Loading
<1>8. ASSUME NEW v \in a.pages PROVE v \in Copied(a)
  <2>1. v \in Vas /\ v \in a.lo..(a.hi - 1)
    BY <1>3, SegFacts
  <2>2. pte[op.p][v] # NULL
    BY <1>1, <1>3 DEF KeepOK, FullOK
  <2>3. pt[op.p][PtOf(v)] # NULL
    BY <1>1, <2>1, <2>2 DEF Core, LevelsOK
  <2> QED BY <2>1, <2>2, <2>3 DEF Copied
<1> QED BY <1>1, <1>2, <1>7, <1>8, AddKeep

LEMMA UnmapAllKeep == ASSUME Core, KeepOK, UnmapAll PROVE KeepOK'
<1>1. /\ op.at = "unmap" /\ op \in Calls /\ op.m \in Procs /\ op.todo = mmap[op.m]
      /\ UNCHANGED <<mmap, pt, pd0, half, lost>> /\ op' = [op EXCEPT !.at = "tables"]
  BY OpFacts DEF UnmapAll, At, Core, Calls, TodoOK
<1>2. /\ op'.at = "tables" /\ op'.m = op.m /\ op'.why = op.why /\ op'.prog = op.prog
      /\ op'.todo = mmap[op.m]
  BY <1>1 DEF Calls
<1>3. \A p \in Procs : p # op.m => pte'[p] = pte[p]
  <2>1. pte' = [pte EXCEPT ![op.m] = [v \in Vas |-> IF v \in UnmapSet THEN NULL ELSE @[v]]]
    BY DEF UnmapAll, UnmapSet
  <2>2. pte \in [Procs -> [Vas -> Frames \cup {NULL}]]
    BY DEF Core, MemTypes
  <2> QED BY <1>1, <2>1, <2>2
<1>4. FitOK'
  BY <1>1, <1>2 DEF KeepOK, FitOK, AllFit, Fitting, Met, Loading
<1>5. ServesOK' /\ LostOK'
  BY <1>1 DEF KeepOK, ServesOK, LostOK, Spans, Met
<1>6. FullOK'
  BY <1>1, <1>2, <1>3 DEF KeepOK, FullOK
<1>7. HalfOK'
  BY <1>1, <1>2 DEF KeepOK, HalfOK, Met, Spans
<1> QED BY <1>4, <1>5, <1>6, <1>7 DEF KeepOK

\* exit_range frees the tables of the vma with their directory.
LEMMA NoneLost ==
  ASSUME Core, KeepOK, NEW a \in op.todo, ExitRange(a)
  PROVE  LostPts(a) = {}
<1> SUFFICES ASSUME NEW j \in LostPts(a) PROVE FALSE
  OBVIOUS
<1>1. /\ op.m \in Procs /\ a \in mmap[op.m] /\ a \in Segs
      /\ \A v \in Vas : pte[op.m][v] = NULL
  BY ExitRangeIs
<1>2. /\ j \in Pts /\ j \notin FreedPts(a) /\ pt[op.m][j] # NULL
      /\ PdOf(j) \in Pds /\ pd0[op.m][PdOf(j)] # NULL /\ Met(a, PdOf(j)) # {}
  BY DEF LostPts, FreedPds, FreesPd0
<1>3. PICK b \in mmap[op.m] : j \in Spans(b)
  BY <1>1, <1>2 DEF KeepOK, ServesOK
<1>4. b \in Segs
  BY <1>1 DEF Core, MemTypes
<1>5. j \in Met(b, PdOf(j))
  BY <1>3, <1>4, SpanFacts
<1>6. Fitting(a, b)
  BY <1>1 DEF KeepOK, FitOK, AllFit
<1>7. j \in Met(a, PdOf(j))
  BY <1>2, <1>5, <1>6 DEF Fitting
<1>8. Empty(op.m, j)
  BY <1>1 DEF Empty
<1> QED BY <1>2, <1>7, <1>8 DEF FreedPts

LEMMA ExitRangeKeep ==
  ASSUME Core, KeepOK, NEW a \in op.todo, ExitRange(a)
  PROVE  KeepOK'
<1> DEFINE m == op.m
           T == FreedPts(a)
           D == FreedPds(a)
<1>1. /\ op.at = "tables" /\ op \in Calls /\ m \in Procs /\ a \in Segs
      /\ \A v \in Vas : pte[m][v] = NULL
      /\ op' = [op EXCEPT !.todo = @ \ {a}]
      /\ UNCHANGED <<mmap, pte, half>>
  BY ExitRangeIs
<1>2. /\ op'.at = "tables" /\ op'.m = m /\ op'.why = op.why /\ op'.prog = op.prog
      /\ op'.todo = op.todo \ {a}
  BY <1>1 DEF Calls
<1>3. /\ \A p \in Procs : p # m => pt'[p] = pt[p] /\ pd0'[p] = pd0[p]
      /\ \A j \in Pts : pt'[m][j] = IF j \in T THEN NULL ELSE pt[m][j]
      /\ \A i \in Pds : pd0'[m][i] = IF i \in D THEN NULL ELSE pd0[m][i]
  BY ExitRangeTables, NoneLost
<1>4. lost' = lost
  <2>1. lost' = lost \cup {pt[op.m][j] : j \in LostPts(a)}
    BY ExitRangeIs
  <2>2. LostPts(a) = {}
    BY NoneLost
  <2> QED BY <2>1, <2>2
<1>5. FitOK'
  BY <1>1, <1>2 DEF KeepOK, FitOK, AllFit, Fitting, Met, Loading
<1>6. LostOK'
  BY <1>1, <1>4 DEF KeepOK, LostOK
<1>7. FullOK'
  BY <1>1, <1>2 DEF KeepOK, FullOK
<1>8. ServesOK'
  <2>1. \A p \in Procs : \A j \in Pts : pt'[p][j] # NULL => pt[p][j] # NULL
    BY <1>3
  <2>2. \A p \in Procs : \A i \in Pds : pd0'[p][i] # NULL => pd0[p][i] # NULL
    BY <1>3
  <2>3. \A p \in Procs : \A j \in Pts : pt'[p][j] # NULL => \E b \in mmap'[p] : j \in Spans(b)
    BY <1>1, <2>1 DEF KeepOK, ServesOK
  <2>4. \A p \in Procs : \A i \in Pds : pd0'[p][i] # NULL => \E b \in mmap'[p] : Met(b, i) # {}
    BY <1>1, <2>2 DEF KeepOK, ServesOK
  <2> QED BY <2>3, <2>4 DEF ServesOK, Spans, Met
<1>9. HalfOK'
  <2>1. ASSUME NEW i \in Pds, NEW b \in mmap[m], NEW j \in Met(b, i),
               pd0'[m][i] # NULL, pt'[m][j] = NULL
        PROVE  pd0'[m][i] \in half
    <3>0. b \in Segs
      BY <1>1 DEF Core, MemTypes
    <3>1. j \in Pts /\ PdOf(j) = i
      BY <3>0, SpanFacts
    <3>2. i \notin D /\ pd0[m][i] # NULL /\ pd0'[m][i] = pd0[m][i]
      BY <1>3, <2>1
    <3>3. CASE pt[m][j] = NULL
      BY <1>1, <3>2, <3>3 DEF KeepOK, HalfOK
    <3>4. CASE j \in T
      <4>1. j \in Met(a, i)
        BY <3>1, <3>4 DEF FreedPts
      <4>2. PICK k \in Met(a, i) : pt[m][k] = NULL
        BY <3>2, <4>1 DEF FreedPds, FreesPd0
      <4>3. a \in mmap[m]
        BY ExitRangeIs
      <4> QED BY <1>1, <3>2, <4>2, <4>3 DEF KeepOK, HalfOK
    <3> QED BY <1>3, <2>1, <3>1, <3>3, <3>4
  <2>2. ASSUME NEW b \in mmap[m] \ op'.todo, NEW j \in Spans(b) PROVE pt'[m][j] = NULL
    <3>0. b \in Segs
      BY <1>1 DEF Core, MemTypes
    <3>1. j \in Pts /\ PdOf(j) \in Pds /\ j \in Met(b, PdOf(j))
      BY <3>0, SpanFacts, PageNumbers
    <3>2. CASE b = a /\ pt[m][j] # NULL
      <4>1. pd0[m][PdOf(j)] # NULL
        BY <1>1, <3>1, <3>2 DEF Core, LevelsOK
      <4>2. j \in T
        BY <1>1, <3>1, <3>2, <4>1 DEF FreedPts, Empty
      <4> QED BY <1>3, <3>1, <4>2
    <3>3. CASE b # a
      <4>1. b \in mmap[m] \ op.todo
        BY <1>2, <2>2, <3>3
      <4>2. pt[m][j] = NULL
        BY <1>1, <4>1 DEF KeepOK, HalfOK
      <4> QED BY <1>3, <3>1, <4>2
    <3> QED BY <1>3, <3>1, <3>2, <3>3
  <2> QED BY <1>1, <1>2, <2>1, <2>2 DEF HalfOK, Met, Spans
<1> QED BY <1>5, <1>6, <1>7, <1>8, <1>9 DEF KeepOK

\* put_pgdir finds a directory only where half says so.
LEMMA PutPgdirKeep == ASSUME Core, KeepOK, PutPgdir PROVE KeepOK'
<1> DEFINE m == op.m
<1>1. /\ op.at = "tables" /\ op \in Calls /\ m \in Procs /\ op.todo = {}
      /\ \A v \in Vas : pte[m][v] = NULL
  BY OpFacts DEF PutPgdir, At, Core, Calls, TodoOK
<1>2. /\ pd0' = [pd0 EXCEPT ![m] = [i \in Pds |-> NULL]]
      /\ pt' = [pt EXCEPT ![m] = [j \in Pts |-> NULL]]
      /\ pte' = [pte EXCEPT ![m] = [v \in Vas |-> NULL]]
      /\ mmap' = [mmap EXCEPT ![m] = {}] /\ op' = [op EXCEPT !.at = "gone"]
      /\ lost' = lost \cup (({pd0[m][i] : i \in Pds} \cup {pt[m][j] : j \in Pts}
                             \cup {pte[m][v] : v \in Vas}) \ {NULL})
      /\ half' = half \cap lost'
  BY DEF PutPgdir
<1>3. /\ op'.at = "gone" /\ op'.m = m /\ op'.why = op.why /\ op'.prog = op.prog
  BY <1>1, <1>2 DEF Calls
<1>4. /\ mmap'[m] = {}
      /\ \A i \in Pds : pd0'[m][i] = NULL
      /\ \A j \in Pts : pt'[m][j] = NULL
      /\ \A p \in Procs : p # m => /\ mmap'[p] = mmap[p] /\ pd0'[p] = pd0[p]
                                   /\ pt'[p] = pt[p] /\ pte'[p] = pte[p]
  BY <1>1, <1>2 DEF Core, MemTypes
<1>5. \A j \in Pts : pt[m][j] = NULL
  <2> SUFFICES ASSUME NEW j \in Pts, pt[m][j] # NULL PROVE FALSE
    OBVIOUS
  <2>1. PICK a \in mmap[m] : j \in Spans(a)
    BY <1>1 DEF KeepOK, ServesOK
  <2> QED BY <1>1, <2>1 DEF KeepOK, HalfOK
<1>6. ASSUME NEW i \in Pds, pd0[m][i] # NULL PROVE pd0[m][i] \in half
  <2>1. PICK a \in mmap[m] : Met(a, i) # {}
    BY <1>1, <1>6 DEF KeepOK, ServesOK
  <2>2. PICK j \in Met(a, i) : TRUE
    BY <2>1
  <2>3. a \in Segs
    BY <1>1 DEF Core, MemTypes
  <2>4. j \in Pts
    BY <2>2, <2>3, SpanFacts
  <2> QED BY <1>1, <1>5, <1>6, <2>2, <2>4 DEF KeepOK, HalfOK
<1>7. LostOK'
  <2>1. lost' \subseteq half
    BY <1>1, <1>2, <1>5, <1>6 DEF KeepOK, LostOK
  <2> QED BY <1>2, <2>1 DEF LostOK
<1> HIDE DEF m
<1>8. FitOK'
  <2>1. \A p \in Procs : AllFit(mmap'[p])
    <3>1. \A p \in Procs : AllFit(mmap[p])
      BY DEF KeepOK, FitOK
    <3>2. AllFit({})
      BY DEF AllFit
    <3> QED BY <1>4, <3>1, <3>2
  <2>2. op'.why \in {"load", "exec"} => AllFit(op'.prog)
    BY <1>1, <1>3 DEF KeepOK, FitOK
  <2> QED BY <1>3, <2>1, <2>2 DEF FitOK, AllFit, Fitting, Met, Loading
<1>9. ServesOK'
  <2> SUFFICES ASSUME NEW p \in Procs
               PROVE  /\ \A j \in Pts : pt'[p][j] # NULL => \E a \in mmap'[p] : j \in Spans(a)'
                      /\ \A i \in Pds : pd0'[p][i] # NULL => \E a \in mmap'[p] : Met(a, i)' # {}
    BY DEF ServesOK
  <2>1. CASE p = m
    BY <1>4, <2>1
  <2>2. CASE p # m
    BY <1>4, <2>2 DEF KeepOK, ServesOK, Spans, Met
  <2> QED BY <2>1, <2>2
<1>10. FullOK'
  <2> SUFFICES ASSUME NEW p \in Procs, NEW a \in mmap'[p], NEW v \in a.pages
               PROVE  pte'[p][v] # NULL
    BY DEF FullOK
  <2>1. p # m /\ a \in mmap[p]
    BY <1>4
  <2> QED BY <1>1, <1>4, <2>1 DEF KeepOK, FullOK, m
<1>11. HalfOK'
  BY <1>3 DEF HalfOK
<1> QED BY <1>7, <1>8, <1>9, <1>10, <1>11 DEF KeepOK

LEMMA KeepStep == ProgramsFit /\ Core /\ MarkedOK /\ KeepOK /\ [Next]_vars => KeepOK'
<1> SUFFICES ASSUME ProgramsFit, Core, MarkedOK, KeepOK, [Next]_vars PROVE KeepOK'
  OBVIOUS
<1>a. Core'
  BY CoreStep
<1>0. CASE CopyPagePanic \/ FaultPanic \/ (\E p \in Procs : Reap(p)) \/ UNCHANGED vars
  <2>1. UNCHANGED <<op, mmap, pt, pd0, pte, half, lost>>
    BY <1>0 DEF CopyPagePanic, FaultPanic, Reap, vars, mapVars
  <2> QED BY <2>1, SameKeep
<1>1. ASSUME NEW f \in Frames, GetPd0(f) \/ GetPt(f) \/ SetupPgdir(f) PROVE KeepOK'
  BY <1>1, TablesKeep, SetupKeep
<1>2. CASE SharePage \/ InsertPage \/ \E f \in Frames : CopyPage(f)
  BY <1>a, <1>2, PagesKeep
<1>3. CASE SetupPgdirFails \/ CopyNext \/ AreaDone \/ \E f \in Frames : LoadPage(f)
  BY <1>3, MovesKeep
<1>4. CASE EndsWell
  BY <1>4, EndsKeep
<1>5. CASE GetPteFails \/ BuildFails \/ ForkFilesFail \/ LoadPageFails
  BY <1>5, FailsKeep
<1>6. CASE UnmapAll \/ PutPgdir \/ ExecLoad
  BY <1>6, UnmapAllKeep, PutPgdirKeep, ExecLoadKeep
<1>7. ASSUME NEW a \in op.todo, DupVma(a) \/ MapArea(a) \/ ExitRange(a) PROVE KeepOK'
  BY <1>7, DupVmaKeep, MapAreaKeep, ExitRangeKeep
<1>8. ASSUME NEW p \in Procs,
             \/ Exit(p)
             \/ \E v \in Vas : TouchFault(p, v)
             \/ \E prog \in Programs : Exec(p, prog)
             \/ \E c \in Procs : \E f \in Frames : Fork(p, c, f)
      PROVE  KeepOK'
  BY <1>8, StartsKeep
<1>9. \/ CopyPagePanic \/ FaultPanic \/ (\E p \in Procs : Reap(p)) \/ UNCHANGED vars
      \/ \E f \in Frames : GetPd0(f) \/ GetPt(f) \/ SetupPgdir(f)
      \/ SharePage \/ InsertPage \/ \E f \in Frames : CopyPage(f)
      \/ SetupPgdirFails \/ CopyNext \/ AreaDone \/ \E f \in Frames : LoadPage(f)
      \/ EndsWell
      \/ GetPteFails \/ BuildFails \/ ForkFilesFail \/ LoadPageFails
      \/ UnmapAll \/ PutPgdir \/ ExecLoad
      \/ \E a \in op.todo : DupVma(a) \/ MapArea(a) \/ ExitRange(a)
      \/ \E p \in Procs : \/ Exit(p)
                          \/ \E v \in Vas : TouchFault(p, v)
                          \/ \E prog \in Programs : Exec(p, prog)
                          \/ \E c \in Procs : \E f \in Frames : Fork(p, c, f)
  BY Zenon DEF Next, EndsWell
<1> QED BY <1>0, <1>1, <1>2, <1>3, <1>4, <1>5, <1>6, <1>7, <1>8, <1>9

\* When programs are laid out so (ProgramsFit), no frame is lost for good in exit,
\* exec or a fork that succeeds: exit_range (mm/pmm.c) leaves put_pgdir nothing but
\* level-0 directories of vmas whose page tables were not all there when an
\* allocation failed.
THEOREM LostCorrect == ASSUME ProgramsFit PROVE Spec => []LostOK
<1> DEFINE Inv == IInv /\ KeepOK
<1>1. Init => Inv
  BY IInvInit, KeepInit
<1>2. Inv /\ [Next]_vars => Inv'
  BY IInvStep, KeepStep, BitsMarked DEF IInv
<1>3. Inv => LostOK
  BY DEF KeepOK
<1> QED BY <1>1, <1>2, <1>3, PTL DEF Spec

\* For programs that fit, every frame of the machine is at every moment in use
\* for one thing, free, or one of the directories that exit_range leaves behind
\* after a call that failed between two page tables.
THEOREM FramesCorrect == ASSUME ProgramsFit PROVE Spec => []FramesOK
<1>1. CountedOK /\ LostOK => FramesOK
  BY DEF FramesOK
<1> QED BY <1>1, CountedCorrect, LostCorrect, PTL
=============================================================================
