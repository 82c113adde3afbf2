--------------------------------- MODULE Vm ---------------------------------
(***************************************************************************)
(* Address spaces: the page tables of kern/mm/pmm.c, the vma lists of      *)
(* kern/mm/vmm.c, and what fork, exec, exit and wait (kern/process/proc.c) *)
(* build and tear down.  `share' is the flag that dup_mmap hands to        *)
(* copy_range: 0 in lab8, where fork copies every page, and 1 in lab5,     *)
(* where parent and child share the pages until one of them writes         *)
(* (do_pgfault of lab5/kern/mm/vmm.c).                                     *)
(*                                                                         *)
(* These calls run with interrupts off, so `op' is the only one in         *)
(* progress; it takes a step per frame it asks for, and each of them may   *)
(* find the memory full.  alloc_page gives the lowest free frame: that is  *)
(* what the page allocator promises (PmmSpec).  Virtual addresses count    *)
(* pages.  A page directory has NPD entries; each names a level-0          *)
(* directory of PDN page tables of PTN pages.  Of a page table entry the   *)
(* frame, PTE_W and PTE_COW are kept; the contents of pages and the        *)
(* kernel's own mappings are left out; a kernel stack counts as one frame. *)
(***************************************************************************)
EXTENDS Integers, FiniteSets

CONSTANTS
  Procs,       \* process slots; each has an address space of its own
  NFrames,     \* frames of the machine
  Sizes,       \* how many of them other parts of the kernel leave
  NPD, PDN, PTN,
  MaxCalls,    \* bound: forks, execs and page faults
  Programs     \* what exec may find in a file: the segments, by address


Frames == 1..NFrames
NULL == 0                     \* no frame
Vas == 0..(NPD * PDN * PTN - 1)
Pts == 0..(NPD * PDN - 1)
Pds == 0..(NPD - 1)
PtOf(v) == v \div PTN
PdOf(j) == j \div PDN         \* of a page table

\* A vma, with the pages of it that exec maps.  The stack is mapped from the
\* top downwards.
Area == [lo : Vas, hi : Vas \cup {NPD * PDN * PTN}, stack : BOOLEAN,
         write : BOOLEAN, pages : SUBSET Vas]

\* mm_map refuses an empty range (USER_ACCESS), and load_icode maps no page
\* outside the range.
ASSUME VmAssumption ==
  /\ IsFiniteSet(Procs)
  /\ NFrames \in Nat /\ Sizes \subseteq 0..NFrames
  /\ NPD \in Nat \ {0} /\ PDN \in Nat \ {0} /\ PTN \in Nat \ {0}
  /\ MaxCalls \in Nat
  /\ \A prog \in Programs : \A a \in prog :
       a \in Area /\ a.lo < a.hi /\ a.pages \subseteq a.lo..(a.hi - 1)

VARIABLES
  state,       \* of each process: "none", "new", "run", "zombie"
  kstack,      \* its kernel stack
  mmap,        \* mmap_list: the set of vmas of its address space
  pgdir,       \* the frame of its page directory
  pd0,         \* ... of its level-0 directories
  pt,          \* ... of its page tables
  pte,         \* ... of its pages
  w, cow,      \* the pages with PTE_W, and with PTE_COW
  share,
  page_ref,
  free,        \* the free frames
  op,          \* the call in progress
  half,        \* history: directories that lacked a table of a vma when a call failed
  lost,        \* history: frames in use that nothing leads to any more
  panic

memVars == <<page_ref, free>>
bits == <<w, cow, share>>
mapVars == <<mmap, pgdir, pd0, pt, pte, bits>>
vars == <<state, kstack, mapVars, page_ref, free, op, half, lost, panic>>

\* The call in progress: what it is for, the process p that makes it, the
\* address space m it works on, the program it loads, the vmas still to do, the
\* current vma with the pages still to do, and the page it has in hand;
\* n counts the calls so far.
NoArea == [lo |-> 0, hi |-> 0, stack |-> FALSE, write |-> FALSE, pages |-> {}]
Call(at, why, p, m, prog) ==
  [at |-> at, why |-> why, p |-> p, m |-> m, prog |-> prog, todo |-> {},
   area |-> NoArea, pages |-> {}, page |-> NULL, n |-> op.n]
Idle(n) == [at |-> "idle", todo |-> {}, pages |-> {}, page |-> NULL, n |-> n]

At(place) == op.at = place /\ ~panic

Init ==
  /\ state = [p \in Procs |-> "none"]
  /\ kstack = [p \in Procs |-> NULL]
  /\ mmap = [p \in Procs |-> {}]
  /\ pgdir = [p \in Procs |-> NULL]
  /\ pd0 = [p \in Procs |-> [i \in Pds |-> NULL]]
  /\ pt = [p \in Procs |-> [j \in Pts |-> NULL]]
  /\ pte = [p \in Procs |-> [v \in Vas |-> NULL]]
  /\ w = [p \in Procs |-> {}] /\ cow = [p \in Procs |-> {}]
  /\ share \in BOOLEAN
  /\ page_ref = [f \in Frames |-> 0]
  /\ \E n \in Sizes : free = 1..n
  /\ op = Idle(0)
  /\ half = {} /\ lost = {} /\ panic = FALSE

----------------------------------------------------------------------------
(* Frames and page tables *)

\* alloc_page returns f; it returns NULL when the memory is Full.
Alloc(f) == f \in free /\ (\A g \in free : f <= g) /\ free' = free \ {f}
Full == free = {}

\* free_pages clears the reference counts of the frames S.
Cleared(refs, S) == [f \in Frames |-> IF f \in S THEN 0 ELSE refs[f]]

FreePages(S) == free' = free \cup S /\ page_ref' = Cleared(page_ref, S)

\* The page that get_pte is called for: load_icode maps the stack from the top
\* downwards, everything else goes upwards.
Va == CHOOSE v \in op.pages : \A u \in op.pages :
        IF op.at = "insert" /\ op.area.stack THEN u <= v ELSE v <= u

\* get_pte with create, on behalf of copy_range ("copy") and of page_insert
\* ("insert"), and of do_pgfault ("fault"): a step per level that is missing.
Building == (At("copy") \/ At("insert") \/ At("fault")) /\ op.pages # {}
NoPd0 == pd0[op.m][PdOf(PtOf(Va))] = NULL
NoPt == pt[op.m][PtOf(Va)] = NULL

GetPd0(f) ==
  /\ Building /\ NoPd0 /\ Alloc(f)
  /\ page_ref' = [page_ref EXCEPT ![f] = 1]
  /\ pd0' = [pd0 EXCEPT ![op.m][PdOf(PtOf(Va))] = f]
  /\ UNCHANGED <<state, kstack, mmap, pgdir, pt, pte, bits, op, half, lost, panic>>

GetPt(f) ==
  /\ Building /\ ~NoPd0 /\ NoPt /\ Alloc(f)
  /\ page_ref' = [page_ref EXCEPT ![f] = 1]
  /\ pt' = [pt EXCEPT ![op.m][PtOf(Va)] = f]
  /\ UNCHANGED <<state, kstack, mmap, pgdir, pd0, pte, bits, op, half, lost, panic>>

\* Faulty variant: pgdir_alloc_page keeps the page it could not map.
PageBack_Not == UNCHANGED memVars

\* pgdir_alloc_page gives back the page when page_insert fails.
PageBack == FreePages(IF op.at = "insert" THEN {op.page} ELSE {})

\* The page tables of directory i that the vma a needs.
Met(a, i) == {j \in PtOf(a.lo)..PtOf(a.hi - 1) : PdOf(j) = i}

\* A call that has failed goes to its clean-up, exit_mmap first.
CleanUp ==
  /\ op' = [op EXCEPT !.at = "unmap", !.todo = mmap[op.m], !.pages = {},
                      !.area = NoArea, !.page = NULL]
  /\ half' = half \cup {pd0[op.m][i] : i \in {i \in Pds :
                 \E a \in mmap[op.m] : \E j \in Met(a, i) :
                   pd0[op.m][i] # NULL /\ pt[op.m][j] = NULL}}

\* get_pte finds the memory full, and copy_range or page_insert returns
\* -E_NO_MEM.  load_icode asserts that this does not happen for the stack, and
\* the trap handler panics when do_pgfault fails.
GetPteFails ==
  /\ Building /\ (NoPd0 \/ NoPt) /\ Full
  /\ PageBack /\ CleanUp
  /\ panic' = (op.at = "fault" \/ (op.at = "insert" /\ op.area.stack))
  /\ UNCHANGED <<state, kstack, mapVars, lost>>

\* page_insert of a page that has no other use, at an address that is free.
Map(f, writable) ==
  /\ pte' = [pte EXCEPT ![op.m][Va] = f]
  /\ page_ref' = [page_ref EXCEPT ![f] = @ + 1]
  /\ w' = IF writable THEN [w EXCEPT ![op.m] = @ \cup {Va}] ELSE w
  /\ UNCHANGED <<cow, share>>

----------------------------------------------------------------------------
(* fork *)

\* kernel_thread: init starts user_main, which has no address space.
KernelThread(c, f) ==
  /\ At("idle") /\ state[c] = "none" /\ Alloc(f)
  /\ op.n < MaxCalls /\ op' = Idle(op.n + 1)
  /\ kstack' = [kstack EXCEPT ![c] = f]
  /\ state' = [state EXCEPT ![c] = "run"]
  /\ UNCHANGED <<mapVars, page_ref, half, lost, panic>>

\* do_fork by a user process: setup_kstack.
Fork(p, c, f) ==
  /\ At("idle") /\ state[p] = "run" /\ pgdir[p] # NULL
  /\ state[c] = "none" /\ Alloc(f)
  /\ kstack' = [kstack EXCEPT ![c] = f]
  /\ state' = [state EXCEPT ![c] = "new"]
  /\ op.n < MaxCalls
  /\ op' = [Call("pgdir", "fork", p, c, {}) EXCEPT !.n = @ + 1]
  /\ UNCHANGED <<mapVars, page_ref, half, lost, panic>>

\* setup_pgdir, in copy_mm and in load_icode.
SetupPgdir(f) ==
  /\ At("pgdir") /\ Alloc(f)
  /\ pgdir' = [pgdir EXCEPT ![op.m] = f]
  /\ op' = IF op.why = "fork" THEN [op EXCEPT !.at = "dup", !.todo = mmap[op.p]]
           ELSE [op EXCEPT !.at = "map", !.todo = op.prog]
  /\ UNCHANGED <<state, kstack, mmap, pd0, pt, pte, bits, page_ref, half, lost, panic>>

\* setup_pgdir finds no memory, or mm_create before it.
SetupPgdirFails ==
  /\ At("pgdir")
  /\ op' = [op EXCEPT !.at = "gone"]
  /\ UNCHANGED <<state, kstack, mapVars, memVars, half, lost, panic>>

\* Faulty variant: copy_range stops at the first page the parent lacks.
Copied_Prefix(a) ==
  {v \in a.lo..(a.hi - 1) : \A u \in a.lo..v : pte[op.p][u] # NULL}

\* The pages copy_range copies: it skips what the parent has not mapped.
Copied(a) ==
  {v \in a.lo..(a.hi - 1) : pt[op.p][PtOf(v)] # NULL /\ pte[op.p][v] # NULL}

\* Faulty variant: the vma is not linked into the child's list.
DupVma_Unlinked(a) ==
  /\ At("dup") /\ a \in op.todo /\ \A b \in op.todo : b.lo <= a.lo
  /\ op' = [op EXCEPT !.at = "copy", !.todo = @ \ {a},
               !.pages = Copied(a)]
  /\ UNCHANGED <<state, kstack, mapVars, memVars, half, lost, panic>>

\* dup_mmap goes through the list from its end; the vma is in the child's list
\* before its pages are copied.
DupVma(a) ==
  /\ At("dup") /\ a \in op.todo /\ \A b \in op.todo : b.lo <= a.lo
  /\ mmap' = [mmap EXCEPT ![op.m] = @ \cup {a}]
  /\ op' = [op EXCEPT !.at = "copy", !.todo = @ \ {a},
               !.pages = Copied(a)]
  /\ UNCHANGED <<state, kstack, pgdir, pd0, pt, pte, bits, memVars, half, lost, panic>>

\* vma_create, or mm_map in load_icode, finds no memory; or load_icode cannot
\* read the file, or the arguments do not fit on the stack.
BuildFails ==
  /\ (At("page") /\ ~op.area.stack) \/ At("map") \/ (At("dup") /\ op.todo # {})
  /\ CleanUp
  /\ UNCHANGED <<state, kstack, mapVars, memVars, lost, panic>>

\* Faulty variant: the parent may still write to the page.
SharePage_ParentWrites ==
  /\ At("copy") /\ Building /\ ~NoPd0 /\ ~NoPt /\ share
  /\ pte' = [pte EXCEPT ![op.m][Va] = pte[op.p][Va]]
  /\ page_ref' = [page_ref EXCEPT ![pte[op.p][Va]] = @ + 1]
  /\ cow' = [cow EXCEPT ![op.m] = @ \cup {Va}]
  /\ op' = [op EXCEPT !.pages = @ \ {Va}]
  /\ UNCHANGED <<state, kstack, mmap, pgdir, pd0, pt, w, share, free, half, lost, panic>>

\* copy_range with share: the child gets the parent's page, and neither of
\* them may write to it.
SharePage ==
  /\ At("copy") /\ Building /\ ~NoPd0 /\ ~NoPt /\ share
  /\ pte' = [pte EXCEPT ![op.m][Va] = pte[op.p][Va]]
  /\ page_ref' = [page_ref EXCEPT ![pte[op.p][Va]] = @ + 1]
  /\ w' = [w EXCEPT ![op.p] = @ \ {Va}]
  /\ cow' = [cow EXCEPT ![op.p] = @ \cup {Va}, ![op.m] = @ \cup {Va}]
  /\ op' = [op EXCEPT !.pages = @ \ {Va}]
  /\ UNCHANGED <<state, kstack, mmap, pgdir, pd0, pt, share, free, half, lost, panic>>

\* ... and without: it gets a copy.
CopyPage(f) ==
  /\ At("copy") /\ Building /\ ~NoPd0 /\ ~NoPt /\ ~share /\ Alloc(f)
  /\ Map(f, Va \in w[op.p])
  /\ op' = [op EXCEPT !.pages = @ \ {Va}]
  /\ UNCHANGED <<state, kstack, mmap, pgdir, pd0, pt, half, lost, panic>>

\* assert(npage != NULL)
CopyPagePanic ==
  /\ At("copy") /\ Building /\ ~NoPd0 /\ ~NoPt /\ ~share /\ Full
  /\ panic' = TRUE
  /\ UNCHANGED <<state, kstack, mapVars, memVars, op, half, lost>>

CopyNext ==
  /\ At("copy") /\ op.pages = {}
  /\ op' = [op EXCEPT !.at = "dup"]
  /\ UNCHANGED <<state, kstack, mapVars, memVars, half, lost, panic>>

\* copy_files succeeds and the child can run.
ForkDone ==
  /\ At("dup") /\ op.todo = {}
  /\ state' = [state EXCEPT ![op.m] = "run"]
  /\ op' = Idle(op.n)
  /\ UNCHANGED <<kstack, mapVars, memVars, half, lost, panic>>

\* copy_files of lab8 fails: bad_fork_cleanup_fs.
ForkFilesFail ==
  /\ At("dup") /\ op.todo = {} /\ ~share
  /\ CleanUp
  /\ UNCHANGED <<state, kstack, mapVars, memVars, lost, panic>>

----------------------------------------------------------------------------
(* exec *)

\* do_execve, after the file has been opened: the old memory goes first.
Exec(p, prog) ==
  /\ At("idle") /\ state[p] = "run"
  /\ op.n < MaxCalls
  /\ op' = IF pgdir[p] = NULL
           THEN [Call("pgdir", "load", p, p, prog) EXCEPT !.n = @ + 1]
           ELSE [Call("unmap", "exec", p, p, prog) EXCEPT !.todo = mmap[p], !.n = @ + 1]
  /\ UNCHANGED <<state, kstack, mapVars, memVars, half, lost, panic>>

\* load_icode: mm_map of the next segment, the stack last.  It refuses one that
\* begins within a vma (find_vma).
MapArea(a) ==
  /\ At("map") /\ a \in op.todo /\ \A b \in op.todo : a.lo <= b.lo
  /\ \A b \in mmap[op.m] : ~(b.lo <= a.lo /\ a.lo < b.hi)
  /\ mmap' = [mmap EXCEPT ![op.m] = @ \cup {a}]
  /\ op' = [op EXCEPT !.at = "page", !.todo = @ \ {a}, !.area = a, !.pages = a.pages]
  /\ UNCHANGED <<state, kstack, pgdir, pd0, pt, pte, bits, memVars, half, lost, panic>>

\* pgdir_alloc_page: the page comes first, then its place in the tables.
LoadPage(f) ==
  /\ At("page") /\ op.pages # {} /\ Alloc(f)
  /\ op' = [op EXCEPT !.at = "insert", !.page = f]
  /\ UNCHANGED <<state, kstack, mapVars, page_ref, half, lost, panic>>

\* No page: load_icode cleans up, or stops at its assertion for the stack.
LoadPageFails ==
  /\ At("page") /\ op.pages # {} /\ Full
  /\ CleanUp
  /\ panic' = op.area.stack
  /\ UNCHANGED <<state, kstack, mapVars, memVars, lost>>

InsertPage ==
  /\ At("insert") /\ Building /\ ~NoPd0 /\ ~NoPt
  /\ Map(op.page, op.area.write)
  /\ op' = [op EXCEPT !.at = "page", !.pages = @ \ {Va}, !.page = NULL]
  /\ UNCHANGED <<state, kstack, mmap, pgdir, pd0, pt, free, half, lost, panic>>

AreaDone ==
  /\ At("page") /\ op.pages = {}
  /\ op' = [op EXCEPT !.at = "map"]
  /\ UNCHANGED <<state, kstack, mapVars, memVars, half, lost, panic>>

ExecDone ==
  /\ At("map") /\ op.todo = {}
  /\ op' = Idle(op.n)
  /\ UNCHANGED <<state, kstack, mapVars, memVars, half, lost, panic>>

----------------------------------------------------------------------------
(* exit_mmap, put_pgdir, mm_destroy *)

Exit(p) ==
  /\ At("idle") /\ state[p] = "run" /\ pgdir[p] # NULL
  /\ op' = [Call("unmap", "exit", p, p, {}) EXCEPT !.todo = mmap[p]]
  /\ UNCHANGED <<state, kstack, mapVars, memVars, half, lost, panic>>

\* The addresses unmap_range goes through for the vmas of m.
Covered(m) == UNION {a.lo..(a.hi - 1) : a \in mmap[m]}

\* unmap_range of every vma: page_remove_pte gives back a page with its last
\* mapping.
UnmapAll ==
  LET m == op.m
      S == {v \in Covered(m) : pt[m][PtOf(v)] # NULL /\ pte[m][v] # NULL}
      Maps(f) == {v \in S : pte[m][v] = f}
      left == [f \in Frames |-> page_ref[f] - Cardinality(Maps(f))] IN
  /\ At("unmap")
  /\ pte' = [pte EXCEPT ![m] = [v \in Vas |-> IF v \in S THEN NULL ELSE @[v]]]
  /\ w' = [w EXCEPT ![m] = @ \ S] /\ cow' = [cow EXCEPT ![m] = @ \ S]
  /\ free' = free \cup {f \in Frames : Maps(f) # {} /\ left[f] = 0}
  /\ page_ref' = left
  /\ op' = [op EXCEPT !.at = "tables"]
  /\ UNCHANGED <<state, kstack, mmap, pgdir, pd0, pt, share, half, lost, panic>>

Empty(m, j) == \A v \in Vas : PtOf(v) = j => pte[m][v] = NULL

\* free_pd0: no entry among those met was missing.  (The loop looks neither at
\* the other entries nor at whether the tables were freed.)
FreesPd0(m, a, i) ==
  /\ pd0[m][i] # NULL /\ Met(a, i) # {}
  /\ \A j \in Met(a, i) : pt[m][j] # NULL

\* exit_range of the next vma.  A page table whose directory is freed under it
\* is lost.
ExitRange(a) ==
  LET m == op.m
      T == {j \in Pts : /\ j \in Met(a, PdOf(j)) /\ pd0[m][PdOf(j)] # NULL
                        /\ pt[m][j] # NULL /\ Empty(m, j)}
      D == {i \in Pds : FreesPd0(m, a, i)}
      L == {j \in Pts \ T : PdOf(j) \in D /\ pt[m][j] # NULL} IN
  /\ At("tables") /\ a \in op.todo /\ \A b \in op.todo : a.lo <= b.lo
  /\ FreePages({pt[m][j] : j \in T} \cup {pd0[m][i] : i \in D})
  /\ lost' = lost \cup {pt[m][j] : j \in L}
  /\ pt' = [pt EXCEPT ![m] = [j \in Pts |-> IF j \in T \cup L THEN NULL ELSE @[j]]]
  /\ pd0' = [pd0 EXCEPT ![m] = [i \in Pds |-> IF i \in D THEN NULL ELSE @[i]]]
  /\ op' = [op EXCEPT !.todo = @ \ {a}]
  /\ UNCHANGED <<state, kstack, mmap, pgdir, pte, bits, half, panic>>

\* put_pgdir and mm_destroy: what the directory still leads to is lost.
PutPgdir ==
  LET m == op.m IN
  /\ At("tables") /\ op.todo = {}
  /\ FreePages({pgdir[m]})
  /\ lost' = lost \cup (({pd0[m][i] : i \in Pds} \cup {pt[m][j] : j \in Pts}
                         \cup {pte[m][v] : v \in Vas}) \ {NULL})
  /\ pgdir' = [pgdir EXCEPT ![m] = NULL]
  /\ pd0' = [pd0 EXCEPT ![m] = [i \in Pds |-> NULL]]
  /\ pt' = [pt EXCEPT ![m] = [j \in Pts |-> NULL]]
  /\ pte' = [pte EXCEPT ![m] = [v \in Vas |-> NULL]]
  /\ w' = [w EXCEPT ![m] = {}] /\ cow' = [cow EXCEPT ![m] = {}]
  /\ mmap' = [mmap EXCEPT ![m] = {}]
  /\ half' = half \cap lost'
  /\ op' = [op EXCEPT !.at = "gone"]
  /\ UNCHANGED <<state, kstack, share, panic>>

\* The end of a fork that failed: put_kstack.
ForkFailed ==
  /\ At("gone") /\ op.why = "fork"
  /\ FreePages({kstack[op.m]})
  /\ kstack' = [kstack EXCEPT ![op.m] = NULL]
  /\ state' = [state EXCEPT ![op.m] = "none"]
  /\ op' = Idle(op.n)
  /\ UNCHANGED <<mapVars, half, lost, panic>>

\* The old memory is gone: load_icode begins.
ExecLoad ==
  /\ At("gone") /\ op.why = "exec"
  /\ op' = Call("pgdir", "load", op.p, op.p, op.prog)
  /\ UNCHANGED <<state, kstack, mapVars, memVars, half, lost, panic>>

\* do_exit, also of a process whose load_icode has failed.
BecomeZombie ==
  /\ At("gone") /\ op.why \in {"load", "exit"}
  /\ state' = [state EXCEPT ![op.p] = "zombie"]
  /\ op' = Idle(op.n)
  /\ UNCHANGED <<kstack, mapVars, memVars, half, lost, panic>>

\* do_wait: put_kstack.
Reap(p) ==
  /\ At("idle") /\ state[p] = "zombie"
  /\ FreePages({kstack[p]})
  /\ kstack' = [kstack EXCEPT ![p] = NULL]
  /\ state' = [state EXCEPT ![p] = "none"]
  /\ UNCHANGED <<mapVars, op, half, lost, panic>>
----------------------------------------------------------------------------
(* Page faults of user programs that stay within their vmas (lab5) *)

Fault(p, v) ==
  /\ At("idle") /\ share /\ state[p] = "run" /\ op.n < MaxCalls
  /\ \E a \in mmap[p] : a.lo <= v /\ v < a.hi

\* A load or a store finds no page: do_pgfault maps a new one.
TouchFault(p, v) ==
  /\ Fault(p, v) /\ pte[p][v] = NULL
  /\ \E a \in mmap[p] :
       /\ a.lo <= v /\ v < a.hi
       /\ op' = [Call("fault", "fault", p, p, {}) EXCEPT
                   !.n = @ + 1, !.area = a, !.pages = {v}]
  /\ UNCHANGED <<state, kstack, mapVars, memVars, half, lost, panic>>

ZeroPage(f) ==
  /\ At("fault") /\ ~NoPd0 /\ ~NoPt /\ Alloc(f)
  /\ Map(f, op.area.write)
  /\ op' = Idle(op.n)
  /\ UNCHANGED <<state, kstack, mmap, pgdir, pd0, pt, half, lost, panic>>

\* A store to a page that is shared: page_insert puts a copy in its place.
WriteFault(p, v, f) ==
  /\ Fault(p, v) /\ v \in cow[p] /\ page_ref[pte[p][v]] > 1 /\ Alloc(f)
  /\ pte' = [pte EXCEPT ![p][v] = f]
  /\ page_ref' = [page_ref EXCEPT ![f] = 1, ![pte[p][v]] = @ - 1]
  /\ w' = [w EXCEPT ![p] = @ \cup {v}] /\ cow' = [cow EXCEPT ![p] = @ \ {v}]
  /\ op' = Idle(op.n + 1)
  /\ UNCHANGED <<state, kstack, mmap, pgdir, pd0, pt, share, half, lost, panic>>

\* A store to a page that is shared no longer: it becomes writable as it is.
LastFault(p, v) ==
  /\ Fault(p, v) /\ v \in cow[p] /\ page_ref[pte[p][v]] = 1
  /\ w' = [w EXCEPT ![p] = @ \cup {v}] /\ cow' = [cow EXCEPT ![p] = @ \ {v}]
  /\ op' = Idle(op.n + 1)
  /\ UNCHANGED <<state, kstack, mmap, pgdir, pd0, pt, pte, share, memVars, half,
                 lost, panic>>

\* The memory is full: the trap handler panics.
FaultPanic ==
  /\ Full
  /\ \/ At("fault") /\ ~NoPd0 /\ ~NoPt
     \/ \E p \in Procs : \E v \in cow[p] : Fault(p, v) /\ page_ref[pte[p][v]] > 1
  /\ panic' = TRUE
  /\ UNCHANGED <<state, kstack, mapVars, memVars, op, half, lost>>

Next ==
  \/ \E f \in Frames : \/ GetPd0(f) \/ GetPt(f) \/ SetupPgdir(f)
                       \/ CopyPage(f) \/ LoadPage(f) \/ ZeroPage(f)
  \/ GetPteFails \/ SetupPgdirFails \/ BuildFails \/ CopyPagePanic
  \/ ForkFilesFail \/ LoadPageFails
  \/ SharePage \/ FaultPanic \/ CopyNext \/ ForkDone \/ InsertPage \/ AreaDone \/ ExecDone
  \/ UnmapAll \/ PutPgdir \/ ForkFailed \/ ExecLoad \/ BecomeZombie
  \/ \E a \in op.todo : DupVma(a) \/ MapArea(a) \/ ExitRange(a)
  \/ \E p \in Procs :
       \/ Exit(p) \/ Reap(p)
       \/ \E v \in Vas : \/ TouchFault(p, v) \/ LastFault(p, v)
                         \/ \E f \in Frames : WriteFault(p, v, f)
       \/ \E prog \in Programs : Exec(p, prog)
       \/ \E f \in Frames : KernelThread(p, f) \/ \E c \in Procs : Fork(p, c, f)

Spec == Init /\ [][Next]_vars

----------------------------------------------------------------------------
(* Properties *)

TypeOK ==
  /\ state \in [Procs -> {"none", "new", "run", "zombie"}]
  /\ kstack \in [Procs -> Frames \cup {NULL}]
  /\ pgdir \in [Procs -> Frames \cup {NULL}]
  /\ pd0 \in [Procs -> [Pds -> Frames \cup {NULL}]]
  /\ pt \in [Procs -> [Pts -> Frames \cup {NULL}]]
  /\ pte \in [Procs -> [Vas -> Frames \cup {NULL}]]
  /\ w \in [Procs -> SUBSET Vas] /\ cow \in [Procs -> SUBSET Vas]
  /\ page_ref \in [Frames -> Nat]
  /\ free \subseteq Frames /\ half \subseteq Frames /\ lost \subseteq Frames
  /\ panic \in BOOLEAN

\* The frames of the page tables, those of pages, and those of stacks, page
\* directories and a page in hand; Places is the number of places that hold a
\* frame which is not a page, Mappings the number of mappings of one that is.
Tables == ({pd0[p][i] : p \in Procs, i \in Pds} \cup {pt[p][j] : p \in Procs, j \in Pts})
          \ {NULL}
Pages == {pte[p][v] : p \in Procs, v \in Vas} \ {NULL}
Others == ({kstack[p] : p \in Procs} \cup {pgdir[p] : p \in Procs} \cup {op.page}) \ {NULL}
Places == Cardinality({p \in Procs : kstack[p] # NULL})
          + Cardinality({p \in Procs : pgdir[p] # NULL})
          + Cardinality({u \in Procs \X Pds : pd0[u[1]][u[2]] # NULL})
          + Cardinality({u \in Procs \X Pts : pt[u[1]][u[2]] # NULL})
          + (IF op.page # NULL THEN 1 ELSE 0)
Mappings(f) == Cardinality({u \in Procs \X Vas : pte[u[1]][u[2]] = f})

\* The frames of the machine: each is free, or lost, or in use for one thing,
\* whatever failed on the way; page_ref counts the mappings of a page and is
\* clear when the frame is free (the assertion of pgdir_alloc_page needs that);
\* only pages are mapped twice, and only where fork shares them.
CountedOK ==
  /\ TypeOK
  /\ \E n \in Sizes : free \cup lost \cup Tables \cup Pages \cup Others = 1..n
  /\ free \cap lost = {} /\ (Tables \cup Others \cup Pages) \cap (free \cup lost) = {}
  /\ Pages \cap (Tables \cup Others) = {}
  /\ Cardinality(Tables \cup Others) = Places
  /\ \A f \in Frames \ lost :
       page_ref[f] = (IF f \in Tables THEN 1 ELSE Mappings(f))
  /\ ~share => \A f \in Pages : Mappings(f) = 1

\* Nothing is lost but the directories of vmas whose page tables were not all
\* there when a call failed; for programs that fit, where the vmas that share a
\* level-0 directory share its page tables, and exec maps a page under each table.
LostOK == lost \subseteq half

\* After any sequence of calls and failures, what is not in use is free again.
FramesOK == CountedOK /\ LostOK

Spans(a) == PtOf(a.lo)..PtOf(a.hi - 1)

Fitting(a, b) ==
  /\ \A i \in Pds : Met(a, i) # {} /\ Met(b, i) # {} => Met(a, i) = Met(b, i)
  /\ \A j \in Spans(a) : \E v \in a.pages : PtOf(v) = j
AllFit(S) == \A a, b \in S : Fitting(a, b)

ProgramsFit == \A prog \in Programs : AllFit(prog)

Mapped(m) == {v \in Vas : pte[m][v] # NULL}

\* What unmap_range and exit_range rely on: a page is mapped inside a vma and
\* under tables that exist, vmas do not overlap, and a process that is not
\* there, or a zombie, holds no memory but its kernel stack.
TreeOK ==
  \A p \in Procs :
    /\ \A v \in Vas : pte[p][v] # NULL => pt[p][PtOf(v)] # NULL
    /\ Mapped(p) \subseteq Covered(p)
    /\ \A j \in Pts : pt[p][j] # NULL => pd0[p][PdOf(j)] # NULL
    /\ (\E i \in Pds : pd0[p][i] # NULL) \/ mmap[p] # {} => pgdir[p] # NULL
    /\ \A a, b \in mmap[p] : a # b => a.hi <= b.lo \/ b.hi <= a.lo
    /\ state[p] \in {"none", "zombie"} => pgdir[p] = NULL
    /\ state[p] = "none" <=> kstack[p] = NULL

\* A fork that succeeds has given the child its parent's vmas and a page for
\* every page of the parent.
CopyOK ==
  op.at = "dup" /\ op.todo = {} =>
    /\ mmap[op.m] = mmap[op.p] /\ Mapped(op.m) = Mapped(op.p)
    /\ share => pte[op.m] = pte[op.p]

\* Copy on write keeps memories apart and usable: a page that somebody can write
\* to is mapped nowhere else, so no process ever sees what another has written
\* since the fork; and a page of a vma that may be written is writable or
\* marked, so that do_pgfault does not refuse the store, also after a fork
\* that failed half-way and after the other side is gone.
CowOK ==
  \A p \in Procs :
    /\ \A v \in w[p] : Mappings(pte[p][v]) = 1
    /\ w[p] \cup cow[p] \subseteq Mapped(p) /\ w[p] \cap cow[p] = {}
    /\ \A a \in mmap[p] : a.write =>
         \A v \in a.lo..(a.hi - 1) : pte[p][v] # NULL => v \in w[p] \cup cow[p]
=============================================================================
