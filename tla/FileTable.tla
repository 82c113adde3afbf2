----------------------------- MODULE FileTable -----------------------------
(***************************************************************************)
(* The descriptor tables of processes: kern/fs/file.c, kern/fs/fs.c, and   *)
(* what fork, exec and exit (kern/process/proc.c) do with them.            *)
(*                                                                         *)
(* A system call runs with interrupts off, so calls interleave only where  *)
(* one sleeps: in a read of the keyboard (dev_stdin_read), which holds the *)
(* slot of the table it reads through.  Calls that can fail after a part   *)
(* of their work (open, and the open inside exec) take a step per part;    *)
(* `op' is the one in progress.  Calls that only return an error leave     *)
(* everything as it is and are not listed.                                 *)
(*                                                                         *)
(* do_fork takes clone_flags, and with CLONE_FS parent and child share one *)
(* table (copy_files); that sharing is what open_count and FD_CLOSED are   *)
(* for, although sys_fork does not ask for it today (CloneFs).  The        *)
(* working directory of every process is the root, as there is no system   *)
(* call to change it.                                                      *)
(***************************************************************************)
EXTENDS Integers, FiniteSets, Functions

CONSTANTS
  Procs,        \* process slots besides init
  init,         \* initproc, a kernel thread that opens no file
  Tables,       \* the memory for files_structs
  NENTRY,       \* FILES_STRUCT_NENTRY
  Files,        \* inodes of files, in memory while they are referenced
  stdin,        \* the inode of the keyboard
  root,         \* the inode of the root directory
  MaxPos,       \* bound: positions in a file
  MaxLost,      \* bound: references to tables lost by processes that died
  MaxLeaked,    \* bound: references to inodes that vfs_open leaves behind
  CloneFs       \* which values of clone_flags & CLONE_FS fork is called with

NULL == "null"

ASSUME FileTableAssumption ==
  /\ NENTRY \in Nat /\ NENTRY > 2
  /\ init \notin Procs /\ NULL \notin Tables /\ stdin \notin Files /\ root \notin Files /\ stdin # root
  /\ MaxPos \in Nat /\ MaxLost \in Nat /\ MaxLeaked \in Nat /\ CloneFs \subseteq BOOLEAN
  /\ IsFiniteSet(Procs) /\ IsFiniteSet(Tables) /\ IsFiniteSet(Files)

VARIABLES
  state,        \* of each process: "none", "run", "asleep" in a read, "zombie"
  mm,           \* whether it has an address space
  filesp,       \* its table, or NULL
  reading,      \* the slot and the inode of the read it sleeps in
  files_count,  \* of each table; 0: the memory is free
  slot,         \* fd_array of each table
  ref,          \* ref_count of each inode
  open,         \* open_count of each inode
  op,           \* the open or exec in progress
  lost,         \* history: references to a table that nobody can drop any more
  leaked,       \* history: references to an inode that vfs_open did not drop
  panic         \* an assertion has failed

tableVars == <<files_count, slot>>
nodeVars == <<ref, open>>
procVars == <<state, mm, filesp, reading>>
vars == <<state, mm, filesp, reading, files_count, slot, ref, open, op, lost, leaked,
          panic>>

All == Procs \cup {init}
Fds == 0 .. NENTRY - 1
Devs == Files \cup {stdin}            \* what can be opened
Nodes == Devs \cup {root}
Idle == [at |-> "idle"]
NoRead == [fd |-> -1, node |-> NULL]

\* A slot that is free; the code leaves stale fields, which it never reads.
FD_NONE == [status |-> "NONE", node |-> NULL, pos |-> 0, count |-> 0]
FD_INIT == [FD_NONE EXCEPT !.status = "INIT"]
Opened(n, pos) == [status |-> "OPENED", node |-> n, pos |-> pos, count |-> 1]

fd_array_init == [s \in Fds |-> FD_NONE]

\* proc_init and the start of init_main: init has an empty table and the root
\* as working directory; the boot file system and the device list hold the
\* other references.
Init ==
  /\ state = [p \in All |-> IF p = init THEN "run" ELSE "none"]
  /\ mm = [p \in All |-> FALSE]
  /\ reading = [p \in All |-> NoRead]
  /\ \E t \in Tables :
       /\ filesp = [p \in All |-> IF p = init THEN t ELSE NULL]
       /\ files_count = [u \in Tables |-> IF u = t THEN 1 ELSE 0]
  /\ slot = [t \in Tables |-> fd_array_init]
  /\ ref = [n \in Nodes |-> IF n = root THEN 2 ELSE IF n = stdin THEN 1 ELSE 0]
  /\ open = [n \in Nodes |-> 0]
  /\ op = Idle
  /\ lost = [t \in Tables |-> 0]
  /\ leaked = [n \in Nodes |-> 0]
  /\ panic = FALSE

----------------------------------------------------------------------------
(* Slots of a table *)

\* The CPU is free for p, which is not in the middle of anything.
Ready(p) == op = Idle /\ ~panic /\ state[p] = "run"

\* fd2file
IsOpen(t, s) == slot[t][s].status = "OPENED"

\* fd_array_alloc with NO_FD: the lowest slot that is FD_NONE.
LowestFree(t, s) ==
  /\ slot[t][s].status = "NONE"
  /\ \A r \in Fds : slot[t][r].status = "NONE" => s <= r

\* fd_array_alloc asserts that nobody uses the slot it has found.
AllocAssert(t, s) == slot[t][s].count = 0

Members(t, S, n) == Cardinality({s \in S : slot[t][s].node = n})

\* vfs_close of the inodes of slots S.
VfsClose(t, S) ==
  /\ open' = [n \in Nodes |-> open[n] - Members(t, S, n)]
  /\ ref' = [n \in Nodes |-> ref[n] - Members(t, S, n)]

\* The slots among S that a close frees: the others are FD_CLOSED until the
\* last read lets go of them.
Freed(t, S) == {s \in S : IsOpen(t, s) /\ slot[t][s].count = 1}

\* Faulty variant: a slot is freed although a read is using it.
ClosedSlots_Free(t, S) ==
  [s \in Fds |-> IF s \in S /\ IsOpen(t, s) THEN FD_NONE ELSE slot[t][s]]

\* fd_array_close of the slots among S that are open.
ClosedSlots(t, S) ==
  [s \in Fds |->
     IF s \in Freed(t, S) THEN FD_NONE
     ELSE IF s \in S /\ IsOpen(t, s)
          THEN [slot[t][s] EXCEPT !.status = "CLOSED", !.count = @ - 1]
          ELSE slot[t][s]]

----------------------------------------------------------------------------
(* System calls on files *)

\* file_open up to vfs_open: a slot is taken.  `then' is the caller.
OpenAlloc(p, s, then) ==
  LET t == filesp[p] IN
  /\ LowestFree(t, s)
  /\ slot' = [slot EXCEPT ![t][s] = FD_INIT]
  /\ panic' = ~AllocAssert(t, s)
  /\ op' = [at |-> "lookup", p |-> p, fd |-> s, node |-> NULL, then |-> then]
  /\ UNCHANGED <<procVars, files_count, nodeVars, lost, leaked>>

Open(p, s) == Ready(p) /\ mm[p] /\ OpenAlloc(p, s, "return")

\* What file_open does when vfs_open fails: the slot is given back.  The exec
\* that wanted the file goes to do_exit.
OpenFailed ==
  /\ slot' = [slot EXCEPT ![filesp[op.p]][op.fd] = FD_NONE]
  /\ op' = IF op.then = "exec" THEN [op EXCEPT !.at = "exit"] ELSE Idle

\* vfs_lookup finds no such name, or the open flags are wrong.
LookupFails ==
  /\ op.at = "lookup" /\ ~panic
  /\ OpenFailed
  /\ UNCHANGED <<procVars, files_count, nodeVars, lost, leaked, panic>>

\* vfs_lookup: the inode gets a reference.
Lookup(n) ==
  /\ op.at = "lookup" /\ ~panic
  /\ ref' = [ref EXCEPT ![n] = @ + 1]
  /\ op' = [op EXCEPT !.at = "vop_open", !.node = n]
  /\ UNCHANGED <<procVars, tableVars, open, lost, leaked, panic>>

\* vfs_open was to create the file (O_CREAT with O_EXCL) and vfs_lookup has
\* found the name: it returns -E_EXISTS and keeps the reference.  The program of
\* an exec is opened to be read.
OpenExists ==
  /\ op.at = "vop_open" /\ ~panic /\ op.then = "return"
  /\ FoldFunction(+, 0, leaked) < MaxLeaked
  /\ leaked' = [leaked EXCEPT ![op.node] = @ + 1]
  /\ OpenFailed
  /\ UNCHANGED <<procVars, files_count, nodeVars, lost, panic>>

\* vop_open refuses, as a device does when the flags do not fit.
VopOpenFails ==
  /\ op.at = "vop_open" /\ ~panic
  /\ ref' = [ref EXCEPT ![op.node] = @ - 1]
  /\ OpenFailed
  /\ UNCHANGED <<procVars, files_count, open, lost, leaked, panic>>

VopOpen ==
  /\ op.at = "vop_open" /\ ~panic
  /\ open' = [open EXCEPT ![op.node] = @ + 1]
  /\ op' = [op EXCEPT !.at = "opened"]
  /\ UNCHANGED <<procVars, tableVars, ref, lost, leaked, panic>>

\* Faulty variant: the reference of the lookup stays.
OpenLateFails_Ref ==
  /\ op.at = "opened" /\ ~panic
  /\ open' = [open EXCEPT ![op.node] = @ - 1]
  /\ OpenFailed
  /\ UNCHANGED <<procVars, files_count, ref, lost, leaked, panic>>

\* vop_truncate (O_TRUNC, O_CREAT) or vop_fstat (O_APPEND) fails.
OpenLateFails ==
  /\ op.at = "opened" /\ ~panic
  /\ open' = [open EXCEPT ![op.node] = @ - 1]
  /\ ref' = [ref EXCEPT ![op.node] = @ - 1]
  /\ OpenFailed
  /\ UNCHANGED <<procVars, files_count, lost, leaked, panic>>

\* The rest of file_open; O_APPEND starts at the end of the file.
OpenDone(pos) ==
  /\ op.at = "opened" /\ ~panic
  /\ slot' = [slot EXCEPT ![filesp[op.p]][op.fd] = Opened(op.node, pos)]
  /\ op' = IF op.then = "exec" THEN [op EXCEPT !.at = "load"] ELSE Idle
  /\ UNCHANGED <<procVars, files_count, nodeVars, lost, leaked, panic>>

\* file_close
Close(p, s) ==
  LET t == filesp[p] IN
  /\ Ready(p) /\ mm[p] /\ IsOpen(t, s)
  /\ slot' = [slot EXCEPT ![t] = ClosedSlots(t, {s})]
  /\ VfsClose(t, Freed(t, {s}))
  /\ UNCHANGED <<procVars, files_count, op, lost, leaked, panic>>

\* file_dup into a slot that is free: fd_array_dup copies the position too.
Dup(p, s, r) ==
  LET t == filesp[p]
      n == slot[t][s].node IN
  /\ Ready(p) /\ mm[p] /\ IsOpen(t, s)
  /\ slot[t][r].status = "NONE"
  /\ slot' = [slot EXCEPT ![t][r] = Opened(n, slot[t][s].pos)]
  /\ ref' = [ref EXCEPT ![n] = @ + 1]
  /\ open' = [open EXCEPT ![n] = @ + 1]
  /\ panic' = ~AllocAssert(t, r)
  /\ UNCHANGED <<procVars, files_count, op, lost, leaked>>

\* file_seek, and file_read or file_write of a file: fd_array_acquire and
\* fd_array_release around a call that does not sleep.
Move(p, s, pos) ==
  LET t == filesp[p] IN
  /\ Ready(p) /\ mm[p] /\ IsOpen(t, s) /\ slot[t][s].node # stdin
  /\ slot' = [slot EXCEPT ![t][s].pos = pos]
  /\ UNCHANGED <<procVars, files_count, nodeVars, op, lost, leaked, panic>>

\* file_read of the keyboard: the slot is acquired and the process sleeps.
ReadSleep(p, s) ==
  LET t == filesp[p] IN
  /\ Ready(p) /\ mm[p] /\ IsOpen(t, s) /\ slot[t][s].node = stdin
  /\ slot' = [slot EXCEPT ![t][s].count = @ + 1]
  /\ state' = [state EXCEPT ![p] = "asleep"]
  /\ reading' = [reading EXCEPT ![p] = [fd |-> s, node |-> stdin]]
  /\ UNCHANGED <<mm, filesp, files_count, nodeVars, op, lost, leaked, panic>>

\* The slot after fd_array_release: the position moves only if nobody has
\* closed the descriptor meanwhile, and the last one out frees the slot.
Released(f, pos) ==
  IF f.count = 1 THEN FD_NONE
  ELSE [f EXCEPT !.count = @ - 1, !.pos = IF f.status = "OPENED" THEN pos ELSE @]

\* The end of file_read after the sleep.  fd_array_release asserts that the
\* slot is open or closed and in use, fd_array_free that it is closed.
ReadReturn(p, pos) ==
  LET t == filesp[p]
      s == reading[p].fd
      f == slot[t][s] IN
  /\ op = Idle /\ ~panic /\ state[p] = "asleep"
  /\ slot' = [slot EXCEPT ![t][s] = Released(f, pos)]
  /\ IF f.count = 1 THEN VfsClose(t, {s}) ELSE UNCHANGED nodeVars
  /\ panic' = ~(/\ f.status \in {"OPENED", "CLOSED"} /\ f.count > 0
                /\ f.count = 1 => f.status = "CLOSED")
  /\ state' = [state EXCEPT ![p] = "run"]
  /\ reading' = [reading EXCEPT ![p] = NoRead]
  /\ UNCHANGED <<mm, filesp, files_count, op, lost, leaked>>

----------------------------------------------------------------------------
(* fork, exec, exit, wait *)

NewProc(p, c, t) ==
  /\ Ready(p) /\ (mm[p] \/ p = init) /\ state[c] = "none"
  /\ state' = [state EXCEPT ![c] = "run"]
  /\ mm' = [mm EXCEPT ![c] = mm[p]]
  /\ filesp' = [filesp EXCEPT ![c] = t]
  /\ UNCHANGED <<reading, op, lost, leaked, panic>>

\* Faulty variant: files_count_inc is missing.
ForkShare_NoCount(p, c) ==
  /\ TRUE \in CloneFs /\ p # init
  /\ NewProc(p, c, filesp[p])
  /\ UNCHANGED <<tableVars, nodeVars>>

\* copy_files with CLONE_FS.
ForkShare(p, c) ==
  /\ TRUE \in CloneFs /\ p # init
  /\ NewProc(p, c, filesp[p])
  /\ files_count' = [files_count EXCEPT ![filesp[p]] = @ + 1]
  /\ UNCHANGED <<slot, nodeVars>>

\* copy_files: files_create finds memory, dup_files copies the open slots and
\* the working directory.
ForkCopy(p, c, t) ==
  LET from == filesp[p]
      S == {s \in Fds : IsOpen(from, s)} IN
  /\ FALSE \in CloneFs /\ files_count[t] = 0
  /\ NewProc(p, c, t)
  /\ files_count' = [files_count EXCEPT ![t] = 1]
  /\ slot' = [slot EXCEPT ![t] =
       [s \in Fds |-> IF s \in S THEN Opened(slot[from][s].node, slot[from][s].pos)
                      ELSE FD_NONE]]
  /\ open' = [n \in Nodes |-> open[n] + Members(from, S, n)]
  /\ ref' = [n \in Nodes |->
               ref[n] + Members(from, S, n) + (IF n = root THEN 1 ELSE 0)]

\* References to tables that are lost, or will be when a zombie is reaped; bounds
\* how often an exec is tried.
Losing ==
  FoldFunction(+, 0, lost) + Cardinality({p \in All : state[p] = "zombie" /\ filesp[p] # NULL})

\* do_execve: files_closeall spares the first two descriptors.
Exec(p) ==
  LET t == filesp[p] IN
  /\ Ready(p) /\ p # init /\ Losing < MaxLost
  /\ slot' = [slot EXCEPT ![t] = ClosedSlots(t, Fds \ {0, 1})]
  /\ VfsClose(t, Freed(t, Fds \ {0, 1}))
  /\ op' = [at |-> "exec", p |-> p]
  /\ UNCHANGED <<procVars, files_count, lost, leaked, panic>>

\* sysfile_open of the program; without a free slot the exec fails.
ExecOpen(s) == op.at = "exec" /\ ~panic /\ OpenAlloc(op.p, s, "exec")

ExecNoFd ==
  /\ op.at = "exec" /\ ~panic
  /\ \A s \in Fds : ~LowestFree(filesp[op.p], s)
  /\ op' = [at |-> "exit", p |-> op.p]
  /\ UNCHANGED <<procVars, tableVars, nodeVars, lost, leaked, panic>>

\* The old memory is dropped; load_icode reads the program and closes it.
LoadIcode(ok) ==
  LET t == filesp[op.p] IN
  /\ op.at = "load" /\ ~panic
  /\ slot' = [slot EXCEPT ![t] = ClosedSlots(t, {op.fd})]
  /\ VfsClose(t, Freed(t, {op.fd}))
  /\ mm' = [mm EXCEPT ![op.p] = ok]
  /\ op' = IF ok THEN Idle ELSE [at |-> "exit", p |-> op.p]
  /\ UNCHANGED <<state, filesp, reading, files_count, lost, leaked, panic>>

\* put_files: files_count_dec(filesp) == 0
LastUser(t) == files_count[t] = 1

\* put_files; files_destroy closes what is open and asserts that every slot
\* is free then.
PutFiles(t) ==
  /\ files_count' = [files_count EXCEPT ![t] = @ - 1]
  /\ IF LastUser(t)
     THEN LET S == Freed(t, Fds) IN
          /\ slot' = [slot EXCEPT ![t] = fd_array_init]
          /\ open' = [n \in Nodes |-> open[n] - Members(t, S, n)]
          /\ ref' = [n \in Nodes |->
                       ref[n] - Members(t, S, n) - (IF n = root THEN 1 ELSE 0)]
          /\ panic' = \E s \in Fds : ClosedSlots(t, Fds)[s].status # "NONE"
     ELSE UNCHANGED <<slot, nodeVars, panic>>

\* do_exit: put_files is inside `if (mm != NULL)'.  A kernel thread, and a
\* process whose exec failed after its old memory was gone, keep the table.
ExitWith(p) ==
  /\ state' = [state EXCEPT ![p] = "zombie"]
  /\ mm' = [mm EXCEPT ![p] = FALSE]
  /\ IF mm[p] THEN PutFiles(filesp[p]) /\ filesp' = [filesp EXCEPT ![p] = NULL]
     ELSE UNCHANGED <<filesp, tableVars, nodeVars, panic>>
  /\ UNCHANGED <<reading, lost, leaked>>

\* sys_exit, or a kill that takes effect on the way back to user mode.
Exit(p) == Ready(p) /\ mm[p] /\ ExitWith(p) /\ UNCHANGED op

\* The exit of a failed exec.
ExecExit == op.at = "exit" /\ ~panic /\ ExitWith(op.p) /\ op' = Idle

\* do_wait frees the proc_struct, and with it the pointer to the table.
Reap(p) ==
  /\ op = Idle /\ ~panic /\ state[p] = "zombie"
  /\ state' = [state EXCEPT ![p] = "none"]
  /\ filesp' = [filesp EXCEPT ![p] = NULL]
  /\ lost' = IF filesp[p] = NULL THEN lost ELSE [lost EXCEPT ![filesp[p]] = @ + 1]
  /\ UNCHANGED <<mm, reading, tableVars, nodeVars, op, leaked, panic>>

Opening ==
  \/ LookupFails \/ OpenExists \/ VopOpenFails \/ VopOpen \/ OpenLateFails
  \/ \E n \in Devs : Lookup(n)
  \/ \E pos \in {0, MaxPos} : OpenDone(pos)

Execing ==
  \/ ExecNoFd \/ ExecExit
  \/ \E s \in Fds : ExecOpen(s)
  \/ \E ok \in BOOLEAN : LoadIcode(ok)

Call(p) ==
  \/ Exec(p) \/ Exit(p) \/ Reap(p)
  \/ \E s \in Fds :
       \/ Open(p, s) \/ Close(p, s) \/ ReadSleep(p, s)
       \/ \E r \in Fds : Dup(p, s, r)
       \/ \E pos \in 0..MaxPos : Move(p, s, pos)
  \/ \E pos \in 0..MaxPos : ReadReturn(p, pos)
  \/ \E c \in Procs : ForkShare(p, c) \/ \E t \in Tables : ForkCopy(p, c, t)

Next == Opening \/ Execing \/ \E p \in All : Call(p)

Spec == Init /\ [][Next]_vars

----------------------------------------------------------------------------
(* Properties *)

Slot == [status : {"NONE", "INIT", "OPENED", "CLOSED"}, node : Devs \cup {NULL},
         pos : 0..MaxPos, count : Nat]

TypeOK ==
  /\ state \in [All -> {"none", "run", "asleep", "zombie"}]
  /\ mm \in [All -> BOOLEAN]
  /\ filesp \in [All -> Tables \cup {NULL}]
  /\ reading \in [All -> [fd : Fds, node : Devs] \cup {NoRead}]
  /\ files_count \in [Tables -> Nat]
  /\ slot \in [Tables -> [Fds -> Slot]]
  /\ ref \in [Nodes -> Nat] /\ open \in [Nodes -> Nat]
  /\ lost \in [Tables -> Nat] /\ leaked \in [Nodes -> Nat]
  /\ panic \in BOOLEAN

\* The processes asleep in a read through slot s of table t.
Readers(t, s) == {p \in All : filesp[p] = t /\ reading[p].fd = s}

\* The assertions of file.c and fs.c hold, because open_count is one for the
\* descriptor plus one per read in progress.  In particular a slot that was
\* closed under a sleeping reader is neither freed nor handed out again before
\* that reader is done, and still names the inode it reads.
SlotsOK ==
  /\ TypeOK /\ ~panic
  /\ \A t \in Tables, s \in Fds :
       LET f == slot[t][s]
           n == Cardinality(Readers(t, s)) IN
       /\ f.count = n + (IF f.status = "OPENED" THEN 1 ELSE 0)
       /\ f.status \in {"NONE", "INIT"} => n = 0
       /\ f.status = "CLOSED" => n > 0
       /\ f.status = "INIT" <=>
            /\ op.at \in {"lookup", "vop_open", "opened"}
            /\ filesp[op.p] = t /\ op.fd = s
       /\ files_count[t] = 0 => f = FD_NONE
       /\ \A p \in Readers(t, s) : f.node = reading[p].node

\* The slots, of all tables, that hold an inode open.
Holders(n) == {h \in Tables \X Fds : /\ slot[h[1]][h[2]].status \in {"OPENED", "CLOSED"}
                                     /\ slot[h[1]][h[2]].node = n}

\* The counters of an inode equal its holders: open_count the slots and the
\* open in progress, ref_count also the working directories, the device list
\* and the boot file system.  So no inode leaves memory under a descriptor, and
\* the only references without a holder are those vfs_open keeps when it is to
\* create a file that exists (vfsfile.c:46-47), one for each such call: no other
\* error path of open, fork or exec, and no close, loses or drops one too many.
CountsOK ==
  \A n \in Nodes :
    LET held == Cardinality(Holders(n)) IN
    /\ open[n] = held + (IF op.at = "opened" /\ op.node = n THEN 1 ELSE 0)
    /\ ref[n] = held
               + (IF op.at \in {"vop_open", "opened"} /\ op.node = n THEN 1 ELSE 0)
               + (IF n = stdin THEN 1 ELSE 0)
               + (IF n = root THEN 1 + Cardinality({t \in Tables : files_count[t] > 0})
                  ELSE 0)
               + leaked[n]

\* files_count is the number of processes that use the table and of those that
\* died with it; only the exit of a process without an address space loses a
\* table that way.
TablesOK ==
  /\ \A t \in Tables :
       files_count[t] = lost[t] + Cardinality({p \in All : filesp[p] = t})
  /\ \A p \in All : state[p] \in {"run", "asleep"} => filesp[p] # NULL
  /\ \A p \in All : state[p] = "zombie" => ~mm[p]
=============================================================================
