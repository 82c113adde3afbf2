-------------------------------- MODULE Proc --------------------------------
(***************************************************************************)
(* Processes of the lab8 kernel: kern/process/proc.c together with the     *)
(* scheduler core (kern/schedule/sched.c), the round-robin class           *)
(* (default_sched.c), the timer list and the tail of trap() (trap.c).      *)
(*                                                                         *)
(* One CPU, a kernel that is never preempted: `current' runs kernel code   *)
(* up to its next call of schedule().  `pc' is where a process stands in   *)
(* that code.  A clock interrupt is taken in user mode, and in the kernel  *)
(* threads (idle, init, workers), which run with interrupts enabled except *)
(* between local_intr_save and local_intr_restore; system calls run with   *)
(* interrupts off.  The loops the code runs with interrupts off (adopting  *)
(* orphans, expiring timers) take one step per iteration.                  *)
(***************************************************************************)
EXTENDS TimerList, FiniteSets

CONSTANTS
  Procs,          \* the process slots: one proc_struct and one pid each
  idleproc, initproc,
  NULL,           \* the null pointer, and "any child" as the pid of do_wait
  MAX_PROCESS,    \* nr_process may not exceed it
  MaxTimeSlice,   \* MAX_TIME_SLICE
  MaxSleep,       \* bound on the argument of do_sleep
  Workers,        \* kernel threads that init_main starts
  KillTargets     \* the pids that are handed to do_kill

ASSUME ProcAssumption ==
  /\ idleproc \in Procs /\ initproc \in Procs /\ idleproc # initproc
  /\ NULL \notin Procs /\ IsFiniteSet(Procs)
  /\ MAX_PROCESS \in Nat /\ MaxTimeSlice \in Nat \ {0}
  /\ MaxSleep \in Nat /\ Workers \in Nat
  /\ KillTargets \subseteq Procs \ {idleproc}

VARIABLES
  state,          \* proc->state; "UNUSED" when the slot holds no process
  wait_state,     \* proc->wait_state
  parent, cptr, yptr, optr,       \* the family links
  exiting,        \* proc->flags & PF_EXITING
  need_resched, time_slice,
  kthread,        \* runs in kernel mode only, with interrupts enabled
  pc,             \* where in the kernel code the process stands
  wpid,           \* the pid argument of a do_wait in progress
  current, run_list, timer_list, nr_process,
  irq,            \* inside the clock interrupt, expiring timers
  walk, rest,     \* add_timer's loop: the timer it looks at, the ticks to go
  spawned,        \* kernel threads init_main has started
  panicked        \* a panic() has stopped the machine

links == <<parent, cptr, yptr, optr, nr_process>>
sched == <<state, wait_state, need_resched, time_slice, current, run_list>>
clock == <<timer_list, irq, walk, rest>>
self == <<exiting, kthread, wpid>>
boot == <<spawned, panicked>>
vars == <<links, sched, clock, self, boot, pc>>

States == {"UNUSED", "SLEEPING", "RUNNABLE", "ZOMBIE"}
Interruptible == {"WT_CHILD", "WT_TIMER"}      \* wait_state & WT_INTERRUPTED
WaitStates == {"WT_NONE"} \cup Interruptible
Labels == {"none", "idle", "init_spawn", "init_sched", "init_done",
           "thread", "user", "trapret", "wait", "wait_sched", "wait_ret",
           "add_timer", "sleep_sched", "sleep_ret", "do_exit", "adopt",
           "exit_sched"}

Live == {p \in Procs : state[p] # "UNUSED"}

(***************************************************************************)
(* The scheduler.                                                          *)
(***************************************************************************)

\* sched_class_enqueue over RR_enqueue: idleproc is never queued; a used-up
\* slice is refilled.
enqueue(q, p) == IF p = idleproc THEN q ELSE Append(q, p)
refill(ts, p) ==
  IF p # idleproc /\ ts[p] = 0 THEN [ts EXCEPT ![p] = MaxTimeSlice] ELSE ts

\* Faulty variant: current is queued as well.
wakeup_proc_QueuesCurrent(p, st) ==
  IF st[p] # "RUNNABLE"
  THEN /\ state' = [st EXCEPT ![p] = "RUNNABLE"]
       /\ wait_state' = [wait_state EXCEPT ![p] = "WT_NONE"]
       /\ run_list' = enqueue(run_list, p)
       /\ time_slice' = refill(time_slice, p)
  ELSE state' = st /\ UNCHANGED <<wait_state, run_list, time_slice>>

\* wakeup_proc on the process states st.  current itself is not queued: it
\* still has its schedule() call before it.
wakeup_proc(p, st) ==
  IF st[p] # "RUNNABLE"
  THEN /\ state' = [st EXCEPT ![p] = "RUNNABLE"]
       /\ wait_state' = [wait_state EXCEPT ![p] = "WT_NONE"]
       /\ IF p # current
          THEN /\ run_list' = enqueue(run_list, p)
               /\ time_slice' = refill(time_slice, p)
          ELSE UNCHANGED <<run_list, time_slice>>
  ELSE state' = st /\ UNCHANGED <<wait_state, run_list, time_slice>>

\* schedule(): the caller resumes at label k when it is picked again.
schedule(k) ==
  LET runs == state[current] = "RUNNABLE"
      q == IF runs THEN enqueue(run_list, current) ELSE run_list
  IN /\ need_resched' = [need_resched EXCEPT ![current] = FALSE]
     /\ time_slice' = IF runs THEN refill(time_slice, current) ELSE time_slice
     /\ current' = IF q = <<>> THEN idleproc ELSE Head(q)
     /\ run_list' = IF q = <<>> THEN q ELSE Tail(q)
     /\ pc' = [pc EXCEPT ![current] = k]
     /\ UNCHANGED <<state, wait_state>>

\* Faulty variant: the end of a slice does not ask for a reschedule.
proc_tick_NoResched(p) ==
  IF p = idleproc
  THEN /\ need_resched' = [need_resched EXCEPT ![p] = TRUE]
       /\ UNCHANGED time_slice
  ELSE /\ time_slice' = [time_slice EXCEPT ![p] = IF @ > 0 THEN @ - 1 ELSE 0]
       /\ UNCHANGED need_resched

\* RR_proc_tick; idleproc asks for a reschedule on every tick.
proc_tick(p) ==
  LET left == IF time_slice[p] > 0 THEN time_slice[p] - 1 ELSE 0
  IN IF p = idleproc
     THEN /\ need_resched' = [need_resched EXCEPT ![p] = TRUE]
          /\ UNCHANGED time_slice
     ELSE /\ time_slice' = [time_slice EXCEPT ![p] = left]
          /\ need_resched' = IF left = 0
                             THEN [need_resched EXCEPT ![p] = TRUE]
                             ELSE need_resched

(***************************************************************************)
(* The family links.                                                       *)
(***************************************************************************)

\* Faulty variant: the elder sibling does not learn of the new child.
set_links_NoYptr(p, c) ==
  /\ parent' = [parent EXCEPT ![c] = p]
  /\ optr' = [optr EXCEPT ![c] = cptr[p]]
  /\ yptr' = [yptr EXCEPT ![c] = NULL]
  /\ cptr' = [cptr EXCEPT ![p] = c]
  /\ nr_process' = nr_process + 1

\* set_links for a new child c of p; `proc->parent' was set by do_fork.
set_links(p, c) ==
  /\ parent' = [parent EXCEPT ![c] = p]
  /\ optr' = [optr EXCEPT ![c] = cptr[p]]
  /\ yptr' = [q \in Procs |-> IF q = c THEN NULL
                              ELSE IF q = cptr[p] THEN c ELSE yptr[q]]
  /\ cptr' = [cptr EXCEPT ![p] = c]
  /\ nr_process' = nr_process + 1

\* remove_links, with the links of the freed slot cleared.
remove_links(c) ==
  /\ yptr' = [q \in Procs |-> IF q = c THEN NULL
                              ELSE IF q = optr[c] THEN yptr[c] ELSE yptr[q]]
  /\ optr' = [q \in Procs |-> IF q = c THEN NULL
                              ELSE IF q = yptr[c] THEN optr[c] ELSE optr[q]]
  /\ cptr' = IF yptr[c] = NULL
             THEN [cptr EXCEPT ![parent[c]] = optr[c]] ELSE cptr
  /\ parent' = [parent EXCEPT ![c] = NULL]
  /\ nr_process' = nr_process - 1

\* The child that n steps along optr from p->cptr lead to.
KidAt(p, n) ==
  LET kid[i \in 0..n] ==
        IF i = 0 THEN cptr[p]
        ELSE IF kid[i - 1] = NULL THEN NULL ELSE optr[kid[i - 1]]
  IN kid[n]

\* The loop of do_wait(0): the first zombie of the chain.
FirstZombie(p, z) ==
  \E n \in 0..(Cardinality(Procs) - 1) :
    /\ KidAt(p, n) = z /\ z # NULL /\ state[z] = "ZOMBIE"
    /\ \A m \in 0..(n - 1) : state[KidAt(p, m)] # "ZOMBIE"

(***************************************************************************)
(* Init: the state proc_init leaves behind, idleproc entering cpu_idle.    *)
(***************************************************************************)
Init ==
  /\ state = [p \in Procs |->
                IF p \in {idleproc, initproc} THEN "RUNNABLE" ELSE "UNUSED"]
  /\ wait_state = [p \in Procs |-> "WT_NONE"]
  /\ parent = [p \in Procs |-> IF p = initproc THEN idleproc ELSE NULL]
  /\ cptr = [p \in Procs |-> IF p = idleproc THEN initproc ELSE NULL]
  /\ yptr = [p \in Procs |-> NULL] /\ optr = [p \in Procs |-> NULL]
  /\ exiting = [p \in Procs |-> FALSE]
  /\ need_resched = [p \in Procs |-> p = idleproc]
  /\ time_slice = [p \in Procs |-> IF p = initproc THEN MaxTimeSlice ELSE 0]
  /\ kthread = [p \in Procs |-> p \in {idleproc, initproc}]
  /\ pc = [p \in Procs |-> IF p = idleproc THEN "idle"
                           ELSE IF p = initproc THEN "init_spawn" ELSE "none"]
  /\ wpid = [p \in Procs |-> NULL]
  /\ current = idleproc /\ run_list = <<initproc>> /\ timer_list = <<>>
  /\ nr_process = 2 /\ irq = FALSE /\ walk = 0 /\ rest = 0
  /\ spawned = 0 /\ panicked = FALSE

\* current executes at label k.
At(p, k) == ~panicked /\ ~irq /\ current = p /\ pc[p] = k

\* A system call returns to the tail of trap(), a kernel thread's call to
\* the thread.
Back(p) == IF kthread[p] THEN "thread" ELSE "trapret"

Goto(p, k) == pc' = [pc EXCEPT ![p] = k]

(***************************************************************************)
(* Process creation.                                                       *)
(***************************************************************************)

\* do_fork when it succeeds, without the pc of the two processes.
do_fork(p, c, kernel) ==
  /\ nr_process < MAX_PROCESS /\ state[c] = "UNUSED"
  /\ set_links(p, c)
  /\ state' = [state EXCEPT ![c] = "RUNNABLE"]
  /\ run_list' = enqueue(run_list, c)
  /\ time_slice' = refill(time_slice, c)
  /\ wait_state' = [wait_state EXCEPT ![p] = "WT_NONE"]
  /\ kthread' = [kthread EXCEPT ![c] = kernel]
  /\ UNCHANGED <<clock, exiting, need_resched, wpid, current, panicked>>

\* kernel_thread(), called by init_main, which panics when it fails.
Spawn ==
  /\ At(initproc, "init_spawn") /\ spawned < Workers
  /\ \E c \in Procs :
       /\ do_fork(initproc, c, TRUE)
       /\ pc' = [pc EXCEPT ![c] = "thread"]
  /\ spawned' = spawned + 1

SpawnFails ==
  /\ At(initproc, "init_spawn") /\ spawned < Workers
  /\ panicked' = TRUE
  /\ UNCHANGED <<links, sched, clock, self, pc, spawned>>

SpawnDone ==
  /\ At(initproc, "init_spawn") /\ spawned = Workers
  /\ Goto(initproc, "wait")
  /\ UNCHANGED <<links, sched, clock, self, boot>>

\* sys_fork by a user process.
Fork(p) ==
  /\ At(p, "user")
  /\ \E c \in Procs :
       /\ do_fork(p, c, FALSE)
       /\ pc' = [pc EXCEPT ![c] = "user", ![p] = "trapret"]
  /\ UNCHANGED spawned

\* sys_fork with the process table full, or out of memory on the way: every
\* error path undoes what was allocated.  Also any call that only returns.
ForkFails(p) ==
  /\ At(p, "user")
  /\ Goto(p, "trapret")
  /\ wait_state' = [wait_state EXCEPT ![p] = "WT_NONE"]
  /\ UNCHANGED <<links, clock, self, boot, state, need_resched, time_slice,
                 current, run_list>>

\* do_execve by a kernel thread (kernel_execve in user_main): the thread
\* leaves for user mode through __trapret.
Exec(p) ==
  /\ At(p, "thread") /\ p # initproc
  /\ kthread' = [kthread EXCEPT ![p] = FALSE]
  /\ Goto(p, "user")
  /\ UNCHANGED <<links, sched, clock, boot, exiting, wpid>>

(***************************************************************************)
(* Process exit.                                                           *)
(***************************************************************************)

\* sys_exit, the return of a kernel thread's function, and the failures of
\* do_execve past its point of no return all call do_exit.
Exit(p) ==
  /\ At(p, "user") \/ At(p, "thread")
  /\ Goto(p, "do_exit")
  /\ UNCHANGED <<links, sched, clock, self, boot>>

\* Faulty variant: the parent is not woken.
do_exit_NoWakeup(p) ==
  /\ At(p, "do_exit") /\ p \notin {idleproc, initproc}
  /\ state' = [state EXCEPT ![p] = "ZOMBIE"]
  /\ Goto(p, "adopt")
  /\ UNCHANGED <<links, clock, self, boot, wait_state, run_list, time_slice,
                 need_resched, current>>

\* do_exit up to the adoption loop: become a zombie and wake the parent if
\* it waits for a child.
do_exit(p) ==
  /\ At(p, "do_exit") /\ p \notin {idleproc, initproc}
  /\ LET st == [state EXCEPT ![p] = "ZOMBIE"] IN
       IF wait_state[parent[p]] = "WT_CHILD"
       THEN wakeup_proc(parent[p], st)
       ELSE state' = st /\ UNCHANGED <<wait_state, run_list, time_slice>>
  /\ Goto(p, "adopt")
  /\ UNCHANGED <<links, clock, self, boot, need_resched, current>>

InitExits ==
  /\ At(initproc, "do_exit")
  /\ panicked' = TRUE
  /\ UNCHANGED <<links, sched, clock, self, pc, spawned>>

\* Faulty variant: initproc is not told of an orphan that is dead already.
Adopt_NoWakeup(p) ==
  /\ At(p, "adopt") /\ cptr[p] # NULL
  /\ LET c == cptr[p]
         first == cptr[initproc]
     IN /\ cptr' = [cptr EXCEPT ![p] = optr[c], ![initproc] = c]
        /\ yptr' = [q \in Procs |-> IF q = first THEN c
                                    ELSE IF q = c THEN NULL ELSE yptr[q]]
        /\ optr' = [optr EXCEPT ![c] = first]
        /\ parent' = [parent EXCEPT ![c] = initproc]
  /\ UNCHANGED <<clock, self, boot, sched, pc, nr_process>>

\* One iteration of the loop that hands the children to initproc, which is
\* woken if it waits and the child is already a zombie.
Adopt(p) ==
  /\ At(p, "adopt") /\ cptr[p] # NULL
  /\ LET c == cptr[p]
         first == cptr[initproc]
     IN /\ cptr' = [cptr EXCEPT ![p] = optr[c], ![initproc] = c]
        /\ yptr' = [q \in Procs |-> IF q = first THEN c
                                    ELSE IF q = c THEN NULL ELSE yptr[q]]
        /\ optr' = [optr EXCEPT ![c] = first]
        /\ parent' = [parent EXCEPT ![c] = initproc]
        /\ IF state[c] = "ZOMBIE" /\ wait_state[initproc] = "WT_CHILD"
           THEN wakeup_proc(initproc, state)
           ELSE UNCHANGED <<state, wait_state, run_list, time_slice>>
  /\ UNCHANGED <<clock, self, boot, need_resched, current, pc, nr_process>>

AdoptDone(p) ==
  /\ At(p, "adopt") /\ cptr[p] = NULL
  /\ Goto(p, "exit_sched")
  /\ UNCHANGED <<links, sched, clock, self, boot>>

\* The last schedule() of a process; it "will not return".
ExitSched(p) ==
  /\ At(p, "exit_sched")
  /\ schedule("exit_sched")
  /\ UNCHANGED <<links, clock, self, boot>>

(***************************************************************************)
(* do_wait, do_kill, do_yield, do_sleep.                                   *)
(***************************************************************************)

\* sys_wait(pid); pid 0, any child, is NULL here.
Wait(p) ==
  /\ At(p, "user")
  /\ \E pid \in (Procs \ {idleproc}) \cup {NULL} :
       wpid' = [wpid EXCEPT ![p] = pid]
  /\ Goto(p, "wait")
  /\ UNCHANGED <<links, sched, clock, boot, exiting, kthread>>

\* Faulty variant: haskid is set for a dead child only.
haskid_DeadOnly(p) ==
  IF wpid[p] = NULL THEN \E z \in Procs : FirstZombie(p, z)
  ELSE state[wpid[p]] = "ZOMBIE" /\ parent[wpid[p]] = p

haskid(p) == IF wpid[p] = NULL THEN cptr[p] # NULL
             ELSE state[wpid[p]] # "UNUSED" /\ parent[wpid[p]] = p

\* The child that do_wait finds dead.
found(p, z) == IF wpid[p] = NULL THEN FirstZombie(p, z)
               ELSE /\ z = wpid[p] /\ haskid(p) /\ state[z] = "ZOMBIE"

\* Unlink and free the zombie; init_main calls schedule() and waits again.
WaitReap(p) ==
  /\ At(p, "wait")
  /\ \E z \in Procs :
       /\ found(p, z)
       /\ remove_links(z)
       /\ state' = [state EXCEPT ![z] = "UNUSED"]
       /\ exiting' = [exiting EXCEPT ![z] = FALSE]
       /\ need_resched' = [need_resched EXCEPT ![z] = FALSE]
       /\ time_slice' = [time_slice EXCEPT ![z] = 0]
       /\ kthread' = [kthread EXCEPT ![z] = FALSE]
       /\ wpid' = [wpid EXCEPT ![p] = NULL, ![z] = NULL]
       /\ pc' = [pc EXCEPT ![z] = "none",
                  ![p] = IF p = initproc THEN "init_sched" ELSE "trapret"]
  /\ UNCHANGED <<clock, boot, wait_state, current, run_list>>

WaitSleep(p) ==
  /\ At(p, "wait") /\ haskid(p) /\ ~\E z \in Procs : found(p, z)
  /\ state' = [state EXCEPT ![p] = "SLEEPING"]
  /\ wait_state' = [wait_state EXCEPT ![p] = "WT_CHILD"]
  /\ Goto(p, "wait_sched")
  /\ UNCHANGED <<links, clock, self, boot, need_resched, time_slice, current,
                 run_list>>

\* -E_BAD_PROC; init_main takes it as "all user-mode processes have quit".
WaitNoChild(p) ==
  /\ At(p, "wait") /\ ~haskid(p)
  /\ wpid' = [wpid EXCEPT ![p] = NULL]
  /\ Goto(p, IF p = initproc THEN "init_done" ELSE "trapret")
  /\ UNCHANGED <<links, sched, clock, boot, exiting, kthread>>

WaitSched(p) ==
  /\ At(p, "wait_sched")
  /\ schedule("wait_ret")
  /\ UNCHANGED <<links, clock, self, boot>>

\* Faulty variant: PF_EXITING is not looked at after schedule().
WaitRet_IgnoresKill(p) ==
  /\ At(p, "wait_ret")
  /\ Goto(p, "wait")
  /\ UNCHANGED <<links, sched, clock, self, boot>>

\* Back from schedule(): a killed process exits, another looks again.
WaitRet(p) ==
  /\ At(p, "wait_ret")
  /\ Goto(p, IF exiting[p] THEN "do_exit" ELSE "wait")
  /\ UNCHANGED <<links, sched, clock, self, boot>>

\* The loop of init_main around do_wait, and its end: init_main returns and
\* kernel_thread_entry calls do_exit.
InitSched ==
  /\ At(initproc, "init_sched")
  /\ schedule("wait")
  /\ UNCHANGED <<links, clock, self, boot>>

InitDone ==
  /\ At(initproc, "init_done")
  /\ Goto(initproc, "do_exit")
  /\ UNCHANGED <<links, sched, clock, self, boot>>

\* do_kill: flag the process and wake it from an interruptible wait.  A
\* process that is flagged already gets -E_KILLED back and nothing changes.
Kill(p) ==
  /\ At(p, "user")
  /\ \E q \in KillTargets :
       /\ state[q] # "UNUSED"
       /\ exiting' = [exiting EXCEPT ![q] = TRUE]
       /\ IF ~exiting[q] /\ wait_state[q] \in Interruptible
          THEN wakeup_proc(q, state)
          ELSE UNCHANGED <<state, wait_state, run_list, time_slice>>
  /\ Goto(p, "trapret")
  /\ UNCHANGED <<links, clock, boot, need_resched, current, kthread, wpid>>

Yield(p) ==
  /\ At(p, "user")
  /\ need_resched' = [need_resched EXCEPT ![p] = TRUE]
  /\ Goto(p, "trapret")
  /\ UNCHANGED <<links, clock, self, boot, state, wait_state, time_slice,
                 current, run_list>>

\* do_sleep: the timer lives on the kernel stack of the sleeper ...
Sleep(p) ==
  /\ At(p, "user") \/ At(p, "thread")
  /\ \E t \in 1..MaxSleep : rest' = t
  /\ walk' = 1
  /\ state' = [state EXCEPT ![p] = "SLEEPING"]
  /\ wait_state' = [wait_state EXCEPT ![p] = "WT_TIMER"]
  /\ Goto(p, "add_timer")
  /\ UNCHANGED <<links, self, boot, need_resched, time_slice, current,
                 run_list, timer_list, irq>>

\* ... and add_timer walks to its place, one iteration a step.
AddTimerWalk(p) ==
  /\ At(p, "add_timer") /\ PassesBy(timer_list, walk, rest)
  /\ rest' = rest - timer_list[walk].expires
  /\ walk' = walk + 1
  /\ UNCHANGED <<links, sched, self, boot, pc, timer_list, irq>>

AddTimerInsert(p) ==
  /\ At(p, "add_timer") /\ ~PassesBy(timer_list, walk, rest)
  /\ timer_list' = InsertAt(timer_list, walk, p, rest)
  /\ walk' = 0 /\ rest' = 0
  /\ Goto(p, "sleep_sched")
  /\ UNCHANGED <<links, sched, self, boot, irq>>

SleepSched(p) ==
  /\ At(p, "sleep_sched")
  /\ schedule("sleep_ret")
  /\ UNCHANGED <<links, clock, self, boot>>

SleepRet(p) ==
  /\ At(p, "sleep_ret")
  /\ timer_list' = del_timer(timer_list, p)
  /\ Goto(p, Back(p))
  /\ UNCHANGED <<links, sched, self, boot, irq, walk, rest>>

(***************************************************************************)
(* Traps.                                                                  *)
(***************************************************************************)

\* The tail of trap() for a trap from user mode: a killed process exits, one
\* that must be rescheduled is, and then returns to user mode.
TrapExit(p) ==
  /\ At(p, "trapret") /\ exiting[p]
  /\ Goto(p, "do_exit")
  /\ UNCHANGED <<links, sched, clock, self, boot>>

TrapResched(p) ==
  /\ At(p, "trapret") /\ ~exiting[p] /\ need_resched[p]
  /\ schedule("user")
  /\ UNCHANGED <<links, clock, self, boot>>

TrapReturn(p) ==
  /\ At(p, "trapret") /\ ~exiting[p] /\ ~need_resched[p]
  /\ Goto(p, "user")
  /\ UNCHANGED <<links, sched, clock, self, boot>>

\* cpu_idle.
Idle ==
  /\ At(idleproc, "idle") /\ need_resched[idleproc]
  /\ schedule("idle")
  /\ UNCHANGED <<links, clock, self, boot>>

\* SIE is set: user mode, and a kernel thread outside the adoption loop.
IntrOn == ~panicked /\ ~irq /\
  IF kthread[current] THEN pc[current] \notin {"adopt", "add_timer"}
  ELSE pc[current] = "user"

\* The clock interrupt, run_timer_list: decrement the head ...
Tick ==
  /\ IntrOn
  /\ timer_list' = Decrement(timer_list)
  /\ irq' = TRUE
  /\ UNCHANGED <<links, sched, self, boot, pc, walk, rest>>

\* Faulty variant: a timer that has run out is dropped without a wake-up.
Expire_Silent ==
  /\ ~panicked /\ irq /\ HeadExpired(timer_list)
  /\ timer_list' = Tail(timer_list)
  /\ UNCHANGED <<links, sched, self, boot, pc, irq, walk, rest>>

\* ... wake the owner of every timer that has run out ...
Expire ==
  /\ ~panicked /\ irq /\ HeadExpired(timer_list)
  /\ wakeup_proc(Head(timer_list).proc, state)
  /\ timer_list' = Tail(timer_list)
  /\ UNCHANGED <<links, self, boot, need_resched, current, pc, irq, walk, rest>>

\* ... and charge the tick to current.
TickEnd ==
  /\ ~panicked /\ irq /\ ~HeadExpired(timer_list)
  /\ proc_tick(current)
  /\ irq' = FALSE
  /\ Goto(current, IF pc[current] = "user" THEN "trapret" ELSE pc[current])
  /\ UNCHANGED <<links, self, boot, state, wait_state, current, run_list,
                 timer_list, walk, rest>>

\* After panic() the machine stays in the kernel monitor.
Panicked == panicked /\ UNCHANGED vars

UserCall(p) == Fork(p) \/ ForkFails(p) \/ Wait(p) \/ Kill(p) \/ Yield(p)
ThreadCall(p) == Exec(p) \/ Exit(p) \/ Sleep(p)

\* What the kernel does on its own once a process is inside it.
KernelStep(p) ==
  \/ do_exit(p) \/ Adopt(p) \/ AdoptDone(p) \/ ExitSched(p)
  \/ WaitReap(p) \/ WaitSleep(p) \/ WaitNoChild(p)
  \/ WaitSched(p) \/ WaitRet(p)
  \/ AddTimerWalk(p) \/ AddTimerInsert(p) \/ SleepSched(p) \/ SleepRet(p)
  \/ TrapExit(p) \/ TrapResched(p) \/ TrapReturn(p)

InitStep == Spawn \/ SpawnFails \/ SpawnDone \/ InitSched \/ InitDone
            \/ InitExits

Next ==
  \/ \E p \in Procs : UserCall(p) \/ ThreadCall(p) \/ KernelStep(p)
  \/ InitStep \/ Idle \/ Tick \/ Expire \/ TickEnd \/ Panicked

Spec == Init /\ [][Next]_vars

(***************************************************************************)
(* Fairness.  The CPU executes kernel code and the bodies of kernel        *)
(* threads between clock interrupts, the clock never stops and an          *)
(* interrupt that waits for SIE stays pending, and an interrupt handler    *)
(* runs to its end.  Nothing obliges a user program to do anything.        *)
(***************************************************************************)
CodeStep ==
  \/ \E p \in Procs : KernelStep(p) \/ (kthread[p] /\ ThreadCall(p))
  \/ InitStep \/ Idle

FairSpec ==
  /\ Spec
  /\ SF_vars(CodeStep) /\ SF_vars(Tick) /\ WF_vars(Expire \/ TickEnd)

(***************************************************************************)
(* Properties.                                                             *)
(***************************************************************************)

\* Every variable stays in its range.
TypeOK ==
  /\ state \in [Procs -> States]
  /\ wait_state \in [Procs -> WaitStates]
  /\ parent \in [Procs -> Procs \cup {NULL}]
  /\ cptr \in [Procs -> Procs \cup {NULL}]
  /\ yptr \in [Procs -> Procs \cup {NULL}]
  /\ optr \in [Procs -> Procs \cup {NULL}]
  /\ exiting \in [Procs -> BOOLEAN]
  /\ need_resched \in [Procs -> BOOLEAN]
  /\ time_slice \in [Procs -> 0..MaxTimeSlice]
  /\ kthread \in [Procs -> BOOLEAN]
  /\ pc \in [Procs -> Labels]
  /\ wpid \in [Procs -> Procs \cup {NULL}]
  /\ current \in Procs
  /\ run_list \in Seq(Procs)
  /\ timer_list \in Seq([proc : Procs, expires : Nat])
  /\ nr_process \in Int
  /\ walk \in Nat /\ rest \in Nat
  /\ irq \in BOOLEAN /\ spawned \in 0..Workers /\ panicked \in BOOLEAN

In(q, x) == \E i \in 1..Len(q) : q[i] = x
Distinct(q) == \A i, j \in 1..Len(q) : q[i] = q[j] => i = j

\* The run queue holds each process that can run and is not running, once,
\* and nothing else: no zombie, sleeper or freed proc_struct is ever picked,
\* none that can run is forgotten, and RR_enqueue's assertion that run_link
\* is free always holds.
RunQueueOK ==
  /\ Distinct(run_list)
  /\ \A p \in Procs :
       In(run_list, p) <=> /\ state[p] = "RUNNABLE"
                           /\ p # current /\ p # idleproc

\* A process has a wait_state exactly while it sleeps, so the tests of
\* wait_state in do_exit and do_kill never reach wakeup_proc with a zombie
\* (its assertion) or with a process that runs already.
WaitStateOK ==
  \A p \in Procs : (state[p] = "SLEEPING") <=> (wait_state[p] # "WT_NONE")

\* Where a process stands in the kernel agrees with its state: a process
\* sleeps only inside do_wait and do_sleep, is a zombie only past do_exit's
\* point of no return, and only current is between a change of its own
\* state and the schedule() that goes with it.  idleproc never leaves
\* cpu_idle.
InKernelOK(p) ==
  /\ state[p] = "UNUSED" <=> pc[p] = "none"
  /\ state[p] = "ZOMBIE" <=> pc[p] \in {"adopt", "exit_sched"}
  /\ wait_state[p] = "WT_CHILD" => pc[p] \in {"wait_sched", "wait_ret"}
  /\ wait_state[p] = "WT_TIMER" =>
       pc[p] \in {"add_timer", "sleep_sched", "sleep_ret"}
  /\ pc[p] \in {"wait_sched", "add_timer", "sleep_sched", "adopt"} =>
       p = current
  /\ state[p] # "UNUSED" /\ p # idleproc => parent[p] \in Procs

CtrlOK ==
  /\ \A p \in Procs : InKernelOK(p)
  /\ pc[current] \in {"wait_ret", "sleep_ret"} => state[current] = "RUNNABLE"
  /\ pc[current] = "add_timer" =>
       /\ ~irq /\ wait_state[current] = "WT_TIMER"
       /\ walk \in 1..(Len(timer_list) + 1)
       /\ walk = 1 => rest > 0
       /\ ~Armed(timer_list, current)
  /\ pc[idleproc] = "idle"

\* No lost wake-up between do_exit and do_wait: whoever sleeps in do_wait has
\* no dead child that the call would return, orphans it adopted included.
NoLostChild ==
  \A p, z \in Procs :
    /\ wait_state[p] = "WT_CHILD"
    /\ state[z] = "ZOMBIE" /\ parent[z] = p
    => wpid[p] \notin {NULL, z}

\* A timer belongs to a process that is still inside do_sleep, whose stack
\* holds it: never to a zombie, a freed process or one asleep in another
\* wait (the assertions of run_timer_list and wakeup_proc); a process
\* asleep in do_sleep has its timer; the head has time left between ticks.
TimerOK ==
  /\ \A i \in 1..Len(timer_list) :
       LET p == timer_list[i].proc IN
         /\ state[p] \in {"SLEEPING", "RUNNABLE"}
         /\ wait_state[p] \in {"WT_NONE", "WT_TIMER"}
         /\ pc[p] \in {"sleep_sched", "sleep_ret"}
         /\ \A j \in 1..Len(timer_list) : timer_list[j].proc = p => i = j
  /\ \A p \in Procs : wait_state[p] = "WT_TIMER" /\ pc[p] # "add_timer"
                         => Armed(timer_list, p)
  /\ ~irq => ~HeadExpired(timer_list)

\* The run queue, the wait states, the timers and the place of every process
\* in the kernel agree with each other after every step of every process and
\* of the clock.
SchedOK == TypeOK /\ RunQueueOK /\ WaitStateOK /\ CtrlOK /\ TimerOK

\* The chain cptr, optr, optr ... of a process runs through its children,
\* each once, and ends, and yptr runs it backwards (but for the head of a chain
\* that is being given away): what set_links, remove_links and the adoption
\* loop of do_exit must keep between them.  nr_process counts everybody.
Kids(p) == {KidAt(p, n) : n \in 0..(Cardinality(Procs) - 1)} \ {NULL}
ChainsOK ==
  /\ \A p \in Procs :
       /\ Kids(p) = {c \in Live : parent[c] = p}
       /\ KidAt(p, Cardinality(Kids(p))) = NULL
       /\ cptr[p] # NULL /\ pc[p] # "adopt" => yptr[cptr[p]] = NULL
       /\ optr[p] # NULL => yptr[optr[p]] = p
  /\ nr_process = Cardinality(Live)

\* Nobody's parent is freed or dead, the moment of its own adoption loop
\* excepted: do_exit reads current->parent without looking at its state.
ParentOK ==
  \A p \in Live \ {idleproc} :
    /\ parent[p] \in Live
    /\ state[parent[p]] = "ZOMBIE" =>
         current = parent[p] /\ pc[current] = "adopt"

\* The family links of proc_struct agree with each other and with who lives.
FamilyOK == ChainsOK /\ ParentOK

\* The assertions at the end of init_main: when do_wait finds no child left,
\* initproc has no family left and nr_process is 2, so every process ever
\* created was reaped.
InitDoneOK ==
  pc[initproc] = "init_done" =>
    /\ cptr[initproc] = NULL /\ yptr[initproc] = NULL /\ optr[initproc] = NULL
    /\ nr_process = 2 /\ Live = {idleproc, initproc}

\* Round robin starves nobody: a process that can run gets the CPU.
RunnableRuns ==
  \A p \in Procs \ {idleproc} :
    state[p] = "RUNNABLE" ~> current = p \/ panicked

\* A sleeper's timer fires.
SleeperWakes ==
  \A p \in Procs :
    wait_state[p] = "WT_TIMER" ~> wait_state[p] = "WT_NONE" \/ panicked

\* initproc reaps every process that dies as its child, orphans included.
OrphanReaped ==
  \A p \in Procs : state[p] = "ZOMBIE" /\ parent[p] = initproc
                      ~> state[p] = "UNUSED" \/ panicked

\* A process that do_kill woke from an interruptible wait does exit.
KilledSleeperExits ==
  \A p \in Procs \ {initproc} :
    (/\ exiting[p] /\ ~kthread[p] /\ state[p] = "RUNNABLE"
     /\ pc[p] \in {"wait_ret", "sleep_ret"})
      ~> state[p] \in {"ZOMBIE", "UNUSED"} \/ panicked

\* do_sleep keeps its promise: under the mapping that gives each process the
\* sum of the deltas up to its timer, the list surgery of add_timer,
\* del_timer and run_timer_list implements one independent countdown per
\* sleeper.
Sleeping == INSTANCE SleepSpec WITH
  left <- [p \in Procs |-> IF Armed(timer_list, p)
                          THEN Left(timer_list, p) ELSE -1]
SleepRefinement == Sleeping!Spec
=============================================================================
