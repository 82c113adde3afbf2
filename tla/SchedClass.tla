----------------------------- MODULE SchedClass -----------------------------
(***************************************************************************)
(* The scheduling classes of lab6 (kern/schedule): round robin, stride,    *)
(* first come first served, shortest job first and round robin by          *)
(* priority, behind schedule() and wakeup_proc().  Stride and shortest job *)
(* first keep the ready processes in a skew heap (libs/skew_heap.h).       *)
(*                                                                         *)
(* A stride is kept as the `pass' it would be without wrapping; the code   *)
(* sees only the remainder, through Diff.  Processes are numbers: pids.    *)
(***************************************************************************)
EXTENDS Strides, Sequences, FiniteSets, SequencesExt

CONSTANTS
  Procs,              \* pids
  Policies,           \* the SCHED_POLICYs the kernel may be built with
  MAX_TIME_SLICE,
  MAX_PRIORITY_SLICE,
  Priorities, Runtimes,
  MaxPass             \* bound: passes

VARIABLES
  policy,
  state,              \* "none", "sleeping" or "runnable"
  current,
  need_resched,       \* of current
  rq,                 \* the run queue
  time_slice,         \* of current: enqueue sets it, the tick counts it down
  lab6_priority, lab6_expected_runtime,
  pass,               \* lab6_stride is its remainder
  mixed,              \* history: see StrideSpec
  panic               \* an assertion of a class has failed

slotVars == <<lab6_priority, lab6_expected_runtime>>
vars == <<policy, state, current, need_resched, rq, time_slice, lab6_priority,
          lab6_expected_runtime, pass, mixed, panic>>

ASSUME SchedAssumption ==
  /\ Procs \subseteq Nat \ {0} /\ IsFiniteSet(Procs)
  /\ Policies \subseteq {"RR", "STRIDE", "FIFO", "SJF", "PRIO_RR"}
  /\ MAX_TIME_SLICE \in Nat \ {0} /\ MAX_PRIORITY_SLICE \in Nat \ {0}
  /\ Priorities \subseteq Nat /\ Runtimes \subseteq Nat \ {0} /\ MaxPass \in Nat

NULL == 0
idle == 0
Nodes == Procs \cup {NULL}
UsesHeap == policy \in {"STRIDE", "SJF"}

Active == {p \in Procs : state[p] = "runnable"}

\* Those that stride scheduling deals with, if there is any.
Striding == IF policy = "STRIDE" THEN Active ELSE {}

Stride == INSTANCE StrideSpec WITH active <- Striding

NoLinks == [p \in Procs |-> NULL]

Init ==
  /\ policy \in Policies
  /\ state = [p \in Procs |-> "none"]
  /\ current = idle /\ need_resched = TRUE
  /\ rq = [run_list |-> <<>>, proc_num |-> 0, in |-> {}, root |-> NULL,
           left |-> NoLinks, right |-> NoLinks, parent |-> NoLinks]
  /\ time_slice = 0
  /\ lab6_priority = [p \in Procs |-> 1]
  /\ lab6_expected_runtime = [p \in Procs |-> MAX_TIME_SLICE]
  /\ pass = [p \in Procs |-> 0]
  /\ mixed = FALSE /\ panic = FALSE

----------------------------------------------------------------------------
(* The skew heap *)

\* comp(a, b) == -1
Less(a, b) ==
  IF policy = "STRIDE" THEN Diff(pass[a], pass[b]) < 0
  ELSE \/ lab6_expected_runtime[a] < lab6_expected_runtime[b]
       \/ lab6_expected_runtime[a] = lab6_expected_runtime[b] /\ a < b

\* Faulty variant: the child does not learn its new parent.
Linked_NoParent(h, a, l, r) ==
  [h EXCEPT !.left[a] = l, !.right[a] = r, !.root = a]

\* a gets its new children; the left one is told.
Linked(h, a, l, r) ==
  [h EXCEPT !.left[a] = l, !.right[a] = r, !.root = a,
            !.parent = IF l = NULL THEN @ ELSE [@ EXCEPT ![l] = a]]

\* One call of skew_heap_merge on the trees at a and b of h; M stands for the
\* calls that it makes.
MergeCall(h, M, a, b) ==
  IF a = NULL THEN [h EXCEPT !.root = b]
  ELSE IF b = NULL THEN [h EXCEPT !.root = a]
  ELSE IF Less(a, b) THEN LET m == M[<<h.right[a], b>>] IN Linked(m, a, m.root, h.left[a])
  ELSE LET m == M[<<a, h.right[b]>>] IN Linked(m, b, m.root, h.left[b])

\* skew_heap_merge: h with the merged tree as its root.
Merge(h, a0, b0) ==
  LET M[x \in Nodes \X Nodes] == MergeCall(h, M, x[1], x[2]) IN M[<<a0, b0>>]

HeapInsert(q, p) ==
  Merge([q EXCEPT !.left[p] = NULL, !.right[p] = NULL, !.parent[p] = NULL], q.root, p)

\* skew_heap_remove.  (The links of p stay as they are in the code; the next
\* skew_heap_insert clears them before anyone looks.)
HeapRemove(q, p) ==
  LET up == q.parent[p]
      m == Merge(q, q.left[p], q.right[p])
      rep == m.root
      m1 == IF rep = NULL THEN m ELSE [m EXCEPT !.parent[rep] = up]
      m2 == [m1 EXCEPT !.left[p] = NULL, !.right[p] = NULL, !.parent[p] = NULL] IN
  IF up = NULL THEN m2
  ELSE IF q.left[up] = p THEN [m2 EXCEPT !.left[up] = rep, !.root = q.root]
       ELSE [m2 EXCEPT !.right[up] = rep, !.root = q.root]

----------------------------------------------------------------------------
(* The classes *)

Min2(x, y) == IF x <= y THEN x ELSE y

\* calc_time_slice
CalcTimeSlice(p) ==
  MAX_TIME_SLICE * Min2(IF lab6_priority[p] = 0 THEN 1 ELSE lab6_priority[p],
                        MAX_PRIORITY_SLICE)

\* The slice that enqueue gives.
Slice(p) == CASE policy = "SJF"     -> lab6_expected_runtime[p]
              [] policy = "PRIO_RR" -> CalcTimeSlice(p)
              [] OTHER              -> MAX_TIME_SLICE

\* list_del_init
Unlinked(list, p) == RemoveAt(list, CHOOSE k \in DOMAIN list : list[k] = p)

\* enqueue and dequeue; each asserts that proc->rq is as it should be.
Enqueue(q, p) ==
  LET q2 == [q EXCEPT !.run_list = Append(@, p), !.in = @ \cup {p}, !.proc_num = @ + 1]
  IN IF UsesHeap THEN HeapInsert(q2, p) ELSE q2

Dequeue(q, p) ==
  LET q2 == [q EXCEPT !.run_list = Unlinked(@, p), !.in = @ \ {p}, !.proc_num = @ - 1]
  IN IF UsesHeap THEN HeapRemove(q2, p) ELSE q2

PickNext(q) ==
  IF UsesHeap THEN q.root ELSE IF q.run_list = <<>> THEN NULL ELSE Head(q.run_list)

\* Faulty variant: the stride of a process grows with its priority.
Step_Times(p) == Min2(BIG_STRIDE, lab6_priority[p]) * 2

\* What running costs: BIG_STRIDE / priority.
Step(p) == BIG_STRIDE \div (IF lab6_priority[p] = 0 THEN 1 ELSE lab6_priority[p])

----------------------------------------------------------------------------
(* sched.c *)

\* schedule(), where st is the new state of the processes and ps their passes:
\* current goes back into the queue if it can run, and the one that is picked
\* comes out.
Schedule(st, ps) ==
  LET again == current # idle /\ st[current] = "runnable"
      q == IF again THEN Enqueue(rq, current) ELSE rq
      p == PickNext(q) IN
  /\ state' = st
  /\ need_resched' = FALSE
  /\ time_slice' = IF p = NULL THEN 0 ELSE Slice(p)
  /\ current' = p
  /\ IF p = NULL THEN rq' = q /\ pass' = ps
     ELSE /\ rq' = Dequeue(q, p)
          /\ pass' = IF policy = "STRIDE" THEN [ps EXCEPT ![p] = @ + Step(p)] ELSE ps
          /\ pass'[p] <= MaxPass
  /\ panic' = ((again /\ current \in rq.in)
               \/ (p # NULL /\ (p \notin q.in \/ q.proc_num = 0)))
  /\ UNCHANGED <<policy, mixed>>

\* The end of trap() and cpu_idle.
Resched == ~panic /\ need_resched /\ Schedule(state, pass) /\ UNCHANGED slotVars

\* A process sleeps: do_wait.
Sleep ==
  /\ ~panic /\ current # idle
  /\ Schedule([state EXCEPT ![current] = "sleeping"], pass)
  /\ UNCHANGED slotVars

\* A process exits; its parent frees it, and alloc_proc will set up the next
\* one that gets the pid.
Exit ==
  /\ ~panic /\ current # idle
  /\ Schedule([state EXCEPT ![current] = "none"], [pass EXCEPT ![current] = 0])
  /\ lab6_priority' = [lab6_priority EXCEPT ![current] = 1]
  /\ lab6_expected_runtime' = [lab6_expected_runtime EXCEPT ![current] = MAX_TIME_SLICE]

\* A process comes into the queue other than by schedule().
Enter(p) ==
  /\ rq' = Enqueue(rq, p)
  /\ panic' = (p \in rq.in)
  /\ state' = [state EXCEPT ![p] = "runnable"]
  /\ mixed' = (mixed \/ (policy = "STRIDE"
                         /\ \E q \in Active : ~Near(pass[p], pass[q])))
  /\ UNCHANGED <<policy, current, need_resched, time_slice, slotVars, pass>>

\* wakeup_proc of a process that sleeps.
Wakeup(p) == ~panic /\ state[p] = "sleeping" /\ Enter(p)

\* do_fork: wakeup_proc queues the child.  Until the first process exists it is
\* idle that forks.
Fork(p) ==
  /\ ~panic /\ state[p] = "none"
  /\ current # idle \/ \A q \in Procs : state[q] = "none"
  /\ Enter(p)

\* sched_class_proc_tick from the clock interrupt: first come first served and
\* shortest job first never take the processor away.
Tick ==
  /\ ~panic
  /\ IF current = idle THEN need_resched' = TRUE /\ UNCHANGED time_slice
     ELSE LET left == IF time_slice > 0 THEN time_slice - 1 ELSE 0 IN
          IF policy \in {"FIFO", "SJF"}
          THEN /\ time_slice' = Slice(current)
               /\ UNCHANGED need_resched
          ELSE /\ time_slice' = IF left = 0 /\ policy = "PRIO_RR" THEN CalcTimeSlice(current)
                                ELSE left
               /\ need_resched' = (need_resched \/ left = 0)
  /\ UNCHANGED <<policy, state, current, rq, slotVars, pass, mixed, panic>>

\* do_yield
Yield ==
  /\ ~panic /\ current # idle /\ need_resched' = TRUE
  /\ UNCHANGED <<policy, state, current, rq, time_slice, slotVars, pass, mixed, panic>>

\* lab6_set_priority and lab6_set_expected_runtime, under the policies that read
\* what they set.
SetPriority(n) ==
  /\ ~panic /\ current # idle /\ policy \in {"STRIDE", "PRIO_RR"}
  /\ lab6_priority' = [lab6_priority EXCEPT ![current] = IF n = 0 THEN 1 ELSE n]
  /\ UNCHANGED <<policy, state, current, need_resched, rq, time_slice,
                 lab6_expected_runtime, pass, mixed, panic>>

SetRuntime(n) ==
  /\ ~panic /\ current # idle /\ policy = "SJF"
  /\ lab6_expected_runtime' =
       [lab6_expected_runtime EXCEPT ![current] = IF n = 0 THEN MAX_TIME_SLICE ELSE n]
  /\ UNCHANGED <<policy, state, current, need_resched, rq, time_slice,
                 lab6_priority, pass, mixed, panic>>

Next ==
  \/ Resched \/ Sleep \/ Exit \/ Tick \/ Yield
  \/ \E p \in Procs : Wakeup(p) \/ Fork(p)
  \/ \E n \in Priorities : SetPriority(n)
  \/ \E n \in Runtimes : SetRuntime(n)

Spec == Init /\ [][Next]_vars

----------------------------------------------------------------------------
(* Properties *)

Ready == Active \ {current}

\* The order that the heap is for, in whole passes.
NotAfter(p, q) ==
  IF policy = "STRIDE" THEN pass[p] <= pass[q] ELSE p = q \/ Less(p, q)

Children(p) == {rq.left[p], rq.right[p]} \ {NULL}

\* The queue holds the processes that can run, but for the current one, once
\* each, and no assertion of a class fails.  The heap of stride and of shortest
\* job first is a tree of the same processes with matching parent links, in the
\* order of their passes although only remainders are compared; so the one
\* picked is the right one, whatever has been merged before.
QueueOK ==
  /\ ~panic
  /\ rq.in = Ready /\ ToSet(rq.run_list) = Ready
  /\ rq.proc_num = Cardinality(Ready) /\ Len(rq.run_list) = rq.proc_num
  /\ current # idle => state[current] = "runnable"
  /\ current # idle /\ policy \notin {"FIFO", "SJF"} =>
       time_slice > 0 \/ need_resched
  /\ UsesHeap =>
       /\ rq.root = NULL <=> Ready = {}
       /\ rq.root # NULL => rq.root \in Ready /\ rq.parent[rq.root] = NULL
       /\ \A p \in Ready :
            /\ Cardinality(Children(p)) = 2 \/ rq.left[p] = NULL \/ rq.right[p] = NULL
            /\ \A c \in Children(p) : c \in Ready /\ rq.parent[c] = p
            /\ p # rq.root => rq.parent[p] \in Ready /\ p \in Children(rq.parent[p])
       /\ ~mixed => \A p \in Ready : NotAfter(rq.root, p)

\* The passes of the processes that can run stay within BIG_STRIDE of each
\* other, so that the sign of the wrapped difference is the right one; until a
\* process is forked or woken up that is farther away (every fork starts at 0).
Spread == Stride!Spread

\* Stride scheduling with W-bit strides does what stride scheduling promises.
StrideRefinement == Stride!SSpec
=============================================================================
