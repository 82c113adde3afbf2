---------------------------- MODULE ProcProofs ----------------------------
EXTENDS Proc, FiniteSetTheorems, WellFoundedInduction, TLAPS

\* Appending what is not there yet keeps a queue free of duplicates.
LEMMA AppendDistinct ==
  ASSUME NEW S, NEW q \in Seq(S), NEW x \in S, Distinct(q), ~In(q, x)
  PROVE  /\ Append(q, x) \in Seq(S)
         /\ Distinct(Append(q, x))
         /\ \A y : In(Append(q, x), y) <=> In(q, y) \/ y = x
<1> DEFINE r == Append(q, x)
<1>1. /\ r \in Seq(S) /\ Len(r) = Len(q) + 1 /\ Len(q) \in Nat
      /\ r[Len(q) + 1] = x /\ \A i \in 1..Len(q) : r[i] = q[i]
  OBVIOUS
<1> HIDE DEF r
<1>2. Distinct(r)
  BY <1>1 DEF Distinct, In
<1>3. ASSUME NEW y PROVE In(r, y) <=> In(q, y) \/ y = x
  BY <1>1 DEF In
<1> QED BY <1>1, <1>2, <1>3 DEF r

\* Taking the head of a queue without duplicates takes it out for good.
LEMMA TailDistinct ==
  ASSUME NEW S, NEW q \in Seq(S), q # <<>>, Distinct(q)
  PROVE  /\ Head(q) \in S /\ In(q, Head(q)) /\ Tail(q) \in Seq(S)
         /\ Distinct(Tail(q))
         /\ \A y : In(Tail(q), y) <=> In(q, y) /\ y # Head(q)
<1> DEFINE r == Tail(q)
<1>1. /\ r \in Seq(S) /\ Len(q) \in Nat /\ Len(q) > 0 /\ Len(r) = Len(q) - 1
      /\ Head(q) = q[1] /\ q[1] \in S
      /\ \A i \in 1..(Len(q) - 1) : r[i] = q[i + 1]
  OBVIOUS
<1> HIDE DEF r
<1>2. Distinct(r)
  BY <1>1 DEF Distinct
<1>3. ASSUME NEW y, In(r, y) PROVE In(q, y) /\ y # Head(q)
  BY <1>1, <1>3 DEF In, Distinct
<1>4. ASSUME NEW y, In(q, y), y # Head(q) PROVE In(r, y)
  <2>1. PICK i \in 1..Len(q) : q[i] = y
    BY <1>4 DEF In
  <2>2. i - 1 \in 1..Len(r) /\ r[i - 1] = y
    BY <1>1, <1>4, <2>1
  <2> QED BY <2>2 DEF In
<1> QED BY <1>1, <1>2, <1>3, <1>4 DEF r, In

-----------------------------------------------------------------------------
\* The inductive invariant.
IInv == TypeOK /\ RunQueueOK /\ WaitStateOK /\ CtrlOK /\ TimerOK

\* RunQueueOK and WaitStateOK of process states st that are about to be.
QueueFor(st) ==
  /\ Distinct(run_list)
  /\ \A p \in Procs :
       In(run_list, p) <=> st[p] = "RUNNABLE" /\ p # current /\ p # idleproc
WaitFor(st) ==
  \A p \in Procs : (st[p] = "SLEEPING") <=> (wait_state[p] # "WT_NONE")

\* wakeup_proc keeps the run queue and the wait states right, and touches no
\* process but the one it wakes.
LEMMA WakeupFacts ==
  ASSUME TypeOK, NEW p \in Procs, NEW st \in [Procs -> States],
         QueueFor(st), WaitFor(st), wakeup_proc(p, st), current' = current
  PROVE  /\ state' \in [Procs -> States]
         /\ wait_state' \in [Procs -> WaitStates]
         /\ run_list' \in Seq(Procs)
         /\ time_slice' \in [Procs -> 0..MaxTimeSlice]
         /\ RunQueueOK' /\ WaitStateOK'
         /\ state'[p] = "RUNNABLE" /\ wait_state'[p] = "WT_NONE"
         /\ \A q \in Procs \ {p} : /\ state'[q] = st[q]
                                   /\ wait_state'[q] = wait_state[q]
<1> USE ProcAssumption
<1>1. CASE st[p] = "RUNNABLE"
  BY <1>1 DEF wakeup_proc, TypeOK, QueueFor, WaitFor, RunQueueOK, WaitStateOK,
              Distinct, In, WaitStates, States
<1>2. CASE st[p] # "RUNNABLE"
  <2>1. /\ state' = [st EXCEPT ![p] = "RUNNABLE"]
        /\ wait_state' = [wait_state EXCEPT ![p] = "WT_NONE"]
        /\ p # current => run_list' = enqueue(run_list, p)
        /\ p # current => time_slice' = refill(time_slice, p)
        /\ p = current => UNCHANGED <<run_list, time_slice>>
    BY <1>2 DEF wakeup_proc
  <2>2. /\ state' \in [Procs -> States]
        /\ wait_state' \in [Procs -> WaitStates]
        /\ time_slice' \in [Procs -> 0..MaxTimeSlice]
        /\ WaitStateOK'
        /\ state'[p] = "RUNNABLE" /\ wait_state'[p] = "WT_NONE"
        /\ \A q \in Procs \ {p} : /\ state'[q] = st[q]
                                  /\ wait_state'[q] = wait_state[q]
    BY SMTT(30), <2>1 DEF TypeOK, States, WaitStates, refill, WaitFor, WaitStateOK
  <2>3. ~In(run_list, p) /\ run_list \in Seq(Procs) /\ Distinct(run_list)
    BY <1>2 DEF QueueFor, TypeOK
  <2>4. run_list' \in Seq(Procs) /\ RunQueueOK'
    <3>1. CASE p # current /\ p # idleproc
      <4>1. run_list' = Append(run_list, p)
        BY <2>1, <3>1 DEF enqueue
      <4>2. /\ run_list' \in Seq(Procs) /\ Distinct(run_list')
            /\ \A y : In(run_list', y) <=> In(run_list, y) \/ y = p
        BY <4>1, <2>3, AppendDistinct
      <4> QED BY <4>2, <2>2, <3>1 DEF QueueFor, RunQueueOK
    <3>2. CASE p = current \/ p = idleproc
      <4>1. run_list' = run_list
        BY <2>1, <3>2 DEF enqueue
      <4> QED BY <4>1, <2>2, <2>3, <3>2 DEF QueueFor, RunQueueOK
    <3> QED BY <3>1, <3>2
  <2> QED BY <2>2, <2>4
<1> QED BY <1>1, <1>2

\* schedule() hands the CPU to the head of the queue, or to idleproc, and
\* puts back the caller if it can go on.
LEMMA ScheduleFacts ==
  ASSUME TypeOK, RunQueueOK, state[idleproc] = "RUNNABLE",
         NEW k \in Labels, schedule(k)
  PROVE  /\ need_resched' \in [Procs -> BOOLEAN]
         /\ time_slice' \in [Procs -> 0..MaxTimeSlice]
         /\ run_list' \in Seq(Procs) /\ RunQueueOK'
         /\ current' \in Procs /\ state'[current'] = "RUNNABLE"
         /\ pc' = [pc EXCEPT ![current] = k]
         /\ UNCHANGED <<state, wait_state>>
<1> USE ProcAssumption
<1> DEFINE runs == state[current] = "RUNNABLE"
           q == IF runs THEN enqueue(run_list, current) ELSE run_list
<1>1. /\ need_resched' = [need_resched EXCEPT ![current] = FALSE]
      /\ time_slice' = IF runs THEN refill(time_slice, current) ELSE time_slice
      /\ current' = IF q = <<>> THEN idleproc ELSE Head(q)
      /\ run_list' = IF q = <<>> THEN q ELSE Tail(q)
      /\ pc' = [pc EXCEPT ![current] = k]
      /\ UNCHANGED <<state, wait_state>>
  BY DEF schedule
<1>2. /\ q \in Seq(Procs) /\ Distinct(q)
      /\ \A p \in Procs : In(q, p) <=> state[p] = "RUNNABLE" /\ p # idleproc
  <2>1. CASE runs /\ current # idleproc
    <3>1. q = Append(run_list, current)
      BY <2>1 DEF enqueue
    <3>2. ~In(run_list, current) /\ current \in Procs
          /\ run_list \in Seq(Procs) /\ Distinct(run_list)
      BY DEF RunQueueOK, TypeOK
    <3>3. /\ Append(run_list, current) \in Seq(Procs)
          /\ Distinct(Append(run_list, current))
          /\ \A y : In(Append(run_list, current), y)
                     <=> In(run_list, y) \/ y = current
      BY <3>2, AppendDistinct
    <3> HIDE DEF q
    <3> QED BY <3>1, <3>3, <2>1 DEF RunQueueOK
  <2>2. CASE ~(runs /\ current # idleproc)
    <3>1. q = run_list
      BY <2>2 DEF enqueue
    <3> QED BY <3>1, <2>2 DEF RunQueueOK, TypeOK
  <2> QED BY <2>1, <2>2
<1>3. /\ need_resched' \in [Procs -> BOOLEAN]
      /\ time_slice' \in [Procs -> 0..MaxTimeSlice]
  BY <1>1 DEF TypeOK, refill
<1> HIDE DEF q, runs
<1>4. /\ run_list' \in Seq(Procs) /\ RunQueueOK'
      /\ current' \in Procs /\ state'[current'] = "RUNNABLE"
  <2>1. CASE q = <<>>
    <3>1. current' = idleproc /\ run_list' = q /\ state' = state
      BY <1>1, <2>1
    <3>2. \A p : ~In(q, p)
      BY <2>1 DEF In
    <3> QED BY <1>2, <3>1, <3>2 DEF RunQueueOK
  <2>2. CASE q # <<>>
    <3>1. current' = Head(q) /\ run_list' = Tail(q) /\ state' = state
      BY <1>1, <2>2
    <3>2. /\ Head(q) \in Procs /\ In(q, Head(q)) /\ Tail(q) \in Seq(Procs)
          /\ Distinct(Tail(q))
          /\ \A y : In(Tail(q), y) <=> In(q, y) /\ y # Head(q)
      BY <1>2, <2>2, TailDistinct
    <3> QED BY <1>2, <3>1, <3>2 DEF RunQueueOK
  <2> QED BY <2>1, <2>2
<1> QED BY <1>1, <1>3, <1>4

-----------------------------------------------------------------------------
(***************************************************************************)
(* The timer list.                                                         *)
(***************************************************************************)
Timers == [proc : Procs, expires : Nat]
OneEach(list) ==
  \A i, j \in 1..Len(list) : list[i].proc = list[j].proc => i = j

\* A function on 1..m is a sequence of length m.
LEMMA FunctionIsSeq ==
  ASSUME NEW T, NEW m \in Nat, NEW f,
         f = [i \in 1..m |-> f[i]], \A i \in 1..m : f[i] \in T
  PROVE  f \in Seq(T) /\ Len(f) = m
<1>1. f \in [1..m -> T]
  OBVIOUS
<1>2. f \in Seq(T)
  BY <1>1
<1>3. DOMAIN f = 1..Len(f) /\ Len(f) \in Nat
  BY <1>2
<1>4. DOMAIN f = 1..m
  BY <1>1
<1> QED BY <1>2, <1>3, <1>4

\* Inserting where add_timer's walk stops arms one timer and no other, and
\* leaves no negative delta.
LEMMA InsertFacts ==
  ASSUME NEW list \in Seq(Timers), OneEach(list), NEW p \in Procs,
         ~Armed(list, p), NEW k \in 1..(Len(list) + 1), NEW e \in Nat,
         ~PassesBy(list, k, e)
  PROVE  /\ InsertAt(list, k, p, e) \in Seq(Timers)
         /\ OneEach(InsertAt(list, k, p, e))
         /\ \A x : Armed(InsertAt(list, k, p, e), x) <=> Armed(list, x) \/ x = p
         /\ ~HeadExpired(list) /\ (k = 1 => e > 0)
              => ~HeadExpired(InsertAt(list, k, p, e))
<1> DEFINE r == InsertAt(list, k, p, e)
           n == Len(list)
<1>1. n \in Nat /\ \A i \in 1..n : list[i] \in Timers
  OBVIOUS
<1>2. /\ \A i \in 1..(n + 1) : i < k => r[i] = list[i]
      /\ r[k] = [proc |-> p, expires |-> e]
      /\ \A i \in 1..(n + 1) : i = k + 1 =>
           r[i] = [proc |-> list[k].proc, expires |-> list[k].expires - e]
      /\ \A i \in 1..(n + 1) : i > k + 1 => r[i] = list[i - 1]
      /\ DOMAIN r = 1..(n + 1)
  BY <1>1 DEF InsertAt, Timer
<1>3. k <= n => list[k].expires - e \in Nat
  BY <1>1 DEF PassesBy, Timers
<1> HIDE DEF r
<1>4. ASSUME NEW i \in 1..(n + 1) PROVE r[i] \in Timers
  <2>1. CASE i < k
    BY <1>1, <1>2, <2>1
  <2>2. CASE i = k
    BY <1>2, <2>2 DEF Timers
  <2>3. CASE i = k + 1
    <3>1. /\ list[k] \in Timers /\ list[k].expires - e \in Nat
          /\ r[i] = [proc |-> list[k].proc, expires |-> list[k].expires - e]
      BY <1>1, <1>2, <1>3, <2>3
    <3> QED BY <3>1 DEF Timers
  <2>4. CASE i > k + 1
    BY <1>1, <1>2, <2>4
  <2> QED BY <1>1, <2>1, <2>2, <2>3, <2>4
<1>5. r = [i \in 1..(n + 1) |-> r[i]]
  BY <1>2 DEF r, InsertAt
<1>6. r \in Seq(Timers) /\ Len(r) = n + 1
  <2>1. n + 1 \in Nat
    BY <1>1
  <2> QED BY <1>4, <1>5, <2>1, FunctionIsSeq
<1>7. /\ \A i \in 1..(n + 1) : i < k => r[i].proc = list[i].proc
      /\ r[k].proc = p
      /\ \A i \in 1..(n + 1) : i > k => r[i].proc = list[i - 1].proc
  BY <1>1, <1>2
<1>8. OneEach(r)
  <2>1. ASSUME NEW i \in 1..(n + 1), NEW j \in 1..(n + 1),
               r[i].proc = r[j].proc, i < j
        PROVE  FALSE
    <3>1. CASE i = k
      <4>1. j - 1 \in 1..n /\ list[j - 1].proc = p
        BY <1>1, <1>7, <2>1, <3>1
      <4> QED BY <4>1 DEF Armed
    <3>2. CASE j = k
      <4>1. i \in 1..n /\ list[i].proc = p
        BY <1>1, <1>7, <2>1, <3>2
      <4> QED BY <4>1 DEF Armed
    <3>3. CASE j < k
      <4>1. i \in 1..n /\ j \in 1..n /\ list[i].proc = list[j].proc
        BY <1>1, <1>7, <2>1, <3>3
      <4> QED BY <4>1, <2>1 DEF OneEach
    <3>4. CASE i < k /\ k < j
      <4>1. i \in 1..n /\ j - 1 \in 1..n /\ list[i].proc = list[j - 1].proc
        BY <1>1, <1>7, <2>1, <3>4
      <4>2. i = j - 1
        BY <4>1 DEF OneEach
      <4> QED BY <1>1, <2>1, <3>4, <4>2
    <3>5. CASE i > k
      <4>1. /\ i - 1 \in 1..n /\ j - 1 \in 1..n
            /\ list[i - 1].proc = list[j - 1].proc
        BY <1>1, <1>7, <2>1, <3>5
      <4>2. i - 1 = j - 1
        BY <4>1 DEF OneEach
      <4> QED BY <2>1, <4>2
    <3> QED BY <1>1, <2>1, <3>1, <3>2, <3>3, <3>4, <3>5
  <2> QED BY <1>1, <1>6, <2>1 DEF OneEach
<1>9. ASSUME NEW x, Armed(r, x) PROVE Armed(list, x) \/ x = p
  <2>1. PICK i \in 1..(n + 1) : r[i].proc = x
    BY <1>6, <1>9 DEF Armed
  <2>2. CASE i < k
    BY <1>1, <1>7, <2>1, <2>2 DEF Armed
  <2>3. CASE i > k
    <3>1. i - 1 \in 1..n /\ list[i - 1].proc = x
      BY <1>1, <1>7, <2>1, <2>3
    <3> QED BY <3>1 DEF Armed
  <2> QED BY <1>1, <1>7, <2>1, <2>2, <2>3
<1>10. ASSUME NEW x, Armed(list, x) PROVE Armed(r, x)
  <2>1. PICK i \in 1..n : list[i].proc = x
    BY <1>10 DEF Armed
  <2>2. CASE i < k
    <3>1. i \in 1..Len(r) /\ r[i].proc = x
      BY <1>1, <1>6, <1>7, <2>1, <2>2
    <3> QED BY <3>1 DEF Armed
  <2>3. CASE i >= k
    <3>1. i + 1 \in 1..Len(r) /\ r[i + 1].proc = x
      BY <1>1, <1>6, <1>7, <2>1, <2>3
    <3> QED BY <3>1 DEF Armed
  <2> QED BY <1>1, <2>2, <2>3
<1>11. Armed(r, p)
  BY <1>1, <1>6, <1>7 DEF Armed
<1>12. ASSUME ~HeadExpired(list), k = 1 => e > 0 PROVE ~HeadExpired(r)
  <2>1. Head(r) = r[1] /\ r # <<>>
    BY <1>1, <1>6
  <2>2. CASE k = 1
    BY <1>2, <1>12, <2>1, <2>2 DEF HeadExpired
  <2>3. CASE k > 1
    <3>1. list # <<>> /\ Head(list) = list[1] /\ r[1] = list[1]
      BY <1>1, <1>2, <2>3
    <3> QED BY <1>12, <2>1, <3>1 DEF HeadExpired
  <2> QED BY <1>1, <2>2, <2>3
<1> QED BY <1>6, <1>8, <1>9, <1>10, <1>11, <1>12 DEF r

\* del_timer disarms one process and no other, and never lets the head run
\* out early.
LEMMA DeleteFacts ==
  ASSUME NEW list \in Seq(Timers), OneEach(list), NEW p \in Procs
  PROVE  /\ del_timer(list, p) \in Seq(Timers)
         /\ OneEach(del_timer(list, p))
         /\ \A x : Armed(del_timer(list, p), x) <=> Armed(list, x) /\ x # p
         /\ ~HeadExpired(list) => ~HeadExpired(del_timer(list, p))
<1>1. CASE ~Armed(list, p)
  BY <1>1 DEF del_timer
<1>2. CASE Armed(list, p)
  <2> DEFINE k == CHOOSE i \in 1..Len(list) : list[i].proc = p
             r == Unlink(list, k)
             n == Len(list)
  <2>1. k \in 1..n /\ list[k].proc = p /\ del_timer(list, p) = r
    BY <1>2 DEF Armed, del_timer
  <2> HIDE DEF k
  <2>0. n \in Nat /\ n >= 1 /\ n = Len(list)
    BY <2>1
  <2>2. n \in Nat /\ n >= 1 /\ k \in 1..n /\ \A i \in 1..n : list[i] \in Timers
    BY <2>0, <2>1
  <2>3. /\ \A i \in 1..(n - 1) : i < k => r[i] = list[i]
        /\ \A i \in 1..(n - 1) : i = k =>
             r[i] = [proc |-> list[k + 1].proc,
                     expires |-> list[k + 1].expires + list[k].expires]
        /\ \A i \in 1..(n - 1) : i > k => r[i] = list[i + 1]
    BY <2>1, <2>2 DEF Unlink, Timer
  <2>4. r = [i \in 1..(n - 1) |-> r[i]]
    BY DEF Unlink
  <2> HIDE DEF r, n
  <2>5. ASSUME NEW i \in 1..(n - 1) PROVE r[i] \in Timers
    <3>1. i \in 1..n /\ i + 1 \in 1..n
      BY <2>0
    <3>2. CASE i = k
      <4>1. /\ list[k + 1] \in Timers /\ list[k] \in Timers
            /\ r[i] = [proc |-> list[k + 1].proc,
                       expires |-> list[k + 1].expires + list[k].expires]
        BY <2>2, <2>3, <3>1, <3>2
      <4> QED BY <4>1 DEF Timers
    <3>3. CASE i # k
      BY <2>2, <2>3, <3>1, <3>3
    <3> QED BY <3>2, <3>3
  <2>6. r \in Seq(Timers) /\ Len(r) = n - 1
    <3>1. n - 1 \in Nat
      BY <2>0
    <3> QED BY <2>4, <2>5, <3>1, FunctionIsSeq
  <2>7. /\ \A i \in 1..(n - 1) : i < k => r[i].proc = list[i].proc
        /\ \A i \in 1..(n - 1) : i >= k => r[i].proc = list[i + 1].proc
    BY <2>1, <2>2, <2>3
  <2>8. OneEach(r)
    <3>1. ASSUME NEW i \in 1..(n - 1), NEW j \in 1..(n - 1),
                 r[i].proc = r[j].proc, i < j
          PROVE  FALSE
      <4>1. CASE j < k
        <5>1. i \in 1..n /\ j \in 1..n /\ list[i].proc = list[j].proc
          BY <2>1, <2>2, <2>7, <3>1, <4>1
        <5> QED BY <2>0, <3>1, <5>1 DEF OneEach
      <4>2. CASE i < k /\ k <= j
        <5>1. i \in 1..n /\ j + 1 \in 1..n /\ list[i].proc = list[j + 1].proc
          BY <2>1, <2>2, <2>7, <3>1, <4>2
        <5>2. i = j + 1
          BY <2>0, <5>1 DEF OneEach
        <5> QED BY <3>1, <5>2
      <4>3. CASE i >= k
        <5>1. /\ i + 1 \in 1..n /\ j + 1 \in 1..n
              /\ list[i + 1].proc = list[j + 1].proc
          BY <2>1, <2>2, <2>7, <3>1, <4>3
        <5>2. i + 1 = j + 1
          BY <2>0, <5>1 DEF OneEach
        <5> QED BY <3>1, <5>2
      <4> QED BY <2>1, <2>2, <3>1, <4>1, <4>2, <4>3
    <3> QED BY <2>2, <2>6, <3>1 DEF OneEach
  <2>9. ASSUME NEW x, Armed(r, x) PROVE Armed(list, x) /\ x # p
    <3>1. PICK i \in 1..(n - 1) : r[i].proc = x
      BY <2>6, <2>9 DEF Armed
    <3>2. CASE i < k
      <4>1. i \in 1..n /\ list[i].proc = x /\ i # k
        BY <2>2, <2>7, <3>1, <3>2
      <4> QED BY <2>0, <2>1, <4>1 DEF Armed, OneEach
    <3>3. CASE i >= k
      <4>1. i + 1 \in 1..n /\ list[i + 1].proc = x /\ i + 1 # k
        BY <2>1, <2>2, <2>7, <3>1, <3>3
      <4> QED BY <2>0, <2>1, <4>1 DEF Armed, OneEach
    <3> QED BY <2>1, <2>2, <3>2, <3>3
  <2>10. ASSUME NEW x, Armed(list, x), x # p PROVE Armed(r, x)
    <3>1. PICK i \in 1..n : list[i].proc = x
      BY <2>0, <2>10 DEF Armed
    <3>2. CASE i < k
      <4>1. i \in 1..Len(r) /\ r[i].proc = x
        BY <2>1, <2>2, <2>6, <2>7, <3>1, <3>2
      <4> QED BY <4>1 DEF Armed
    <3>3. CASE i > k
      <4>1. i - 1 \in 1..Len(r) /\ r[i - 1].proc = x
        BY <2>1, <2>2, <2>6, <2>7, <3>1, <3>3
      <4> QED BY <4>1 DEF Armed
    <3> QED BY <2>1, <2>2, <2>10, <3>1, <3>2, <3>3
  <2>11. ASSUME ~HeadExpired(list) PROVE ~HeadExpired(r)
    <3>1. list # <<>> /\ Head(list) = list[1] /\ list[1].expires # 0
      BY <2>0, <2>11 DEF HeadExpired
    <3>2. CASE n = 1
      BY <2>6, <3>2 DEF HeadExpired
    <3>3. CASE n > 1
      <4>1. r # <<>> /\ Head(r) = r[1]
        BY <2>2, <2>6, <3>3
      <4>2. CASE k = 1
        <5>1. /\ r[1].expires = list[2].expires + list[1].expires
              /\ list[1].expires \in Nat /\ list[2].expires \in Nat
          BY <2>2, <2>3, <3>3, <4>2 DEF Timers
        <5> QED BY <3>1, <4>1, <5>1 DEF HeadExpired
      <4>3. CASE k > 1
        <5>1. r[1] = list[1]
          BY <2>1, <2>2, <2>3, <3>3, <4>3
        <5> QED BY <3>1, <4>1, <5>1 DEF HeadExpired
      <4> QED BY <2>1, <2>2, <4>2, <4>3
    <3>4. n = 1 \/ n > 1
      BY <2>0
    <3> QED BY <3>2, <3>3, <3>4
  <2> QED BY <2>1, <2>6, <2>8, <2>9, <2>10, <2>11
<1> QED BY <1>1, <1>2

\* A tick and an expiry leave the timers of the others armed.
LEMMA TickFacts ==
  ASSUME NEW list \in Seq(Timers), OneEach(list), ~HeadExpired(list)
  PROVE  /\ Decrement(list) \in Seq(Timers)
         /\ OneEach(Decrement(list))
         /\ \A x : Armed(Decrement(list), x) <=> Armed(list, x)
<1>1. CASE list = <<>>
  BY <1>1 DEF Decrement
<1>2. CASE list # <<>>
  <2> DEFINE r == Decrement(list)
  <2>1. /\ Len(list) \in Nat /\ Len(list) > 0 /\ Head(list) = list[1]
        /\ \A i \in 1..Len(list) : list[i] \in Timers
    BY <1>2
  <2>2. /\ r = [list EXCEPT ![1] = [proc |-> list[1].proc,
                                   expires |-> list[1].expires - 1]]
    BY <1>2 DEF Decrement, Timer
  <2>3. list[1].expires - 1 \in Nat
    BY <1>2, <2>1 DEF HeadExpired, Timers
  <2>4. [proc |-> list[1].proc, expires |-> list[1].expires - 1] \in Timers
    BY <2>1, <2>3 DEF Timers
  <2>5. r \in Seq(Timers) /\ Len(r) = Len(list)
    BY <2>1, <2>2, <2>4
  <2>6. \A i \in 1..Len(list) : r[i].proc = list[i].proc
    BY <2>1, <2>2
  <2> HIDE DEF r
  <2> QED BY <2>5, <2>6 DEF OneEach, Armed, r
<1> QED BY <1>1, <1>2

LEMMA ExpireFacts ==
  ASSUME NEW list \in Seq(Timers), OneEach(list), list # <<>>
  PROVE  /\ Tail(list) \in Seq(Timers)
         /\ OneEach(Tail(list))
         /\ Head(list).proc \in Procs
         /\ \A x : Armed(Tail(list), x) <=> Armed(list, x) /\ x # Head(list).proc
<1> DEFINE r == Tail(list)
<1>1. /\ r \in Seq(Timers) /\ Len(list) \in Nat /\ Len(list) > 0
      /\ Len(r) = Len(list) - 1 /\ Head(list) = list[1] /\ list[1] \in Timers
      /\ \A i \in 1..(Len(list) - 1) : r[i] = list[i + 1]
  OBVIOUS
<1> HIDE DEF r
<1>2. OneEach(r)
  <2>1. ASSUME NEW i \in 1..Len(r), NEW j \in 1..Len(r),
               r[i].proc = r[j].proc
        PROVE  i = j
    <3>1. /\ i + 1 \in 1..Len(list) /\ j + 1 \in 1..Len(list)
          /\ list[i + 1].proc = list[j + 1].proc
      BY <1>1, <2>1
    <3>2. i + 1 = j + 1
      BY <3>1 DEF OneEach
    <3> QED BY <3>2
  <2> QED BY <2>1 DEF OneEach
<1>5. Head(list).proc \in Procs
  BY <1>1 DEF Timers
<1>3. ASSUME NEW x, Armed(r, x) PROVE Armed(list, x) /\ x # Head(list).proc
  BY <1>1, <1>3 DEF Armed, OneEach
<1>4. ASSUME NEW x, Armed(list, x), x # Head(list).proc PROVE Armed(r, x)
  <2>1. PICK i \in 1..Len(list) : list[i].proc = x
    BY <1>4 DEF Armed
  <2>2. i - 1 \in 1..Len(r) /\ r[i - 1].proc = x
    BY <1>1, <1>4, <2>1
  <2> QED BY <2>2 DEF Armed
<1> QED BY <1>1, <1>2, <1>3, <1>4, <1>5 DEF r

-----------------------------------------------------------------------------
(***************************************************************************)
(* The steps.                                                              *)
(***************************************************************************)

\* The labels at which a process is in no critical stretch of the kernel.
Plain == {"init_spawn", "init_sched", "init_done", "thread", "user",
          "trapret", "wait", "do_exit"}

\* Whoever stands at such a label can run, waits for nothing and owns no
\* timer.
LEMMA PlainRuns ==
  ASSUME IInv, NEW p \in Procs,
         \/ pc[p] \in Plain \cup {"idle"}
         \/ pc[p] = "wait_ret" /\ p = current
  PROVE  /\ state[p] = "RUNNABLE" /\ wait_state[p] = "WT_NONE"
         /\ ~Armed(timer_list, p)
<1>1. state[p] \in States /\ wait_state[p] \in WaitStates
  BY DEF IInv, TypeOK
<1>2. wait_state[p] = "WT_NONE"
  BY <1>1 DEF IInv, CtrlOK, InKernelOK, WaitStateOK, Plain, WaitStates, Interruptible
<1>3. state[p] = "RUNNABLE"
  BY <1>1, <1>2 DEF IInv, CtrlOK, InKernelOK, Plain, States, WaitStateOK
<1>4. ~Armed(timer_list, p)
  BY DEF IInv, TimerOK, Armed, Plain
<1> QED BY <1>2, <1>3, <1>4

LEMMA IdleRuns ==
  ASSUME IInv
  PROVE  /\ state[idleproc] = "RUNNABLE" /\ wait_state[idleproc] = "WT_NONE"
         /\ pc[idleproc] = "idle" /\ ~Armed(timer_list, idleproc)
BY PlainRuns, ProcAssumption DEF IInv, CtrlOK, InKernelOK

\* TimerOK, said of the owners of the timers and not of their places.
OwnerOK(st, ws, at) ==
  /\ st \in {"SLEEPING", "RUNNABLE"} /\ ws \in {"WT_NONE", "WT_TIMER"}
  /\ at \in {"sleep_sched", "sleep_ret"}

LEMMA OwnersToTimers ==
  ASSUME NEW list \in Seq(Timers), OneEach(list), NEW st, NEW ws, NEW at,
         \A p \in Procs : Armed(list, p) => OwnerOK(st[p], ws[p], at[p])
  PROVE  \A i \in 1..Len(list) :
           LET p == list[i].proc IN
             /\ st[p] \in {"SLEEPING", "RUNNABLE"}
             /\ ws[p] \in {"WT_NONE", "WT_TIMER"}
             /\ at[p] \in {"sleep_sched", "sleep_ret"}
             /\ \A j \in 1..Len(list) : list[j].proc = p => i = j
<1> SUFFICES ASSUME NEW i \in 1..Len(list)
             PROVE  /\ OwnerOK(st[list[i].proc], ws[list[i].proc],
                               at[list[i].proc])
                    /\ \A j \in 1..Len(list) :
                         list[j].proc = list[i].proc => i = j
  BY DEF OwnerOK
<1>1. list[i] \in Timers
  OBVIOUS
<1>2. list[i].proc \in Procs
  BY <1>1 DEF Timers
<1>3. Armed(list, list[i].proc)
  BY DEF Armed
<1> QED BY <1>2, <1>3 DEF OneEach

LEMMA TimersToOwners ==
  ASSUME IInv
  PROVE  /\ timer_list \in Seq(Timers) /\ OneEach(timer_list)
         /\ \A p \in Procs : Armed(timer_list, p) =>
              OwnerOK(state[p], wait_state[p], pc[p])
<1>1. timer_list \in Seq(Timers)
  BY DEF IInv, TypeOK, Timers
<1>2. OneEach(timer_list)
  BY DEF IInv, TimerOK, OneEach
<1>3. ASSUME NEW p \in Procs, Armed(timer_list, p)
      PROVE  OwnerOK(state[p], wait_state[p], pc[p])
  BY <1>3 DEF IInv, TimerOK, Armed, OwnerOK
<1> QED BY <1>1, <1>2, <1>3

\* TimerOK of the next state, from its parts.
LEMMA TimerNext ==
  ASSUME (timer_list \in Seq(Timers))', OneEach(timer_list)',
         \A p \in Procs : Armed(timer_list', p) =>
           OwnerOK(state'[p], wait_state'[p], pc'[p]),
         \A p \in Procs : wait_state'[p] = "WT_TIMER" /\ pc'[p] # "add_timer"
                              => Armed(timer_list', p),
         ~irq' => ~HeadExpired(timer_list')
  PROVE  TimerOK'
<1>1. \A i \in 1..Len(timer_list') :
        LET p == timer_list'[i].proc IN
          /\ state'[p] \in {"SLEEPING", "RUNNABLE"}
          /\ wait_state'[p] \in {"WT_NONE", "WT_TIMER"}
          /\ pc'[p] \in {"sleep_sched", "sleep_ret"}
          /\ \A j \in 1..Len(timer_list') : timer_list'[j].proc = p => i = j
  <2>1. timer_list' \in Seq(Timers) /\ OneEach(timer_list')
    BY DEF OneEach, Timers
  <2> QED BY <2>1, OwnersToTimers
<1> QED BY <1>1 DEF TimerOK

\* A step of current from one such label to another.
LEMMA PlainStep ==
  ASSUME IInv, NEW p \in Procs, NEW k \in Plain,
         pc[p] \in Plain \cup {"wait_ret"},
         p = current, Goto(p, k),
         UNCHANGED <<state, wait_state, parent, current, run_list, clock>>
  PROVE  RunQueueOK' /\ WaitStateOK' /\ CtrlOK' /\ TimerOK'
<1> USE ProcAssumption
<1>1. /\ state[p] = "RUNNABLE" /\ wait_state[p] = "WT_NONE"
      /\ ~Armed(timer_list, p) /\ p # idleproc
  BY PlainRuns, IdleRuns DEF Plain
<1>2. /\ pc'[p] = k /\ \A q \in Procs \ {p} : pc'[q] = pc[q]
  BY DEF Goto, IInv, TypeOK
<1>3. RunQueueOK' /\ WaitStateOK'
  BY DEF IInv, RunQueueOK, WaitStateOK, In, Distinct
<1>4. CtrlOK'
  BY <1>1, <1>2 DEF IInv, CtrlOK, InKernelOK, Plain, clock
<1>5. TimerOK'
  <2>1. timer_list' = timer_list /\ irq' = irq
    BY DEF clock
  <2>2. \A q \in Procs : Armed(timer_list, q) =>
          OwnerOK(state'[q], wait_state'[q], pc'[q])
    BY <1>1, <1>2, TimersToOwners
  <2>3. \A q \in Procs : wait_state'[q] = "WT_TIMER" /\ pc'[q] # "add_timer"
                              => Armed(timer_list, q)
    BY <1>1, <1>2 DEF IInv, TimerOK
  <2>4. ~irq' => ~HeadExpired(timer_list')
    BY <2>1 DEF IInv, TimerOK
  <2>5. (timer_list \in Seq(Timers))' /\ OneEach(timer_list)'
    BY <2>1, TimersToOwners DEF Timers, OneEach
  <2> QED BY <2>1, <2>2, <2>3, <2>4, <2>5, TimerNext
<1> QED BY <1>3, <1>4, <1>5

\* The calls of schedule(): where each caller stands and where it resumes.
SchedPoints == {<<"exit_sched", "exit_sched">>, <<"wait_sched", "wait_ret">>,
                <<"sleep_sched", "sleep_ret">>, <<"init_sched", "wait">>,
                <<"trapret", "user">>, <<"idle", "idle">>}

LEMMA SchedStep ==
  ASSUME IInv, ~irq, NEW k, <<pc[current], k>> \in SchedPoints, schedule(k),
         UNCHANGED <<links, clock, self, boot>>
  PROVE  IInv'
<1> USE ProcAssumption
<1> DEFINE p == current
<1>1. k \in Labels /\ p \in Procs
  BY DEF SchedPoints, Labels, IInv, TypeOK
<1>2. /\ need_resched' \in [Procs -> BOOLEAN]
      /\ time_slice' \in [Procs -> 0..MaxTimeSlice]
      /\ run_list' \in Seq(Procs) /\ RunQueueOK'
      /\ current' \in Procs /\ state'[current'] = "RUNNABLE"
      /\ pc' = [pc EXCEPT ![current] = k]
      /\ UNCHANGED <<state, wait_state>>
  BY <1>1, IdleRuns, ScheduleFacts DEF IInv
<1>3. /\ pc' \in [Procs -> Labels] /\ pc'[p] = k
      /\ \A q \in Procs \ {p} : pc'[q] = pc[q]
  BY <1>1, <1>2 DEF IInv, TypeOK
<1>4. TypeOK'
  BY <1>2, <1>3 DEF IInv, TypeOK, links, clock, self, boot
<1>5. WaitStateOK'
  BY <1>2 DEF IInv, WaitStateOK
<1>6. CtrlOK'
  <2>1. ASSUME NEW q \in Procs
        PROVE  /\ InKernelOK(q)'
               /\ pc'[q] \notin {"wait_sched", "add_timer", "sleep_sched",
                                 "adopt"}
    <3>1. CASE q # p
      BY <1>2, <1>3, <3>1 DEF IInv, CtrlOK, InKernelOK, links
    <3>2. CASE q = p
      BY <1>2, <1>3, <3>2 DEF IInv, CtrlOK, InKernelOK, SchedPoints, links
    <3> QED BY <3>1, <3>2
  <2>2. pc'[idleproc] = "idle"
    BY <1>2, <1>3, IdleRuns DEF SchedPoints
  <2> QED BY <1>2, <2>1, <2>2 DEF CtrlOK, InKernelOK
<1>7. TimerOK'
  <2>1. timer_list' = timer_list /\ irq' = irq
    BY DEF clock
  <2>2. \A q \in Procs : Armed(timer_list, q) =>
          OwnerOK(state'[q], wait_state'[q], pc'[q])
    BY <1>2, <1>3, TimersToOwners DEF SchedPoints, OwnerOK
  <2>3. \A q \in Procs : wait_state'[q] = "WT_TIMER" /\ pc'[q] # "add_timer"
                              => Armed(timer_list, q)
    BY <1>2, <1>3 DEF IInv, TimerOK, SchedPoints
  <2>4. ~irq' => ~HeadExpired(timer_list')
    BY <2>1 DEF IInv, TimerOK
  <2>5. (timer_list \in Seq(Timers))' /\ OneEach(timer_list)'
    BY <2>1, TimersToOwners DEF Timers, OneEach
  <2> QED BY <2>1, <2>2, <2>3, <2>4, <2>5, TimerNext
<1> QED BY <1>2, <1>4, <1>5, <1>6, <1>7 DEF IInv

\* The steps that call schedule().
LEMMA SchedSteps ==
  ASSUME IInv, NEW p \in Procs,
         \/ ExitSched(p) \/ WaitSched(p) \/ SleepSched(p) \/ TrapResched(p)
         \/ InitSched \/ Idle
  PROVE  IInv'
<1>1. CASE ExitSched(p)
  BY <1>1, SchedStep DEF ExitSched, At, SchedPoints
<1>2. CASE WaitSched(p)
  BY <1>2, SchedStep DEF WaitSched, At, SchedPoints
<1>3. CASE SleepSched(p)
  BY <1>3, SchedStep DEF SleepSched, At, SchedPoints
<1>4. CASE TrapResched(p)
  BY <1>4, SchedStep DEF TrapResched, At, SchedPoints
<1>5. CASE InitSched
  BY <1>5, SchedStep DEF InitSched, At, SchedPoints
<1>6. CASE Idle
  BY <1>6, SchedStep DEF Idle, At, SchedPoints
<1> QED BY <1>1, <1>2, <1>3, <1>4, <1>5, <1>6

\* The steps that only move current from one plain label to another.
LEMMA PlainSteps ==
  ASSUME IInv, NEW p \in Procs,
         \/ ForkFails(p) \/ Wait(p) \/ Yield(p) \/ Exec(p) \/ Exit(p)
         \/ WaitNoChild(p) \/ WaitRet(p) \/ TrapExit(p) \/ TrapReturn(p)
         \/ SpawnDone \/ InitDone
  PROVE  IInv'
<1> USE ProcAssumption
<1>1. TypeOK
  BY DEF IInv
<1>2. CASE ForkFails(p)
  <2>1. pc[p] = "user" /\ p = current /\ Goto(p, "trapret")
    BY <1>2 DEF ForkFails, At
  <2>2. wait_state' = wait_state
    BY <1>1, <1>2, <2>1, PlainRuns DEF ForkFails, TypeOK, Plain
  <2>3. RunQueueOK' /\ WaitStateOK' /\ CtrlOK' /\ TimerOK'
    BY <1>2, <2>1, <2>2, PlainStep DEF ForkFails, Plain, links, clock
  <2>4. TypeOK'
    BY <1>1, <1>2, <2>2 DEF ForkFails, TypeOK, Goto, Labels, links, clock,
                            self, boot
  <2> QED BY <2>3, <2>4 DEF IInv
<1>3. CASE Wait(p)
  <2>1. pc[p] = "user" /\ p = current /\ Goto(p, "wait")
    BY <1>3 DEF Wait, At
  <2>2. RunQueueOK' /\ WaitStateOK' /\ CtrlOK' /\ TimerOK'
    BY <1>3, <2>1, PlainStep DEF Wait, Plain, links, sched, clock
  <2>3. TypeOK'
    BY <1>1, <1>3 DEF Wait, TypeOK, Goto, Labels, links, sched, clock, boot
  <2> QED BY <2>2, <2>3 DEF IInv
<1>4. CASE Yield(p)
  <2>1. pc[p] = "user" /\ p = current /\ Goto(p, "trapret")
    BY <1>4 DEF Yield, At
  <2>2. RunQueueOK' /\ WaitStateOK' /\ CtrlOK' /\ TimerOK'
    BY <1>4, <2>1, PlainStep DEF Yield, Plain, links, clock
  <2>3. TypeOK'
    BY <1>1, <1>4 DEF Yield, TypeOK, Goto, Labels, links, clock, self, boot
  <2> QED BY <2>2, <2>3 DEF IInv
<1>5. CASE Exec(p)
  <2>1. pc[p] = "thread" /\ p = current /\ Goto(p, "user")
    BY <1>5 DEF Exec, At
  <2>2. RunQueueOK' /\ WaitStateOK' /\ CtrlOK' /\ TimerOK'
    BY <1>5, <2>1, PlainStep DEF Exec, Plain, links, sched, clock
  <2>3. TypeOK'
    BY <1>1, <1>5 DEF Exec, TypeOK, Goto, Labels, links, sched, clock, boot
  <2> QED BY <2>2, <2>3 DEF IInv
<1>6. CASE Exit(p)
  <2>1. pc[p] \in {"user", "thread"} /\ p = current /\ Goto(p, "do_exit")
    BY <1>6 DEF Exit, At
  <2>2. RunQueueOK' /\ WaitStateOK' /\ CtrlOK' /\ TimerOK'
    BY <1>6, <2>1, PlainStep DEF Exit, Plain, links, sched, clock
  <2>3. TypeOK'
    BY <1>1, <1>6 DEF Exit, TypeOK, Goto, Labels, links, sched, clock, self,
                      boot
  <2> QED BY <2>2, <2>3 DEF IInv
<1>7. CASE WaitNoChild(p)
  <2>1. PICK k \in {"init_done", "trapret"} : Goto(p, k)
    BY <1>7 DEF WaitNoChild
  <2>2. pc[p] = "wait" /\ p = current
    BY <1>7 DEF WaitNoChild, At
  <2>3. RunQueueOK' /\ WaitStateOK' /\ CtrlOK' /\ TimerOK'
    BY <1>7, <2>1, <2>2, PlainStep DEF WaitNoChild, Plain, links, sched, clock
  <2>4. TypeOK'
    BY <1>1, <1>7, <2>1 DEF WaitNoChild, TypeOK, Goto, Labels, links, sched,
                            clock, boot
  <2> QED BY <2>3, <2>4 DEF IInv
<1>8. CASE TrapExit(p) \/ TrapReturn(p)
  <2>1. PICK k \in {"do_exit", "user"} : Goto(p, k)
    BY <1>8 DEF TrapExit, TrapReturn
  <2>2. pc[p] = "trapret" /\ p = current
    BY <1>8 DEF TrapExit, TrapReturn, At
  <2>3. RunQueueOK' /\ WaitStateOK' /\ CtrlOK' /\ TimerOK'
    BY <1>8, <2>1, <2>2, PlainStep DEF TrapExit, TrapReturn, Plain, links,
                                       sched, clock
  <2>4. TypeOK'
    BY <1>1, <1>8, <2>1 DEF TrapExit, TrapReturn, TypeOK, Goto, Labels, links,
                            sched, clock, self, boot
  <2> QED BY <2>3, <2>4 DEF IInv
<1>9. CASE SpawnDone \/ InitDone
  <2>1. PICK k \in {"wait", "do_exit"} : Goto(initproc, k)
    BY <1>9 DEF SpawnDone, InitDone
  <2>2. pc[initproc] \in {"init_spawn", "init_done"} /\ initproc = current
    BY <1>9 DEF SpawnDone, InitDone, At
  <2>3. RunQueueOK' /\ WaitStateOK' /\ CtrlOK' /\ TimerOK'
    BY <1>9, <2>1, <2>2, PlainStep DEF SpawnDone, InitDone, Plain, links,
                                       sched, clock
  <2>4. TypeOK'
    BY <1>1, <1>9, <2>1 DEF SpawnDone, InitDone, TypeOK, Goto, Labels, links,
                            sched, clock, self, boot
  <2> QED BY <2>3, <2>4 DEF IInv
<1>10. CASE WaitRet(p)
  <2>1. PICK k \in {"do_exit", "wait"} : Goto(p, k)
    BY <1>10 DEF WaitRet
  <2>2. pc[p] = "wait_ret" /\ p = current
    BY <1>10 DEF WaitRet, At
  <2>3. RunQueueOK' /\ WaitStateOK' /\ CtrlOK' /\ TimerOK'
    BY <1>10, <2>1, <2>2, PlainStep DEF WaitRet, Plain, links, sched, clock
  <2>4. TypeOK'
    BY <1>1, <1>10, <2>1 DEF WaitRet, TypeOK, Goto, Labels, links, sched,
                             clock, self, boot
  <2> QED BY <2>3, <2>4 DEF IInv
<1> QED BY <1>2, <1>3, <1>4, <1>5, <1>6, <1>7, <1>8, <1>9, <1>10

\* A step that leaves all this alone: a panic, or nothing.
LEMMA IdleSteps ==
  ASSUME IInv, SpawnFails \/ InitExits \/ UNCHANGED vars
  PROVE  IInv'
<1>1. /\ UNCHANGED <<links, sched, clock, self, pc, spawned>>
      /\ panicked' \in BOOLEAN
  BY DEF SpawnFails, InitExits, vars, boot, IInv, TypeOK
<1>2. TypeOK'
  BY <1>1 DEF IInv, TypeOK, links, sched, clock, self
<1>3. RunQueueOK' /\ WaitStateOK'
  BY <1>1 DEF IInv, RunQueueOK, WaitStateOK, In, Distinct, sched
<1>4. CtrlOK'
  BY <1>1 DEF IInv, CtrlOK, InKernelOK, links, sched, clock
<1>5. TimerOK'
  BY <1>1 DEF IInv, TimerOK, sched, clock
<1> QED BY <1>2, <1>3, <1>4, <1>5 DEF IInv

\* do_fork makes a process that is in the queue, and nothing else.
LEMMA ForkSteps ==
  ASSUME IInv, NEW p \in Procs, Spawn \/ Fork(p)
  PROVE  IInv'
<1> USE ProcAssumption
<1>1. PICK m \in Procs, c \in Procs, b \in BOOLEAN, k \in Plain,
           kc \in {"thread", "user"} :
        /\ do_fork(m, c, b) /\ current = m /\ pc[m] \in Plain /\ ~irq
        /\ pc' = [pc EXCEPT ![c] = kc, ![m] = k]
        /\ spawned' \in 0..Workers
  <2>1. CASE Spawn
    <3>1. PICK c \in Procs : /\ do_fork(initproc, c, TRUE)
                             /\ pc' = [pc EXCEPT ![c] = "thread"]
      BY <2>1 DEF Spawn
    <3>2. /\ current = initproc /\ pc[initproc] = "init_spawn" /\ ~irq
          /\ spawned' \in 0..Workers
      BY <2>1 DEF Spawn, At, IInv, TypeOK
    <3>3. state[initproc] # "UNUSED"
      BY <3>2, PlainRuns DEF Plain
    <3>4. c # initproc
      BY <3>1, <3>3 DEF do_fork
    <3>5. pc' = [pc EXCEPT ![c] = "thread", ![initproc] = "init_spawn"]
      BY <3>1, <3>2, <3>4 DEF IInv, TypeOK
    <3> QED BY <3>1, <3>2, <3>5 DEF Plain
  <2>2. CASE Fork(p)
    BY <2>2 DEF Fork, At, Plain, IInv, TypeOK
  <2> QED BY <2>1, <2>2
<1>2. /\ state[c] = "UNUSED" /\ set_links(m, c)
      /\ state' = [state EXCEPT ![c] = "RUNNABLE"]
      /\ run_list' = enqueue(run_list, c)
      /\ time_slice' = refill(time_slice, c)
      /\ wait_state' = [wait_state EXCEPT ![m] = "WT_NONE"]
      /\ kthread' = [kthread EXCEPT ![c] = b]
      /\ UNCHANGED <<clock, exiting, need_resched, wpid, current, panicked>>
  BY <1>1 DEF do_fork
<1>3. /\ state[m] = "RUNNABLE" /\ wait_state[m] = "WT_NONE"
      /\ m # c /\ m # idleproc /\ c # idleproc
      /\ ~Armed(timer_list, m)
  BY <1>1, <1>2, PlainRuns, IdleRuns DEF Plain
<1>4. wait_state' = wait_state /\ wait_state[c] = "WT_NONE"
  BY <1>2, <1>3 DEF IInv, TypeOK, WaitStateOK
<1>5. /\ run_list' \in Seq(Procs) /\ Distinct(run_list')
      /\ \A y : In(run_list', y) <=> In(run_list, y) \/ y = c
  <2>1. run_list' = Append(run_list, c)
    BY <1>2, <1>3 DEF enqueue
  <2>2. /\ run_list \in Seq(Procs) /\ Distinct(run_list) /\ ~In(run_list, c)
    BY <1>2 DEF IInv, TypeOK, RunQueueOK
  <2> QED BY <2>1, <2>2, AppendDistinct
<1>6. /\ state'[c] = "RUNNABLE" /\ \A q \in Procs \ {c} : state'[q] = state[q]
      /\ pc'[c] = kc /\ pc'[m] = k
      /\ \A q \in Procs \ {c, m} : pc'[q] = pc[q]
  BY <1>1, <1>2, <1>3 DEF IInv, TypeOK
<1>7. TypeOK'
  <2>1. /\ parent' \in [Procs -> Procs \cup {NULL}]
        /\ cptr' \in [Procs -> Procs \cup {NULL}]
        /\ yptr' \in [Procs -> Procs \cup {NULL}]
        /\ optr' \in [Procs -> Procs \cup {NULL}]
        /\ nr_process' \in Int
    BY <1>2 DEF IInv, TypeOK, set_links
  <2>2. /\ state' \in [Procs -> States]
        /\ time_slice' \in [Procs -> 0..MaxTimeSlice]
    BY <1>2 DEF IInv, TypeOK, States, refill
  <2>3. kthread' \in [Procs -> BOOLEAN]
    BY <1>2 DEF IInv, TypeOK
  <2>4. pc' \in [Procs -> Labels]
    BY <1>1 DEF IInv, TypeOK, Labels, Plain
  <2> QED BY <1>1, <1>2, <1>4, <1>5, <2>1, <2>2, <2>3, <2>4
          DEF IInv, TypeOK, clock
<1>8. RunQueueOK' /\ WaitStateOK'
  <2>1. current' = current /\ current # c
    BY <1>1, <1>2, <1>3
  <2>2. RunQueueOK'
    BY <1>3, <1>5, <1>6, <2>1 DEF IInv, RunQueueOK
  <2>3. WaitStateOK'
    BY <1>4, <1>6 DEF IInv, WaitStateOK
  <2> QED BY <2>2, <2>3
<1>9. CtrlOK'
  <2>1. /\ parent'[c] = m /\ \A q \in Procs \ {c} : parent'[q] = parent[q]
        /\ UNCHANGED <<timer_list, irq, walk, rest, current>>
    BY <1>2 DEF set_links, IInv, TypeOK, clock
  <2>2. ASSUME NEW q \in Procs PROVE InKernelOK(q)'
    <3>1. InKernelOK(q)
      BY DEF IInv, CtrlOK
    <3>2. CASE q = c
      BY <1>3, <1>4, <1>6, <2>1, <3>2 DEF InKernelOK
    <3>3. CASE q = m
      BY <1>3, <1>4, <1>6, <2>1, <3>1, <3>3 DEF InKernelOK, Plain
    <3>4. CASE q \notin {c, m}
      BY <1>4, <1>6, <2>1, <3>1, <3>4 DEF InKernelOK
    <3> QED BY <3>2, <3>3, <3>4
  <2>3. pc'[current'] \in Plain /\ pc'[idleproc] = "idle"
    BY <1>1, <1>3, <1>6, <2>1, IdleRuns
  <2> QED BY <2>2, <2>3 DEF CtrlOK, Plain
<1>10. TimerOK'
  <2>1. timer_list' = timer_list /\ irq' = irq
    BY <1>2 DEF clock
  <2>2. ~Armed(timer_list, c)
    BY <1>2, TimersToOwners DEF OwnerOK
  <2>3. \A q \in Procs : Armed(timer_list, q) =>
          OwnerOK(state'[q], wait_state'[q], pc'[q])
    BY <1>3, <1>4, <1>6, <2>2, TimersToOwners
  <2>4. \A q \in Procs : wait_state'[q] = "WT_TIMER" /\ pc'[q] # "add_timer"
                              => Armed(timer_list, q)
    BY <1>3, <1>4, <1>6 DEF IInv, TimerOK
  <2>5. ~irq' => ~HeadExpired(timer_list')
    BY <2>1 DEF IInv, TimerOK
  <2>6. (timer_list \in Seq(Timers))' /\ OneEach(timer_list)'
    BY <2>1, TimersToOwners DEF Timers, OneEach
  <2> QED BY <2>1, <2>3, <2>4, <2>5, <2>6, TimerNext
<1> QED BY <1>7, <1>8, <1>9, <1>10 DEF IInv

\* What a wake-up may do to a process.
Woken(q) ==
  \/ state'[q] = state[q] /\ wait_state'[q] = wait_state[q]
  \/ /\ state[q] = "SLEEPING" /\ state'[q] = "RUNNABLE"
     /\ wait_state'[q] = "WT_NONE"

\* A step of current outside do_sleep that may wake others.
LEMMA LocalStep ==
  ASSUME IInv, NEW p \in Procs, p = current, p # idleproc,
         UNCHANGED <<current, clock>>,
         ~Armed(timer_list, p), InKernelOK(p)', wait_state'[p] # "WT_TIMER",
         pc'[p] \notin {"wait_ret", "sleep_ret", "add_timer"},
         \A q \in Procs \ {p} :
           /\ Woken(q) /\ pc'[q] = pc[q]
           /\ parent'[q] = parent[q] \/ parent'[q] \in Procs
  PROVE  CtrlOK' /\ TimerOK'
<1> USE ProcAssumption
<1>1. \A q \in Procs : InKernelOK(q)'
  BY DEF IInv, CtrlOK, InKernelOK, Woken
<1>2. CtrlOK'
  BY <1>1, IdleRuns DEF CtrlOK
<1>3. timer_list' = timer_list /\ irq' = irq
  BY DEF clock
<1>4. \A q \in Procs : Armed(timer_list, q) =>
        OwnerOK(state'[q], wait_state'[q], pc'[q])
  BY TimersToOwners DEF OwnerOK, Woken
<1>5. \A q \in Procs : wait_state'[q] = "WT_TIMER" /\ pc'[q] # "add_timer"
                            => Armed(timer_list, q)
  BY DEF IInv, TimerOK, Woken
<1>6. ~irq' => ~HeadExpired(timer_list')
  BY <1>3 DEF IInv, TimerOK
<1>7. (timer_list \in Seq(Timers))' /\ OneEach(timer_list)'
  BY <1>3, TimersToOwners DEF Timers, OneEach
<1>8. TimerOK'
  BY <1>3, <1>4, <1>5, <1>6, <1>7, TimerNext
<1> QED BY <1>2, <1>8

\* What a wake-up of sleeper w leaves, with the process states st before it.
LEMMA WakeOne ==
  ASSUME IInv, NEW w \in Procs, state[w] \in {"SLEEPING", "RUNNABLE"},
         wakeup_proc(w, state), current' = current
  PROVE  /\ state' \in [Procs -> States]
         /\ wait_state' \in [Procs -> WaitStates]
         /\ run_list' \in Seq(Procs)
         /\ time_slice' \in [Procs -> 0..MaxTimeSlice]
         /\ RunQueueOK' /\ WaitStateOK'
         /\ \A q \in Procs : Woken(q)
         /\ \A q \in Procs \ {w} : /\ state'[q] = state[q]
                                   /\ wait_state'[q] = wait_state[q]
         /\ state'[w] = "RUNNABLE" /\ wait_state'[w] = "WT_NONE"
<1>1. TypeOK /\ state \in [Procs -> States] /\ QueueFor(state) /\ WaitFor(state)
  BY DEF IInv, TypeOK, QueueFor, WaitFor, RunQueueOK, WaitStateOK
<1>2. /\ state' \in [Procs -> States]
      /\ wait_state' \in [Procs -> WaitStates]
      /\ run_list' \in Seq(Procs)
      /\ time_slice' \in [Procs -> 0..MaxTimeSlice]
      /\ RunQueueOK' /\ WaitStateOK'
      /\ state'[w] = "RUNNABLE" /\ wait_state'[w] = "WT_NONE"
      /\ \A q \in Procs \ {w} : /\ state'[q] = state[q]
                                /\ wait_state'[q] = wait_state[q]
  BY <1>1, WakeupFacts
<1>3. state[w] = "RUNNABLE" => wait_state[w] = "WT_NONE"
  BY DEF IInv, WaitStateOK
<1>4. \A q \in Procs : Woken(q)
  BY <1>2, <1>3 DEF Woken
<1> QED BY <1>2, <1>4

LEMMA ExitStep ==
  ASSUME IInv, NEW p \in Procs, do_exit(p)
  PROVE  IInv'
<1> USE ProcAssumption
<1> DEFINE st == [state EXCEPT ![p] = "ZOMBIE"]
           w == parent[p]
<1>1. /\ pc[p] = "do_exit" /\ p = current /\ p # idleproc
      /\ UNCHANGED <<links, clock, self, boot, need_resched, current>>
      /\ Goto(p, "adopt")
  BY DEF do_exit, At
<1>2. /\ state[p] = "RUNNABLE" /\ wait_state[p] = "WT_NONE"
      /\ ~Armed(timer_list, p)
  BY <1>1, PlainRuns DEF Plain
<1>3. w \in Procs
  BY <1>1, <1>2 DEF IInv, CtrlOK, InKernelOK
<1>4. /\ TypeOK /\ st \in [Procs -> States] /\ QueueFor(st) /\ WaitFor(st)
      /\ st[p] = "ZOMBIE" /\ \A q \in Procs \ {p} : st[q] = state[q]
  BY <1>1, <1>2 DEF IInv, TypeOK, QueueFor, WaitFor, RunQueueOK, WaitStateOK,
                    States
<1>5. /\ state' \in [Procs -> States]
      /\ wait_state' \in [Procs -> WaitStates]
      /\ run_list' \in Seq(Procs)
      /\ time_slice' \in [Procs -> 0..MaxTimeSlice]
      /\ RunQueueOK' /\ WaitStateOK'
      /\ state'[p] = "ZOMBIE" /\ wait_state'[p] = "WT_NONE"
      /\ \A q \in Procs \ {p} : Woken(q)
  <2>1. CASE wait_state[w] = "WT_CHILD"
    <3>1. wakeup_proc(w, st)
      BY <2>1 DEF do_exit
    <3>2. w # p /\ state[w] = "SLEEPING"
      BY <1>2, <1>3, <2>1 DEF IInv, WaitStateOK
    <3> HIDE DEF st, w
    <3>3. /\ state' \in [Procs -> States]
          /\ wait_state' \in [Procs -> WaitStates]
          /\ run_list' \in Seq(Procs)
          /\ time_slice' \in [Procs -> 0..MaxTimeSlice]
          /\ RunQueueOK' /\ WaitStateOK'
          /\ state'[w] = "RUNNABLE" /\ wait_state'[w] = "WT_NONE"
          /\ \A q \in Procs \ {w} : /\ state'[q] = st[q]
                                    /\ wait_state'[q] = wait_state[q]
      BY <1>1, <1>3, <1>4, <3>1, WakeupFacts
    <3> QED BY <1>2, <1>3, <1>4, <3>2, <3>3 DEF Woken
  <2>2. CASE wait_state[w] # "WT_CHILD"
    <3>1. state' = st /\ UNCHANGED <<wait_state, run_list, time_slice>>
      BY <2>2 DEF do_exit
    <3> HIDE DEF st, w
    <3>2. RunQueueOK' /\ WaitStateOK'
      BY SMTT(30), <1>1, <1>4, <3>1 DEF QueueFor, WaitFor, RunQueueOK, WaitStateOK,
                              In, Distinct
    <3> QED BY <1>2, <1>4, <3>1, <3>2 DEF Woken, TypeOK
  <2> QED BY <2>1, <2>2
<1>6. /\ pc' \in [Procs -> Labels] /\ pc'[p] = "adopt"
      /\ \A q \in Procs \ {p} : pc'[q] = pc[q]
  BY <1>1 DEF IInv, TypeOK, Goto, Labels
<1>7. InKernelOK(p)' /\ parent' = parent
  BY <1>1, <1>3, <1>5, <1>6 DEF InKernelOK, links
<1>8. CtrlOK' /\ TimerOK'
  BY <1>1, <1>2, <1>5, <1>6, <1>7, LocalStep
<1>9. TypeOK'
  BY <1>1, <1>5, <1>6 DEF IInv, TypeOK, links, clock, self, boot
<1> QED BY <1>5, <1>8, <1>9 DEF IInv

LEMMA AdoptStep ==
  ASSUME IInv, NEW p \in Procs, Adopt(p)
  PROVE  IInv'
<1> USE ProcAssumption
<1> DEFINE c == cptr[p]
<1>1. /\ pc[p] = "adopt" /\ p = current /\ c # NULL
      /\ parent' = [parent EXCEPT ![c] = initproc]
      /\ UNCHANGED <<clock, self, boot, need_resched, current, pc, nr_process>>
  BY DEF Adopt, At
<1>2. /\ p # idleproc /\ state[p] = "ZOMBIE" /\ wait_state[p] = "WT_NONE"
      /\ ~Armed(timer_list, p) /\ c \in Procs /\ InKernelOK(p)
  <2>1. p # idleproc /\ c \in Procs /\ InKernelOK(p)
    BY <1>1, IdleRuns DEF IInv, TypeOK, CtrlOK
  <2>2. state[p] = "ZOMBIE"
    BY <1>1, <2>1 DEF InKernelOK
  <2>3. wait_state[p] = "WT_NONE"
    BY <2>2 DEF IInv, WaitStateOK
  <2>4. ~Armed(timer_list, p)
    BY <1>1, TimersToOwners DEF OwnerOK
  <2> QED BY <2>1, <2>2, <2>3, <2>4
<1>3. /\ state' \in [Procs -> States]
      /\ wait_state' \in [Procs -> WaitStates]
      /\ run_list' \in Seq(Procs)
      /\ time_slice' \in [Procs -> 0..MaxTimeSlice]
      /\ RunQueueOK' /\ WaitStateOK'
      /\ state'[p] = state[p] /\ wait_state'[p] = wait_state[p]
      /\ \A q \in Procs : Woken(q)
  <2>1. CASE state[c] = "ZOMBIE" /\ wait_state[initproc] = "WT_CHILD"
    <3>1. wakeup_proc(initproc, state)
      BY <2>1 DEF Adopt
    <3>2. state[initproc] = "SLEEPING"
      BY <2>1 DEF IInv, WaitStateOK
    <3> QED BY <1>1, <1>2, <3>1, <3>2, WakeOne
  <2>2. CASE ~(state[c] = "ZOMBIE" /\ wait_state[initproc] = "WT_CHILD")
    <3>1. UNCHANGED <<state, wait_state, run_list, time_slice>>
      BY <2>2 DEF Adopt
    <3>2. RunQueueOK' /\ WaitStateOK'
      BY <1>1, <3>1 DEF IInv, RunQueueOK, WaitStateOK, In, Distinct
    <3> QED BY <3>1, <3>2 DEF Woken, IInv, TypeOK
  <2> QED BY <2>1, <2>2
<1>4. \A q \in Procs : parent'[q] = parent[q] \/ parent'[q] \in Procs
  BY <1>1, <1>2 DEF IInv, TypeOK
<1>5. InKernelOK(p)'
  BY <1>1, <1>2, <1>3, <1>4 DEF InKernelOK
<1>6. CtrlOK' /\ TimerOK'
  BY <1>1, <1>2, <1>3, <1>4, <1>5, LocalStep
<1>7. /\ parent' \in [Procs -> Procs \cup {NULL}]
      /\ cptr' \in [Procs -> Procs \cup {NULL}]
      /\ yptr' \in [Procs -> Procs \cup {NULL}]
      /\ optr' \in [Procs -> Procs \cup {NULL}]
  <2>1. /\ cptr' = [cptr EXCEPT ![p] = optr[c], ![initproc] = c]
        /\ yptr' = [q \in Procs |-> IF q = cptr[initproc] THEN c
                                    ELSE IF q = c THEN NULL ELSE yptr[q]]
        /\ optr' = [optr EXCEPT ![c] = cptr[initproc]]
    BY DEF Adopt
  <2>2. /\ optr[c] \in Procs \cup {NULL} /\ cptr[initproc] \in Procs \cup {NULL}
    BY <1>2 DEF IInv, TypeOK
  <2> HIDE DEF c
  <2>3. parent' \in [Procs -> Procs \cup {NULL}]
    BY <1>1, <1>2 DEF IInv, TypeOK
  <2>4. cptr' \in [Procs -> Procs \cup {NULL}]
    BY <1>2, <2>1, <2>2 DEF IInv, TypeOK
  <2>5. yptr' \in [Procs -> Procs \cup {NULL}]
    BY <1>2, <2>1, <2>2 DEF IInv, TypeOK
  <2>6. optr' \in [Procs -> Procs \cup {NULL}]
    BY <1>2, <2>1, <2>2 DEF IInv, TypeOK
  <2> QED BY <2>3, <2>4, <2>5, <2>6
<1>8. TypeOK'
  BY <1>1, <1>3, <1>7 DEF IInv, TypeOK, clock, self, boot
<1> QED BY <1>3, <1>6, <1>8 DEF IInv

LEMMA KillStep ==
  ASSUME IInv, NEW p \in Procs, Kill(p)
  PROVE  IInv'
<1> USE ProcAssumption
<1>1. PICK w \in KillTargets :
        /\ exiting' = [exiting EXCEPT ![w] = TRUE]
        /\ IF ~exiting[w] /\ wait_state[w] \in Interruptible
           THEN wakeup_proc(w, state)
           ELSE UNCHANGED <<state, wait_state, run_list, time_slice>>
  BY DEF Kill
<1>2. /\ pc[p] = "user" /\ p = current /\ Goto(p, "trapret")
      /\ UNCHANGED <<links, clock, boot, need_resched, current, kthread, wpid>>
  BY DEF Kill, At
<1>3. /\ state[p] = "RUNNABLE" /\ wait_state[p] = "WT_NONE" /\ p # idleproc
      /\ ~Armed(timer_list, p) /\ InKernelOK(p)
  BY <1>2, PlainRuns, IdleRuns DEF Plain, IInv, CtrlOK
<1>4. /\ state' \in [Procs -> States]
      /\ wait_state' \in [Procs -> WaitStates]
      /\ run_list' \in Seq(Procs)
      /\ time_slice' \in [Procs -> 0..MaxTimeSlice]
      /\ RunQueueOK' /\ WaitStateOK'
      /\ state'[p] = state[p] /\ wait_state'[p] = wait_state[p]
      /\ \A q \in Procs : Woken(q)
  <2>1. CASE ~exiting[w] /\ wait_state[w] \in Interruptible
    <3>1. wakeup_proc(w, state)
      BY <1>1, <2>1
    <3>2. w \in Procs /\ state[w] = "SLEEPING" /\ w # p
      BY <1>3, <2>1 DEF IInv, WaitStateOK, Interruptible
    <3> QED BY <1>2, <1>3, <3>1, <3>2, WakeOne
  <2>2. CASE ~(~exiting[w] /\ wait_state[w] \in Interruptible)
    <3>1. UNCHANGED <<state, wait_state, run_list, time_slice>>
      BY <1>1, <2>2
    <3>2. RunQueueOK' /\ WaitStateOK'
      BY <1>2, <3>1 DEF IInv, RunQueueOK, WaitStateOK, In, Distinct
    <3> QED BY <3>1, <3>2 DEF Woken, IInv, TypeOK
  <2> QED BY <2>1, <2>2
<1>5. /\ pc' \in [Procs -> Labels] /\ pc'[p] = "trapret"
      /\ \A q \in Procs \ {p} : pc'[q] = pc[q]
  BY <1>2 DEF IInv, TypeOK, Goto, Labels
<1>6. InKernelOK(p)' /\ parent' = parent
  BY <1>2, <1>3, <1>4, <1>5 DEF InKernelOK, links
<1>7. CtrlOK' /\ TimerOK'
  BY <1>2, <1>3, <1>4, <1>5, <1>6, LocalStep
<1>8. exiting' \in [Procs -> BOOLEAN]
  BY <1>1 DEF IInv, TypeOK
<1>9. TypeOK'
  BY <1>2, <1>4, <1>5, <1>8 DEF IInv, TypeOK, links, clock, boot
<1> QED BY <1>4, <1>7, <1>9 DEF IInv

\* The steps by which current becomes a finished zombie or goes to sleep in
\* do_wait.
LEMMA StateSteps ==
  ASSUME IInv, NEW p \in Procs, AdoptDone(p) \/ WaitSleep(p)
  PROVE  IInv'
<1> USE ProcAssumption
<1>1. CASE AdoptDone(p)
  <2>1. /\ pc[p] = "adopt" /\ p = current /\ Goto(p, "exit_sched")
        /\ UNCHANGED <<links, sched, clock, self, boot>>
    BY <1>1 DEF AdoptDone, At
  <2>2. /\ p # idleproc /\ InKernelOK(p) /\ ~Armed(timer_list, p)
        /\ wait_state[p] # "WT_TIMER"
    BY <2>1, IdleRuns, TimersToOwners DEF IInv, CtrlOK, InKernelOK, OwnerOK
  <2>3. /\ pc' \in [Procs -> Labels] /\ pc'[p] = "exit_sched"
        /\ \A q \in Procs \ {p} : pc'[q] = pc[q]
    BY <2>1 DEF IInv, TypeOK, Goto, Labels
  <2>4. InKernelOK(p)' /\ \A q \in Procs : Woken(q) /\ parent'[q] = parent[q]
    BY <2>1, <2>2, <2>3 DEF InKernelOK, links, sched, Woken
  <2>5. CtrlOK' /\ TimerOK'
    BY <2>1, <2>2, <2>3, <2>4, LocalStep DEF sched
  <2>6. RunQueueOK' /\ WaitStateOK'
    BY <2>1 DEF IInv, RunQueueOK, WaitStateOK, In, Distinct, sched
  <2>7. TypeOK'
    BY <2>1, <2>3 DEF IInv, TypeOK, links, sched, clock, self, boot
  <2> QED BY <2>5, <2>6, <2>7 DEF IInv
<1>2. CASE WaitSleep(p)
  <2>1. /\ pc[p] = "wait" /\ p = current /\ Goto(p, "wait_sched")
        /\ state' = [state EXCEPT ![p] = "SLEEPING"]
        /\ wait_state' = [wait_state EXCEPT ![p] = "WT_CHILD"]
        /\ UNCHANGED <<links, clock, self, boot, need_resched, time_slice,
                       current, run_list>>
    BY <1>2 DEF WaitSleep, At
  <2>2. /\ p # idleproc /\ InKernelOK(p) /\ ~Armed(timer_list, p)
        /\ state[p] = "RUNNABLE"
    BY <2>1, IdleRuns, PlainRuns DEF IInv, CtrlOK, Plain
  <2>3. /\ pc' \in [Procs -> Labels] /\ pc'[p] = "wait_sched"
        /\ \A q \in Procs \ {p} : pc'[q] = pc[q]
    BY <2>1 DEF IInv, TypeOK, Goto, Labels
  <2>4. /\ state' \in [Procs -> States] /\ wait_state' \in [Procs -> WaitStates]
        /\ state'[p] = "SLEEPING" /\ wait_state'[p] = "WT_CHILD"
        /\ \A q \in Procs \ {p} : /\ state'[q] = state[q]
                                  /\ wait_state'[q] = wait_state[q]
    BY <2>1 DEF IInv, TypeOK, States, WaitStates, Interruptible
  <2>5. /\ InKernelOK(p)' /\ \A q \in Procs \ {p} : Woken(q)
        /\ parent' = parent
    BY <2>1, <2>2, <2>3, <2>4 DEF InKernelOK, links, Woken
  <2>6. CtrlOK' /\ TimerOK'
    BY <2>1, <2>2, <2>3, <2>4, <2>5, LocalStep
  <2>7. RunQueueOK'
    BY <2>1, <2>4 DEF IInv, RunQueueOK, In, Distinct
  <2>8. WaitStateOK'
    BY <2>4 DEF IInv, WaitStateOK
  <2>9. TypeOK'
    BY <2>1, <2>3, <2>4 DEF IInv, TypeOK, links, clock, self, boot
  <2> QED BY <2>6, <2>7, <2>8, <2>9 DEF IInv
<1> QED BY <1>1, <1>2

\* do_wait frees a zombie, which no queue and no timer refers to.
LEMMA ReapStep ==
  ASSUME IInv, NEW p \in Procs, WaitReap(p)
  PROVE  IInv'
<1> USE ProcAssumption
<1>1. PICK z \in Procs :
        /\ found(p, z) /\ remove_links(z)
        /\ state' = [state EXCEPT ![z] = "UNUSED"]
        /\ exiting' = [exiting EXCEPT ![z] = FALSE]
        /\ need_resched' = [need_resched EXCEPT ![z] = FALSE]
        /\ time_slice' = [time_slice EXCEPT ![z] = 0]
        /\ kthread' = [kthread EXCEPT ![z] = FALSE]
        /\ wpid' = [wpid EXCEPT ![p] = NULL, ![z] = NULL]
        /\ pc' = [pc EXCEPT ![z] = "none",
                   ![p] = IF p = initproc THEN "init_sched" ELSE "trapret"]
  BY DEF WaitReap
<1>2. /\ pc[p] = "wait" /\ p = current
      /\ UNCHANGED <<clock, boot, wait_state, current, run_list>>
  BY DEF WaitReap, At
<1>3. state[z] = "ZOMBIE"
  BY <1>1 DEF found, FirstZombie
<1>4. /\ state[p] = "RUNNABLE" /\ wait_state[p] = "WT_NONE" /\ p # idleproc
      /\ ~Armed(timer_list, p) /\ InKernelOK(p) /\ z # p
      /\ wait_state[z] = "WT_NONE" /\ z # idleproc /\ ~Armed(timer_list, z)
  <2>1. /\ state[p] = "RUNNABLE" /\ wait_state[p] = "WT_NONE"
        /\ ~Armed(timer_list, p) /\ InKernelOK(p) /\ p # idleproc
    BY <1>2, PlainRuns, IdleRuns DEF Plain, IInv, CtrlOK
  <2>2. wait_state[z] = "WT_NONE"
    BY <1>3 DEF IInv, WaitStateOK
  <2>3. z # idleproc /\ ~Armed(timer_list, z)
    BY <1>3, IdleRuns, TimersToOwners DEF OwnerOK
  <2> QED BY <1>3, <2>1, <2>2, <2>3
<1>5. /\ state'[z] = "UNUSED" /\ \A q \in Procs \ {z} : state'[q] = state[q]
      /\ pc'[z] = "none" /\ pc'[p] \in {"init_sched", "trapret"}
      /\ \A q \in Procs \ {z, p} : pc'[q] = pc[q]
      /\ \A q \in Procs \ {z} : parent'[q] = parent[q]
  BY <1>1, <1>4 DEF IInv, TypeOK, remove_links
<1>6. TypeOK'
  <2>1. /\ exiting' \in [Procs -> BOOLEAN] /\ kthread' \in [Procs -> BOOLEAN]
        /\ need_resched' \in [Procs -> BOOLEAN]
    BY <1>1 DEF IInv, TypeOK
  <2>2. /\ state' \in [Procs -> States]
        /\ time_slice' \in [Procs -> 0..MaxTimeSlice]
    BY <1>1 DEF IInv, TypeOK, States
  <2>9. wpid' \in [Procs -> Procs \cup {NULL}]
    BY <1>1 DEF IInv, TypeOK
  <2>3. pc' \in [Procs -> Labels]
    BY <1>1 DEF IInv, TypeOK, Labels
  <2>4. /\ yptr[z] \in Procs \cup {NULL} /\ optr[z] \in Procs \cup {NULL}
    BY DEF IInv, TypeOK
  <2>5. parent' \in [Procs -> Procs \cup {NULL}] /\ nr_process' \in Int
    BY <1>1 DEF IInv, TypeOK, remove_links
  <2>6. cptr' \in [Procs -> Procs \cup {NULL}]
    BY <1>1, <2>4 DEF IInv, TypeOK, remove_links
  <2>7. yptr' \in [Procs -> Procs \cup {NULL}]
    BY <1>1, <2>4 DEF IInv, TypeOK, remove_links
  <2>8. optr' \in [Procs -> Procs \cup {NULL}]
    BY <1>1, <2>4 DEF IInv, TypeOK, remove_links
  <2> QED BY <1>2, <2>1, <2>2, <2>3, <2>5, <2>6, <2>7, <2>8, <2>9
          DEF IInv, TypeOK, clock, boot
<1>7. RunQueueOK'
  BY <1>2, <1>3, <1>5 DEF IInv, RunQueueOK, In, Distinct
<1>8. WaitStateOK'
  BY <1>2, <1>3, <1>5 DEF IInv, WaitStateOK
<1>9. CtrlOK'
  <2>1. ASSUME NEW q \in Procs PROVE InKernelOK(q)'
    <3>1. InKernelOK(q)
      BY DEF IInv, CtrlOK
    <3>2. CASE q = z
      BY <1>2, <1>4, <1>5, <3>2 DEF InKernelOK
    <3>3. CASE q = p
      BY <1>2, <1>4, <1>5, <3>1, <3>3 DEF InKernelOK
    <3>4. CASE q \notin {z, p}
      BY <1>2, <1>5, <3>1, <3>4 DEF InKernelOK
    <3> QED BY <3>2, <3>3, <3>4
  <2> QED BY <1>2, <1>4, <1>5, <2>1, IdleRuns DEF CtrlOK
<1>10. TimerOK'
  <2>1. timer_list' = timer_list /\ irq' = irq
    BY <1>2 DEF clock
  <2>2. \A q \in Procs : Armed(timer_list, q) =>
          OwnerOK(state'[q], wait_state'[q], pc'[q])
    BY <1>2, <1>4, <1>5, TimersToOwners
  <2>3. \A q \in Procs : wait_state'[q] = "WT_TIMER" /\ pc'[q] # "add_timer"
                              => Armed(timer_list, q)
    BY <1>2, <1>4, <1>5 DEF IInv, TimerOK
  <2>4. ~irq' => ~HeadExpired(timer_list')
    BY <2>1 DEF IInv, TimerOK
  <2>5. (timer_list \in Seq(Timers))' /\ OneEach(timer_list)'
    BY <2>1, TimersToOwners DEF Timers, OneEach
  <2> QED BY <2>1, <2>2, <2>3, <2>4, <2>5, TimerNext
<1> QED BY <1>6, <1>7, <1>8, <1>9, <1>10 DEF IInv

\* do_sleep up to the place of its timer in the list.
LEMMA SleepSteps ==
  ASSUME IInv, NEW p \in Procs, Sleep(p) \/ AddTimerWalk(p)
  PROVE  IInv'
<1> USE ProcAssumption
<1>1. CASE Sleep(p)
  <2>1. /\ pc[p] \in Plain /\ p = current /\ ~irq /\ walk' = 1
        /\ Goto(p, "add_timer")
        /\ state' = [state EXCEPT ![p] = "SLEEPING"]
        /\ wait_state' = [wait_state EXCEPT ![p] = "WT_TIMER"]
        /\ UNCHANGED <<links, self, boot, need_resched, time_slice, current,
                       run_list, timer_list, irq>>
    BY <1>1 DEF Sleep, At, Plain
  <2>2. rest' \in Nat /\ rest' > 0
    BY <1>1 DEF Sleep
  <2>3. /\ p # idleproc /\ InKernelOK(p) /\ ~Armed(timer_list, p)
        /\ state[p] = "RUNNABLE"
    BY <2>1, IdleRuns, PlainRuns DEF IInv, CtrlOK, Plain
  <2>4. /\ pc' \in [Procs -> Labels] /\ pc'[p] = "add_timer"
        /\ \A q \in Procs \ {p} : pc'[q] = pc[q]
    BY <2>1 DEF IInv, TypeOK, Goto, Labels
  <2>5. /\ state' \in [Procs -> States] /\ wait_state' \in [Procs -> WaitStates]
        /\ state'[p] = "SLEEPING" /\ wait_state'[p] = "WT_TIMER"
        /\ \A q \in Procs \ {p} : /\ state'[q] = state[q]
                                  /\ wait_state'[q] = wait_state[q]
    BY <2>1 DEF IInv, TypeOK, States, WaitStates, Interruptible
  <2>6. TypeOK'
    BY <2>1, <2>2, <2>4, <2>5 DEF IInv, TypeOK, links, self, boot
  <2>7. RunQueueOK'
    BY <2>1, <2>5 DEF IInv, RunQueueOK, In, Distinct
  <2>8. WaitStateOK'
    BY <2>5 DEF IInv, WaitStateOK
  <2>9. CtrlOK'
    <3>1. \A q \in Procs : InKernelOK(q)'
      BY <2>1, <2>3, <2>4, <2>5 DEF IInv, CtrlOK, InKernelOK, links
    <3>2. walk' \in 1..(Len(timer_list') + 1)
      BY <2>1, TimersToOwners
    <3>3. pc'[idleproc] = "idle"
      BY <2>3, <2>4, IdleRuns
    <3> QED BY <2>1, <2>2, <2>3, <2>4, <2>5, <3>1, <3>2, <3>3 DEF CtrlOK
  <2>10. TimerOK'
    <3>1. \A q \in Procs : Armed(timer_list, q) =>
            OwnerOK(state'[q], wait_state'[q], pc'[q])
      BY <2>3, <2>4, <2>5, TimersToOwners
    <3>2. \A q \in Procs : wait_state'[q] = "WT_TIMER" /\ pc'[q] # "add_timer"
                                => Armed(timer_list, q)
      BY <2>4, <2>5 DEF IInv, TimerOK
    <3>3. ~HeadExpired(timer_list)
      BY <2>1 DEF IInv, TimerOK
    <3>4. (timer_list \in Seq(Timers))' /\ OneEach(timer_list)'
      BY <2>1, TimersToOwners DEF Timers, OneEach
    <3> QED BY <2>1, <3>1, <3>2, <3>3, <3>4, TimerNext
  <2> QED BY <2>6, <2>7, <2>8, <2>9, <2>10 DEF IInv
<1>2. CASE AddTimerWalk(p)
  <2>1. /\ pc[p] = "add_timer" /\ p = current /\ ~irq
        /\ PassesBy(timer_list, walk, rest)
        /\ rest' = rest - timer_list[walk].expires /\ walk' = walk + 1
        /\ UNCHANGED <<links, sched, self, boot, pc, timer_list, irq>>
    BY <1>2 DEF AddTimerWalk, At
  <2>2. /\ walk \in 1..(Len(timer_list) + 1) /\ walk <= Len(timer_list)
        /\ rest \in Nat /\ Len(timer_list) \in Nat
    BY <2>1, TimersToOwners DEF IInv, CtrlOK, PassesBy, TypeOK
  <2>3. timer_list[walk] \in Timers
    BY <2>2, TimersToOwners
  <2>4. rest' \in Nat /\ walk' \in 1..(Len(timer_list) + 1) /\ walk' # 1
    BY <2>1, <2>2, <2>3 DEF PassesBy, Timers
  <2>9. rest' \in Nat /\ walk' \in Nat
    BY <2>1, <2>2, <2>4
  <2>5. TypeOK'
    BY <2>1, <2>9 DEF IInv, TypeOK, links, sched, self, boot
  <2>6. RunQueueOK' /\ WaitStateOK'
    BY <2>1 DEF IInv, RunQueueOK, WaitStateOK, In, Distinct, sched
  <2>7. CtrlOK'
    BY <2>1, <2>4 DEF IInv, CtrlOK, InKernelOK, links, sched
  <2>8. TimerOK'
    BY <2>1 DEF IInv, TimerOK, sched
  <2> QED BY <2>5, <2>6, <2>7, <2>8 DEF IInv
<1> QED BY <1>1, <1>2

\* The timer enters the list, and leaves it again when the sleeper is back.
LEMMA ArmSteps ==
  ASSUME IInv, NEW p \in Procs, AddTimerInsert(p) \/ SleepRet(p)
  PROVE  IInv'
<1> USE ProcAssumption
<1>0. /\ timer_list \in Seq(Timers) /\ OneEach(timer_list)
      /\ \A q \in Procs : Armed(timer_list, q) =>
           OwnerOK(state[q], wait_state[q], pc[q])
  BY TimersToOwners
<1>1. CASE AddTimerInsert(p)
  <2>1. /\ pc[p] = "add_timer" /\ p = current /\ ~irq
        /\ ~PassesBy(timer_list, walk, rest)
        /\ timer_list' = InsertAt(timer_list, walk, p, rest)
        /\ walk' = 0 /\ rest' = 0 /\ Goto(p, "sleep_sched")
        /\ UNCHANGED <<links, sched, self, boot, irq>>
    BY <1>1 DEF AddTimerInsert, At
  <2>2. /\ walk \in 1..(Len(timer_list) + 1) /\ rest \in Nat
        /\ walk = 1 => rest > 0
        /\ ~Armed(timer_list, p) /\ ~HeadExpired(timer_list)
        /\ wait_state[p] = "WT_TIMER" /\ state[p] = "SLEEPING"
        /\ InKernelOK(p) /\ p # idleproc
    BY <2>1, IdleRuns DEF IInv, CtrlOK, TimerOK, TypeOK, WaitStateOK
  <2>3. /\ timer_list' \in Seq(Timers) /\ OneEach(timer_list')
        /\ \A x : Armed(timer_list', x) <=> Armed(timer_list, x) \/ x = p
        /\ ~HeadExpired(timer_list')
    BY <1>0, <2>1, <2>2, InsertFacts
  <2>4. /\ pc' \in [Procs -> Labels] /\ pc'[p] = "sleep_sched"
        /\ \A q \in Procs \ {p} : pc'[q] = pc[q]
    BY <2>1 DEF IInv, TypeOK, Goto, Labels
  <2>5. TypeOK'
    BY <2>1, <2>3, <2>4 DEF IInv, TypeOK, links, sched, self, boot, Timers
  <2>6. RunQueueOK' /\ WaitStateOK'
    BY <2>1 DEF IInv, RunQueueOK, WaitStateOK, In, Distinct, sched
  <2>7. CtrlOK'
    BY <2>1, <2>2, <2>4, IdleRuns DEF IInv, CtrlOK, InKernelOK, links, sched
  <2>8. TimerOK'
    <3>1. \A q \in Procs : Armed(timer_list', q) =>
            OwnerOK(state'[q], wait_state'[q], pc'[q])
      BY <1>0, <2>1, <2>2, <2>3, <2>4 DEF sched, OwnerOK
    <3>2. \A q \in Procs : wait_state'[q] = "WT_TIMER" /\ pc'[q] # "add_timer"
                                => Armed(timer_list', q)
      BY <2>1, <2>3, <2>4 DEF IInv, TimerOK, sched
    <3>3. (timer_list \in Seq(Timers))' /\ OneEach(timer_list)'
      BY <2>3 DEF Timers, OneEach
    <3> QED BY <2>3, <3>1, <3>2, <3>3, TimerNext
  <2> QED BY <2>5, <2>6, <2>7, <2>8 DEF IInv
<1>2. CASE SleepRet(p)
  <2>1. /\ pc[p] = "sleep_ret" /\ p = current /\ ~irq
        /\ timer_list' = del_timer(timer_list, p)
        /\ Goto(p, Back(p))
        /\ UNCHANGED <<links, sched, self, boot, irq, walk, rest>>
    BY <1>2 DEF SleepRet, At
  <2>2. /\ state[p] = "RUNNABLE" /\ wait_state[p] = "WT_NONE"
        /\ InKernelOK(p) /\ p # idleproc /\ ~HeadExpired(timer_list)
    BY <2>1, IdleRuns DEF IInv, CtrlOK, TimerOK, WaitStateOK
  <2>3. /\ timer_list' \in Seq(Timers) /\ OneEach(timer_list')
        /\ \A x : Armed(timer_list', x) <=> Armed(timer_list, x) /\ x # p
        /\ ~HeadExpired(timer_list')
    BY <1>0, <2>1, <2>2, DeleteFacts
  <2>4. /\ pc' \in [Procs -> Labels] /\ pc'[p] \in {"thread", "trapret"}
        /\ \A q \in Procs \ {p} : pc'[q] = pc[q]
    BY <2>1 DEF IInv, TypeOK, Goto, Labels, Back
  <2>5. TypeOK'
    BY <2>1, <2>3, <2>4 DEF IInv, TypeOK, links, sched, self, boot, Timers
  <2>6. RunQueueOK' /\ WaitStateOK'
    BY <2>1 DEF IInv, RunQueueOK, WaitStateOK, In, Distinct, sched
  <2>7. CtrlOK'
    BY <2>1, <2>2, <2>4, IdleRuns DEF IInv, CtrlOK, InKernelOK, links, sched
  <2>8. TimerOK'
    <3>1. \A q \in Procs : Armed(timer_list', q) =>
            OwnerOK(state'[q], wait_state'[q], pc'[q])
      BY <1>0, <2>1, <2>2, <2>3, <2>4 DEF sched
    <3>2. \A q \in Procs : wait_state'[q] = "WT_TIMER" /\ pc'[q] # "add_timer"
                                => Armed(timer_list', q)
      BY <2>1, <2>2, <2>3, <2>4 DEF IInv, TimerOK, sched
    <3>3. (timer_list \in Seq(Timers))' /\ OneEach(timer_list)'
      BY <2>3 DEF Timers, OneEach
    <3> QED BY <2>3, <3>1, <3>2, <3>3, TimerNext
  <2> QED BY <2>5, <2>6, <2>7, <2>8 DEF IInv
<1> QED BY <1>1, <1>2

\* The clock interrupt.
LEMMA ClockSteps ==
  ASSUME IInv, Tick \/ Expire \/ TickEnd
  PROVE  IInv'
<1> USE ProcAssumption
<1>0. /\ timer_list \in Seq(Timers) /\ OneEach(timer_list)
      /\ \A q \in Procs : Armed(timer_list, q) =>
           OwnerOK(state[q], wait_state[q], pc[q])
  BY TimersToOwners
<1>1. CASE Tick
  <2>1. /\ ~irq /\ irq' = TRUE /\ pc[current] # "add_timer"
        /\ timer_list' = Decrement(timer_list)
        /\ UNCHANGED <<links, sched, self, boot, pc, walk, rest>>
    BY <1>1 DEF Tick, IntrOn
  <2>2. /\ timer_list' \in Seq(Timers) /\ OneEach(timer_list')
        /\ \A x : Armed(timer_list', x) <=> Armed(timer_list, x)
    BY <1>0, <2>1, TickFacts DEF IInv, TimerOK
  <2>3. TypeOK'
    BY <2>1, <2>2 DEF IInv, TypeOK, links, sched, self, boot, Timers
  <2>4. RunQueueOK' /\ WaitStateOK'
    BY <2>1 DEF IInv, RunQueueOK, WaitStateOK, In, Distinct, sched
  <2>5. CtrlOK'
    BY <2>1 DEF IInv, CtrlOK, InKernelOK, links, sched
  <2>6. TimerOK'
    <3>1. \A q \in Procs : Armed(timer_list', q) =>
            OwnerOK(state'[q], wait_state'[q], pc'[q])
      BY <1>0, <2>1, <2>2 DEF sched
    <3>2. \A q \in Procs : wait_state'[q] = "WT_TIMER" /\ pc'[q] # "add_timer"
                                => Armed(timer_list', q)
      BY <2>1, <2>2 DEF IInv, TimerOK, sched
    <3>3. (timer_list \in Seq(Timers))' /\ OneEach(timer_list)'
      BY <2>2 DEF Timers, OneEach
    <3> QED BY <2>1, <3>1, <3>2, <3>3, TimerNext
  <2> QED BY <2>3, <2>4, <2>5, <2>6 DEF IInv
<1>2. CASE Expire
  <2> DEFINE w == Head(timer_list).proc
  <2>1. /\ irq /\ timer_list # <<>> /\ timer_list' = Tail(timer_list)
        /\ wakeup_proc(w, state)
        /\ UNCHANGED <<links, self, boot, need_resched, current, pc, irq, walk,
                       rest>>
    BY <1>2 DEF Expire, HeadExpired
  <2>2. /\ timer_list' \in Seq(Timers) /\ OneEach(timer_list')
        /\ w \in Procs
        /\ \A x : Armed(timer_list', x) <=> Armed(timer_list, x) /\ x # w
    BY <1>0, <2>1, ExpireFacts
  <2>3. Armed(timer_list, w)
    <3>1. Head(timer_list) = timer_list[1] /\ 1 \in 1..Len(timer_list)
      BY <1>0, <2>1
    <3> QED BY <3>1 DEF Armed
  <2> HIDE DEF w
  <2>4. state[w] \in {"SLEEPING", "RUNNABLE"}
    BY <1>0, <2>2, <2>3 DEF OwnerOK
  <2>5. /\ state' \in [Procs -> States]
        /\ wait_state' \in [Procs -> WaitStates]
        /\ run_list' \in Seq(Procs)
        /\ time_slice' \in [Procs -> 0..MaxTimeSlice]
        /\ RunQueueOK' /\ WaitStateOK'
        /\ \A q \in Procs : Woken(q)
        /\ wait_state'[w] = "WT_NONE"
    BY <2>1, <2>2, <2>4, WakeOne
  <2>6. TypeOK'
    BY <2>1, <2>2, <2>5 DEF IInv, TypeOK, links, self, boot, Timers
  <2>7. CtrlOK'
    <3>1. \A q \in Procs : InKernelOK(q)'
      BY ZenonT(60), <2>1, <2>5 DEF IInv, CtrlOK, InKernelOK, Woken, links
    <3>2. current \in Procs /\ Woken(current)
      BY <2>5 DEF IInv, TypeOK
    <3>3. pc'[current'] \in {"wait_ret", "sleep_ret"} =>
            state'[current'] = "RUNNABLE"
      BY <2>1, <3>2 DEF IInv, CtrlOK, Woken
    <3>4. pc'[current'] # "add_timer" /\ pc'[idleproc] = "idle"
      BY <2>1 DEF IInv, CtrlOK
    <3> QED BY <3>1, <3>3, <3>4 DEF CtrlOK
  <2>8. TimerOK'
    <3>1. \A q \in Procs : Armed(timer_list', q) =>
            OwnerOK(state'[q], wait_state'[q], pc'[q])
      BY <1>0, <2>1, <2>2, <2>5 DEF Woken, OwnerOK
    <3>2. \A q \in Procs : wait_state'[q] = "WT_TIMER" /\ pc'[q] # "add_timer"
                                => Armed(timer_list', q)
      BY <2>1, <2>2, <2>5 DEF IInv, TimerOK, Woken
    <3>3. (timer_list \in Seq(Timers))' /\ OneEach(timer_list)'
      BY <2>2 DEF Timers, OneEach
    <3> QED BY <2>1, <3>1, <3>2, <3>3, TimerNext
  <2> QED BY <2>5, <2>6, <2>7, <2>8 DEF IInv
<1>3. CASE TickEnd
  <2>1. /\ irq /\ irq' = FALSE /\ ~HeadExpired(timer_list)
        /\ proc_tick(current)
        /\ UNCHANGED <<links, self, boot, state, wait_state, current, run_list,
                       timer_list, walk, rest>>
    BY <1>3 DEF TickEnd
  <2>2. current \in Procs /\ pc[current] # "add_timer"
    BY <2>1 DEF IInv, TypeOK, CtrlOK
  <2>3. /\ pc' \in [Procs -> Labels]
        /\ pc'[current] = IF pc[current] = "user" THEN "trapret" ELSE pc[current]
        /\ \A q \in Procs \ {current} : pc'[q] = pc[q]
    BY <1>3, <2>2 DEF TickEnd, Goto, IInv, TypeOK, Labels
  <2>4. /\ need_resched' \in [Procs -> BOOLEAN]
        /\ time_slice' \in [Procs -> 0..MaxTimeSlice]
    <3>1. CASE current = idleproc
      BY <2>1, <3>1 DEF proc_tick, IInv, TypeOK
    <3>2. CASE current # idleproc
      <4> DEFINE left == IF time_slice[current] > 0
                         THEN time_slice[current] - 1 ELSE 0
      <4>1. /\ time_slice' = [time_slice EXCEPT ![current] = left]
            /\ need_resched' = IF left = 0
                               THEN [need_resched EXCEPT ![current] = TRUE]
                               ELSE need_resched
        BY <2>1, <3>2 DEF proc_tick
      <4>2. left \in 0..MaxTimeSlice
        BY <2>2 DEF IInv, TypeOK
      <4> HIDE DEF left
      <4>3. time_slice' \in [Procs -> 0..MaxTimeSlice]
        BY <4>1, <4>2 DEF IInv, TypeOK
      <4>4. need_resched' \in [Procs -> BOOLEAN]
        BY <4>1 DEF IInv, TypeOK
      <4> QED BY <4>3, <4>4
    <3> QED BY <3>1, <3>2
  <2>5. TypeOK'
    BY <2>1, <2>3, <2>4 DEF IInv, TypeOK, links, self, boot
  <2>6. RunQueueOK' /\ WaitStateOK'
    BY <2>1 DEF IInv, RunQueueOK, WaitStateOK, In, Distinct
  <2>7. CtrlOK'
    BY <2>1, <2>2, <2>3 DEF IInv, CtrlOK, InKernelOK, links
  <2>8. TimerOK'
    <3>1. \A q \in Procs : Armed(timer_list', q) =>
            OwnerOK(state'[q], wait_state'[q], pc'[q])
      BY <1>0, <2>1, <2>3 DEF OwnerOK
    <3>2. \A q \in Procs : wait_state'[q] = "WT_TIMER" /\ pc'[q] # "add_timer"
                                => Armed(timer_list', q)
      BY <2>1, <2>2, <2>3 DEF IInv, TimerOK
    <3>3. (timer_list \in Seq(Timers))' /\ OneEach(timer_list)'
      BY <1>0, <2>1 DEF Timers, OneEach
    <3> QED BY <2>1, <3>1, <3>2, <3>3, TimerNext
  <2> QED BY <2>5, <2>6, <2>7, <2>8 DEF IInv
<1> QED BY <1>1, <1>2, <1>3

-----------------------------------------------------------------------------
LEMMA InitOK == Init => IInv
<1> USE ProcAssumption
<1> SUFFICES ASSUME Init PROVE IInv
  OBVIOUS
<1>1. TypeOK
  <2>1. /\ exiting \in [Procs -> BOOLEAN] /\ need_resched \in [Procs -> BOOLEAN]
        /\ kthread \in [Procs -> BOOLEAN]
    BY DEF Init
  <2>2. /\ state \in [Procs -> States] /\ wait_state \in [Procs -> WaitStates]
        /\ pc \in [Procs -> Labels]
    BY DEF Init, States, WaitStates, Labels
  <2>3. /\ parent \in [Procs -> Procs \cup {NULL}]
        /\ cptr \in [Procs -> Procs \cup {NULL}]
        /\ yptr \in [Procs -> Procs \cup {NULL}]
        /\ optr \in [Procs -> Procs \cup {NULL}]
        /\ wpid \in [Procs -> Procs \cup {NULL}]
    BY DEF Init
  <2>4. /\ time_slice \in [Procs -> 0..MaxTimeSlice]
        /\ current \in Procs /\ nr_process \in Int /\ walk \in Nat /\ rest \in Nat
        /\ spawned \in 0..Workers
    BY DEF Init
  <2>5. irq \in BOOLEAN /\ panicked \in BOOLEAN
    BY DEF Init
  <2>6. /\ run_list \in Seq(Procs)
        /\ timer_list \in Seq([proc : Procs, expires : Nat])
    BY DEF Init
  <2> QED BY <2>1, <2>2, <2>3, <2>4, <2>5, <2>6 DEF TypeOK
<1>2. RunQueueOK
  <2>1. /\ Len(run_list) = 1 /\ run_list[1] = initproc
    BY DEF Init
  <2> QED BY <2>1 DEF Init, RunQueueOK, Distinct, In
<1>3. WaitStateOK
  BY DEF Init, WaitStateOK
<1>4. CtrlOK
  BY DEF Init, CtrlOK, InKernelOK
<1>5. TimerOK
  BY DEF Init, TimerOK, HeadExpired
<1> QED BY <1>1, <1>2, <1>3, <1>4, <1>5 DEF IInv

LEMMA StepOK == IInv /\ [Next]_vars => IInv'
<1> SUFFICES ASSUME IInv, [Next]_vars PROVE IInv'
  OBVIOUS
<1>1. ASSUME NEW p \in Procs, UserCall(p) PROVE IInv'
  BY <1>1, ForkSteps, PlainSteps, KillStep DEF UserCall
<1>2. ASSUME NEW p \in Procs, ThreadCall(p) PROVE IInv'
  BY <1>2, PlainSteps, SleepSteps DEF ThreadCall
<1>3. ASSUME NEW p \in Procs, KernelStep(p) PROVE IInv'
  BY <1>3, ExitStep, AdoptStep, StateSteps, SchedSteps, ReapStep, PlainSteps,
     SleepSteps, ArmSteps DEF KernelStep
<1>4. CASE InitStep
  BY <1>4, ForkSteps, IdleSteps, PlainSteps, SchedSteps, ProcAssumption
     DEF InitStep
<1>5. CASE Idle
  BY <1>5, SchedSteps, ProcAssumption
<1>6. CASE Tick \/ Expire \/ TickEnd
  BY <1>6, ClockSteps
<1>7. CASE Panicked \/ UNCHANGED vars
  BY <1>7, IdleSteps DEF Panicked
<1> QED BY <1>1, <1>2, <1>3, <1>4, <1>5, <1>6, <1>7 DEF Next

\* Every variable stays in its range.
THEOREM TypeCorrect == Spec => []TypeOK
<1>1. IInv => TypeOK
  BY DEF IInv
<1> QED BY InitOK, StepOK, <1>1, PTL DEF Spec

\* The run queue is always exactly the set of processes that can run and do
\* not, each once: for any number of processes, workers and ticks, schedule()
\* never picks a dead, sleeping or freed process and never forgets one.
THEOREM RunQueueCorrect == Spec => []RunQueueOK
<1>1. IInv => RunQueueOK
  BY DEF IInv
<1> QED BY InitOK, StepOK, <1>1, PTL DEF Spec

\* state and wait_state always agree, so do_exit, do_kill and run_timer_list
\* never break the assertion of wakeup_proc.
THEOREM WaitStateCorrect == Spec => []WaitStateOK
<1>1. IInv => WaitStateOK
  BY DEF IInv
<1> QED BY InitOK, StepOK, <1>1, PTL DEF Spec

\* The position of a process in the kernel always agrees with its state.
THEOREM CtrlCorrect == Spec => []CtrlOK
<1>1. IInv => CtrlOK
  BY DEF IInv
<1> QED BY InitOK, StepOK, <1>1, PTL DEF Spec

\* A timer on the list always belongs to a process whose stack still holds
\* it, and whoever sleeps on a timer has one.
THEOREM TimerCorrect == Spec => []TimerOK
<1>1. IInv => TimerOK
  BY DEF IInv
<1> QED BY InitOK, StepOK, <1>1, PTL DEF Spec

\* The scheduler's books always agree: run queue, wait states, timers and the
\* place of every process in the kernel, for any number of processes.
THEOREM SchedCorrect == Spec => []SchedOK
<1>1. IInv => SchedOK
  BY DEF IInv, SchedOK
<1> QED BY InitOK, StepOK, <1>1, PTL DEF Spec

-----------------------------------------------------------------------------
(***************************************************************************)
(* The family tree.  First the induction that chains need, from the        *)
(* library's theorem that a well-founded relation has minimal elements.    *)
(***************************************************************************)
\* A set of numbers that is not empty has a least one.
LEMMA LeastNat ==
  ASSUME NEW T \in SUBSET Nat, T # {}
  PROVE  \E n \in T : \A m \in T : n <= m
<1>1. IsWellFoundedOn(OpToRel(<, Nat), Nat)
  BY NatLessThanWellFounded
<1>2. PICK n \in T : \A m \in T : ~(<<m, n>> \in OpToRel(<, Nat))
  BY <1>1, WFMin
<1>3. ASSUME NEW m \in T, m < n PROVE FALSE
  <2>1. <<m, n>> \in OpToRel(<, Nat)
    BY <1>3 DEF OpToRel
  <2> QED BY <1>2, <2>1
<1>4. \A m \in T : n <= m
  BY <1>3, n \in Nat
<1> QED BY <1>4

\* Induction, over a set of numbers.
LEMMA SetInduction ==
  ASSUME NEW T \in SUBSET Nat, 0 \in T, \A n \in T : n + 1 \in T
  PROVE  T = Nat
<1>1. SUFFICES ASSUME Nat \ T # {} PROVE FALSE
  OBVIOUS
<1>2. PICK n \in Nat \ T : \A m \in Nat \ T : n <= m
  BY <1>1, LeastNat
<1>3. n # 0 /\ n - 1 \in Nat /\ n - 1 \in T
  BY <1>2
<1> QED BY <1>3, <1>2

-----------------------------------------------------------------------------
(***************************************************************************)
(* Chains.  A process's children form a sequence that cptr and optr run    *)
(* through; what is proved about the links is proved about that sequence.  *)
(***************************************************************************)
Nth(s, i) == IF i \in 1..Len(s) THEN s[i] ELSE NULL

\* s lists the children of p, youngest first.
Chain(s, p) ==
  /\ Distinct(s)
  /\ \A c \in Procs : In(s, c) <=> parent[c] = p
  /\ cptr[p] = Nth(s, 1)
  /\ \A i \in 1..Len(s) : optr[s[i]] = Nth(s, i + 1)
  /\ \A i \in 2..Len(s) : yptr[s[i]] = s[i - 1]

\* Walking n steps along optr leads to the child n places from the head.
LEMMA KidAtChain ==
  ASSUME NEW p \in Procs, NEW s \in Seq(Procs), Chain(s, p), NEW n \in Nat
  PROVE  KidAt(p, n) = Nth(s, n + 1)
<1> USE ProcAssumption
<1> DEFINE Walk(g) ==
      g = [i \in 0..n |->
             IF i = 0 THEN cptr[p]
             ELSE IF g[i - 1] = NULL THEN NULL ELSE optr[g[i - 1]]]
    f == [i \in 0..n |-> Nth(s, i + 1)]
    kid == CHOOSE g : Walk(g)
<1>1. KidAt(p, n) = kid[n]
  BY DEF KidAt
<1>2. Walk(f)
  <2>1. ASSUME NEW i \in 0..n
        PROVE  f[i] = IF i = 0 THEN cptr[p]
                      ELSE IF f[i - 1] = NULL THEN NULL ELSE optr[f[i - 1]]
    <3>1. CASE i = 0
      BY <3>1 DEF Chain
    <3>2. CASE i # 0
      <4>1. i - 1 \in 0..n /\ f[i - 1] = Nth(s, i) /\ f[i] = Nth(s, i + 1)
        BY <3>2
      <4>2. CASE i \in 1..Len(s)
        <5>1. Nth(s, i) = s[i] /\ s[i] # NULL
          BY <4>2 DEF Nth
        <5>2. optr[s[i]] = Nth(s, i + 1)
          BY <4>2 DEF Chain
        <5> QED BY <3>2, <4>1, <5>1, <5>2
      <4>3. CASE i \notin 1..Len(s)
        <5>1. Nth(s, i) = NULL /\ Nth(s, i + 1) = NULL
          BY <4>3, <3>2 DEF Nth
        <5> QED BY <3>2, <4>1, <5>1
      <4> QED BY <4>2, <4>3
    <3> QED BY <3>1, <3>2
  <2> QED BY <2>1, Zenon
<1>3. Walk(kid)
  BY <1>2
<1> DEFINE T == {i \in Nat : i <= n => kid[i] = f[i]}
<1> HIDE DEF kid, f
<1>4. 0 \in T
  BY <1>2, <1>3
<1>5. ASSUME NEW i \in T PROVE i + 1 \in T
  <2>1. i \in Nat
    OBVIOUS
  <2>2. CASE i + 1 <= n
    <3>1. i + 1 \in 0..n /\ i + 1 # 0 /\ (i + 1) - 1 = i
      BY <2>1, <2>2
    <3>2. kid[i] = f[i]
      BY <2>1, <2>2
    <3>3. f[i + 1] = IF f[i] = NULL THEN NULL ELSE optr[f[i]]
      BY <1>2, <3>1
    <3>4. kid[i + 1] = IF kid[i] = NULL THEN NULL ELSE optr[kid[i]]
      BY <1>3, <3>1
    <3> QED BY <2>1, <3>2, <3>3, <3>4
  <2> QED BY <2>1, <2>2
<1>6. T = Nat
  <2> HIDE DEF T
  <2>1. T \in SUBSET Nat
    BY DEF T
  <2> QED BY <1>4, <1>5, <2>1, SetInduction
<1>7. kid[n] = f[n]
  BY <1>6
<1> QED BY <1>1, <1>7 DEF f

\* The inductive invariant of the family links, on top of IInv.
Lists == \A p \in Procs : \E s \in Seq(Procs) : Chain(s, p)

\* The youngest child has no younger sibling.
Heads ==
  \A p \in Procs : cptr[p] # NULL /\ pc[p] # "adopt" => yptr[cptr[p]] = NULL

\* Who has no parent has no siblings, and who is dead has no children left.
Vacant ==
  \A p \in Procs :
    /\ state[p] = "UNUSED" => parent[p] = NULL
    /\ parent[p] = NULL => optr[p] = NULL
    /\ state[p] = "UNUSED" \/ pc[p] = "exit_sched" => cptr[p] = NULL

InitLabels == {"init_spawn", "init_sched", "init_done", "wait", "wait_sched",
               "wait_ret", "do_exit"}

\* idleproc is the parent of initproc only, and initproc never leaves
\* init_main but for the do_exit that panics.
Roots ==
  /\ parent[idleproc] = NULL /\ parent[initproc] = idleproc
  /\ \A c \in Procs : parent[c] = idleproc => c = initproc
  /\ state[initproc] \notin {"UNUSED", "ZOMBIE"}
  /\ pc[initproc] \in InitLabels /\ wpid[initproc] = NULL

\* No process is its own ancestor.
RanksOK(rank) ==
  /\ rank[idleproc] = 0 /\ rank[initproc] = 1
  /\ \A c \in Procs \ {idleproc, initproc} :
       state[c] # "UNUSED" => rank[c] >= 2 /\ rank[parent[c]] < rank[c]
Ranked == \E rank \in [Procs -> Nat] : RanksOK(rank)

Counted == nr_process = Cardinality(Live)

FInv ==
  /\ Lists /\ Heads /\ Vacant /\ Roots /\ Ranked /\ Counted
  /\ NoLostChild /\ InitDoneOK

\* A process whose cptr is null has no child, and only then.
LEMMA NoKids ==
  ASSUME NEW p \in Procs, Lists
  PROVE  cptr[p] = NULL <=> \A c \in Procs : parent[c] # p
<1> USE ProcAssumption
<1>1. PICK s \in Seq(Procs) : Chain(s, p)
  BY DEF Lists
<1>2. cptr[p] = NULL <=> Len(s) = 0
  BY <1>1 DEF Chain, Nth
<1>3. Len(s) = 0 <=> \A c \in Procs : ~In(s, c)
  BY DEF In
<1> QED BY <1>1, <1>2, <1>3 DEF Chain

\* The chain of p as the loops over it see it.
LEMMA KidsFacts ==
  ASSUME TypeOK, Lists, Vacant, NEW p \in Procs
  PROVE  /\ Kids(p) = {c \in Live : parent[c] = p}
         /\ KidAt(p, Cardinality(Kids(p))) = NULL
         /\ \A z \in Procs : parent[z] = p =>
              \E n \in 0..(Cardinality(Procs) - 1) : KidAt(p, n) = z
         /\ \A n \in Nat : KidAt(p, n) # NULL =>
              KidAt(p, n) \in Procs /\ parent[KidAt(p, n)] = p
<1> USE ProcAssumption
<1>1. PICK s \in Seq(Procs) : Chain(s, p)
  BY DEF Lists
<1>2. \A n \in Nat : KidAt(p, n) = Nth(s, n + 1)
  BY <1>1, KidAtChain
<1>3. Len(s) \in Nat /\ \A i \in 1..Len(s) : s[i] \in Procs
  OBVIOUS
<1> DEFINE K == {c \in Procs : parent[c] = p}
<1>4. \A c : In(s, c) <=> c \in K
  BY <1>1, <1>3 DEF Chain, In
<1>5. s \in Bijection(1..Len(s), K)
  <2>1. s \in [1..Len(s) -> K]
    <3>1. \A i \in 1..Len(s) : s[i] \in K
      BY <1>4 DEF In
    <3>2. s = [i \in 1..Len(s) |-> s[i]]
      OBVIOUS
    <3> HIDE DEF K
    <3> QED BY <3>1, <3>2
  <2>2. \A i, j \in 1..Len(s) : s[i] = s[j] => i = j
    BY <1>1 DEF Chain, Distinct
  <2>3. \A c \in K : \E i \in 1..Len(s) : s[i] = c
    BY <1>4 DEF In
  <2> HIDE DEF K
  <2>4. s \in Injection(1..Len(s), K)
    BY <2>1, <2>2, Zenon DEF Injection, IsInjective
  <2>5. s \in Surjection(1..Len(s), K)
    BY <2>1, <2>3, Zenon DEF Surjection
  <2> QED BY <2>4, <2>5 DEF Bijection
<1>6. Cardinality(K) = Len(s)
  BY <1>3, <1>5, FS_CountingElements DEF ExistsBijection
<1>7. Len(s) <= Cardinality(Procs) /\ Cardinality(Procs) \in Nat
  <2>1. K \in SUBSET Procs
    OBVIOUS
  <2> QED BY <1>6, <2>1, FS_Subset, FS_CardinalityType
<1>8. \A n \in Nat : KidAt(p, n) # NULL =>
        KidAt(p, n) \in Procs /\ parent[KidAt(p, n)] = p
  BY <1>2, <1>3, <1>4 DEF Nth, In
<1>9. ASSUME NEW z \in Procs, parent[z] = p
      PROVE  \E n \in 0..(Cardinality(Procs) - 1) : KidAt(p, n) = z
  <2>1. PICK i \in 1..Len(s) : s[i] = z
    BY <1>4, <1>9 DEF In
  <2>2. i - 1 \in 0..(Cardinality(Procs) - 1) /\ i - 1 \in Nat
        /\ (i - 1) + 1 = i
    BY <1>3, <1>7
  <2>3. KidAt(p, i - 1) = z
    BY <1>2, <2>1, <2>2 DEF Nth
  <2> QED BY <2>2, <2>3
<1>10. Kids(p) = K
  <2>1. ASSUME NEW c \in Kids(p) PROVE c \in K
    <3>1. PICK n \in 0..(Cardinality(Procs) - 1) : c = KidAt(p, n)
      BY DEF Kids
    <3>2. n \in Nat /\ c # NULL
      BY <1>7 DEF Kids
    <3> QED BY <1>8, <3>1, <3>2
  <2>2. ASSUME NEW c \in K PROVE c \in Kids(p)
    BY <1>9 DEF Kids
  <2> QED BY <2>1, <2>2
<1>11. K = {c \in Live : parent[c] = p}
  BY DEF Vacant, Live
<1>12. KidAt(p, Cardinality(Kids(p))) = NULL
  BY <1>2, <1>3, <1>6, <1>10 DEF Nth
<1> QED BY <1>8, <1>9, <1>10, <1>11, <1>12

LEMMA FamilyFromInv == IInv /\ FInv => FamilyOK
<1> USE ProcAssumption
<1> SUFFICES ASSUME IInv, FInv PROVE FamilyOK
  OBVIOUS
<1>0. TypeOK /\ CtrlOK /\ Lists /\ Vacant
  BY DEF IInv, FInv
<1>1. ASSUME NEW p \in Procs, optr[p] # NULL PROVE yptr[optr[p]] = p
  <2>1. parent[p] \in Procs
    BY <1>0, <1>1 DEF TypeOK, Vacant
  <2>2. PICK s \in Seq(Procs) : Chain(s, parent[p])
    BY <1>0, <2>1 DEF Lists
  <2>3. PICK i \in 1..Len(s) : s[i] = p
    BY <2>2 DEF Chain, In
  <2>4. optr[p] = Nth(s, i + 1)
    BY <2>2, <2>3 DEF Chain
  <2>5. i + 1 \in 2..Len(s) /\ optr[p] = s[i + 1] /\ (i + 1) - 1 = i
    BY <1>1, <2>4 DEF Nth
  <2> QED BY <2>2, <2>3, <2>5 DEF Chain
<1>2. ChainsOK
  BY <1>0, <1>1, KidsFacts DEF ChainsOK, FInv, Heads, Counted
<1>3. ASSUME NEW p \in Live \ {idleproc}
      PROVE  /\ parent[p] \in Live
             /\ state[parent[p]] = "ZOMBIE" =>
                  current = parent[p] /\ pc[current] = "adopt"
  <2>1. p \in Procs /\ parent[p] \in Procs
    BY <1>0 DEF CtrlOK, InKernelOK, Live
  <2>2. cptr[parent[p]] # NULL
    BY <1>0, <2>1, NoKids
  <2>3. state[parent[p]] # "UNUSED" /\ pc[parent[p]] # "exit_sched"
    BY <1>0, <2>1, <2>2 DEF Vacant
  <2>4. InKernelOK(parent[p])
    BY <1>0, <2>1 DEF CtrlOK
  <2> QED BY <2>1, <2>3, <2>4 DEF Live, InKernelOK
<1> QED BY <1>2, <1>3 DEF FamilyOK, ParentOK

-----------------------------------------------------------------------------
\* When initproc is left without children, only it and idleproc live: of the
\* others, one of least rank would be a child of initproc.
LEMMA LastChild ==
  ASSUME IInv, Lists, Heads, Vacant, Roots, Ranked, Counted,
         cptr[initproc] = NULL
  PROVE  /\ Live = {idleproc, initproc} /\ nr_process = 2
         /\ yptr[initproc] = NULL /\ optr[initproc] = NULL
<1> USE ProcAssumption
<1>0. TypeOK /\ CtrlOK
  BY DEF IInv
<1>1. PICK rank \in [Procs -> Nat] : RanksOK(rank)
  BY DEF Ranked
<1> DEFINE O == Live \ {idleproc, initproc}
<1>2. \A c \in Procs : parent[c] # initproc
  BY NoKids
<1>3. state[idleproc] # "UNUSED" /\ state[initproc] # "UNUSED"
  BY <1>0 DEF CtrlOK, InKernelOK, Roots
<1>4. O = {}
  <2>1. SUFFICES ASSUME O # {} PROVE FALSE
    OBVIOUS
  <2> DEFINE T == {n \in Nat : \E c \in O : rank[c] = n}
  <2>2. T # {} /\ T \in SUBSET Nat
    <3>1. PICK c \in O : TRUE
      BY <2>1
    <3>2. rank[c] \in Nat
      BY DEF Live
    <3> QED BY <3>1, <3>2
  <2>3. PICK n \in T : \A m \in T : n <= m
    <3> HIDE DEF T
    <3> QED BY <2>2, LeastNat
  <2>4. PICK c \in O : rank[c] = n
    OBVIOUS
  <2>5. c \in Procs \ {idleproc, initproc} /\ state[c] # "UNUSED"
    BY DEF Live
  <2>6. parent[c] \in Procs /\ rank[parent[c]] < rank[c]
    BY <1>0, <1>1, <2>5 DEF RanksOK, CtrlOK, InKernelOK
  <2>7. parent[c] # idleproc /\ parent[c] # initproc
    BY <1>2, <2>5 DEF Roots
  <2>8. state[parent[c]] # "UNUSED"
    <3>1. cptr[parent[c]] # NULL
      BY <2>5, <2>6, NoKids
    <3> QED BY <2>6, <3>1 DEF Vacant
  <2>9. parent[c] \in O
    BY <2>6, <2>7, <2>8 DEF Live
  <2>10. rank[parent[c]] \in T
    BY <2>6, <2>9
  <2>11. n <= rank[parent[c]]
    BY <2>3, <2>10
  <2> QED BY <2>4, <2>6, <2>11
<1>5. Live = {idleproc, initproc}
  BY <1>3, <1>4 DEF Live
<1>6. nr_process = 2
  <2>1. Cardinality({idleproc}) = 1 /\ IsFiniteSet({idleproc})
    BY FS_Singleton
  <2>2. Cardinality({idleproc} \cup {initproc}) = 2
    <3>1. initproc \notin {idleproc}
      OBVIOUS
    <3>2. Cardinality({idleproc} \cup {initproc}) =
            IF initproc \in {idleproc} THEN Cardinality({idleproc})
            ELSE Cardinality({idleproc}) + 1
      BY <2>1, FS_AddElement
    <3> QED BY <2>1, <3>1, <3>2
  <2>3. {idleproc} \cup {initproc} = {idleproc, initproc}
    OBVIOUS
  <2> QED BY <1>5, <2>2, <2>3 DEF Counted
<1>7. PICK s \in Seq(Procs) : Chain(s, idleproc)
  BY DEF Lists
<1>8. Len(s) = 1 /\ s[1] = initproc
  <2>1. \A i \in 1..Len(s) : s[i] = initproc
    <3>1. ASSUME NEW i \in 1..Len(s) PROVE s[i] = initproc
      <4>1. s[i] \in Procs /\ In(s, s[i])
        BY DEF In
      <4> QED BY <1>7, <4>1 DEF Chain, Roots
    <3> QED BY <3>1
  <2>2. In(s, initproc)
    BY <1>7 DEF Chain, Roots
  <2>3. Len(s) \in Nat /\ Len(s) >= 1
    BY <2>2 DEF In
  <2>4. Len(s) < 2
    <3>1. SUFFICES ASSUME Len(s) >= 2 PROVE FALSE
      BY <2>3
    <3>2. s[1] = s[2] /\ 1 \in 1..Len(s) /\ 2 \in 1..Len(s)
      BY <2>1, <2>3, <3>1
    <3> QED BY <1>7, <3>2 DEF Chain, Distinct
  <2>5. Len(s) = 1
    <3>1. \A n \in Nat : n >= 1 /\ n < 2 => n = 1
      OBVIOUS
    <3> QED BY <2>3, <2>4, <3>1
  <2> QED BY <2>1, <2>5
<1>9. optr[initproc] = NULL /\ cptr[idleproc] = initproc
  BY <1>7, <1>8 DEF Chain, Nth
<1>10. yptr[initproc] = NULL
  BY <1>0, <1>9 DEF Heads, CtrlOK
<1> QED BY <1>5, <1>6, <1>9, <1>10

\* What a step that leaves the family links alone may change.
Kept ==
  /\ UNCHANGED links
  /\ \A q \in Procs :
       /\ state'[q] = "UNUSED" <=> state[q] = "UNUSED"
       /\ pc[q] = "adopt" => pc'[q] = "adopt" \/ cptr[q] = NULL
       /\ pc'[q] = "exit_sched" => pc[q] = "exit_sched" \/ cptr[q] = NULL
  /\ state'[initproc] # "ZOMBIE"
  /\ pc'[initproc] \in InitLabels /\ wpid'[initproc] = NULL
  /\ pc'[initproc] = "init_done" =>
       pc[initproc] = "init_done" \/ cptr[initproc] = NULL

LEMMA KeptStep ==
  ASSUME IInv, FInv, Kept, NoLostChild'
  PROVE  FInv'
<1> USE ProcAssumption
<1>1. /\ UNCHANGED parent /\ UNCHANGED cptr /\ UNCHANGED yptr
      /\ UNCHANGED optr /\ UNCHANGED nr_process
  BY DEF Kept, links
<1>2. Lists'
  <2>1. ASSUME NEW p \in Procs PROVE \E s \in Seq(Procs) : Chain(s, p)'
    <3>1. PICK s \in Seq(Procs) : Chain(s, p)
      BY DEF FInv, Lists
    <3>2. Chain(s, p)'
      BY <1>1, <3>1 DEF Chain
    <3> QED BY <3>2
  <2> QED BY <2>1 DEF Lists
<1>3. Heads'
  BY <1>1 DEF FInv, Heads, Kept
<1>4. Vacant'
  BY <1>1 DEF FInv, Vacant, Kept
<1>5. Roots'
  BY <1>1 DEF FInv, Roots, Kept
<1>6. Ranked'
  BY <1>1 DEF FInv, Ranked, RanksOK, Kept
<1>7. Live' = Live
  BY DEF Live, Kept
<1>8. Counted'
  BY <1>1, <1>7 DEF FInv, Counted
<1>9. InitDoneOK'
  <2>1. CASE pc[initproc] = "init_done"
    BY <1>1, <1>7, <2>1 DEF FInv, InitDoneOK
  <2>2. CASE cptr[initproc] = NULL
    <3>1. /\ Live = {idleproc, initproc} /\ nr_process = 2
          /\ yptr[initproc] = NULL /\ optr[initproc] = NULL
      BY <2>2, LastChild DEF FInv
    <3> QED BY <1>1, <1>7, <2>2, <3>1 DEF InitDoneOK
  <2> QED BY <2>1, <2>2 DEF Kept, InitDoneOK
<1> QED BY <1>2, <1>3, <1>4, <1>5, <1>6, <1>8, <1>9 DEF FInv

\* Most steps move one process in the kernel code, and make no process a
\* zombie and let none wait for a child.
LEMMA QuietStep ==
  ASSUME IInv, FInv, NEW x \in Procs, NEW k \in Labels,
         pc' = [pc EXCEPT ![x] = k], UNCHANGED links,
         \A q \in Procs :
           /\ state'[q] = "UNUSED" <=> state[q] = "UNUSED"
           /\ state'[q] = "ZOMBIE" => state[q] = "ZOMBIE"
           /\ wait_state'[q] = "WT_CHILD" =>
                wait_state[q] = "WT_CHILD" /\ wpid'[q] = wpid[q],
         wpid'[initproc] = NULL,
         pc[x] = "adopt" => k = "adopt",
         k = "exit_sched" => pc[x] = "exit_sched",
         x = initproc => /\ k \in InitLabels
                         /\ k = "init_done" => pc[x] = "init_done"
  PROVE  FInv'
<1> USE ProcAssumption
<1>1. pc \in [Procs -> Labels]
  BY DEF IInv, TypeOK
<1>2. pc'[x] = k /\ \A q \in Procs \ {x} : pc'[q] = pc[q]
  BY <1>1
<1>3. Kept
  BY <1>2 DEF Kept, FInv, Roots
<1>4. NoLostChild'
  BY DEF FInv, NoLostChild, links
<1> QED BY <1>3, <1>4, KeptStep

\* A step that only moves a process in the kernel code.
LEMMA SameStep ==
  ASSUME IInv, FInv, NEW x \in Procs, NEW k \in Labels,
         pc' = [pc EXCEPT ![x] = k],
         UNCHANGED <<links, state, wait_state, wpid>>,
         pc[x] = "adopt" => k = "adopt",
         k = "exit_sched" => pc[x] = "exit_sched",
         x = initproc => /\ k \in InitLabels
                         /\ k = "init_done" => pc[x] = "init_done"
  PROVE  FInv'
<1>1. UNCHANGED links /\ state' = state /\ wait_state' = wait_state
      /\ wpid' = wpid /\ wpid[initproc] = NULL
  BY DEF FInv, Roots
<1> QED BY <1>1, QuietStep

\* initproc only ever stands in init_main.
LEMMA InitStays ==
  ASSUME FInv, NEW p \in Procs, pc[p] \notin InitLabels
  PROVE  p # initproc
BY DEF FInv, Roots

LEMMA GotoSteps ==
  ASSUME IInv, FInv, NEW p \in Procs,
         \/ SpawnDone \/ InitDone \/ Exec(p) \/ Exit(p) \/ WaitRet(p)
         \/ AddTimerWalk(p) \/ AddTimerInsert(p) \/ SleepRet(p)
         \/ TrapExit(p) \/ TrapReturn(p) \/ Yield(p)
  PROVE  FInv'
<1> USE ProcAssumption
<1>0. pc \in [Procs -> Labels]
  BY DEF IInv, TypeOK
<1>1. CASE SpawnDone
  <2>1. /\ pc[initproc] = "init_spawn" /\ pc' = [pc EXCEPT ![initproc] = "wait"]
        /\ UNCHANGED <<links, state, wait_state, wpid>>
    BY <1>1 DEF SpawnDone, At, Goto, sched, self
  <2> QED BY <2>1, SameStep DEF Labels, InitLabels
<1>2. CASE InitDone
  <2>1. /\ pc[initproc] = "init_done"
        /\ pc' = [pc EXCEPT ![initproc] = "do_exit"]
        /\ UNCHANGED <<links, state, wait_state, wpid>>
    BY <1>2 DEF InitDone, At, Goto, sched, self
  <2> QED BY <2>1, SameStep DEF Labels, InitLabels
<1>3. CASE Exec(p)
  <2>1. /\ pc[p] = "thread" /\ pc' = [pc EXCEPT ![p] = "user"]
        /\ UNCHANGED <<links, state, wait_state, wpid>>
    BY <1>3 DEF Exec, At, Goto, sched
  <2> QED BY <2>1, SameStep, InitStays DEF Labels, InitLabels
<1>4. CASE Exit(p)
  <2>1. /\ pc[p] \in {"user", "thread"} /\ pc' = [pc EXCEPT ![p] = "do_exit"]
        /\ UNCHANGED <<links, state, wait_state, wpid>>
    BY <1>4 DEF Exit, At, Goto, sched, self
  <2> QED BY <2>1, SameStep, InitStays DEF Labels, InitLabels
<1>5. CASE WaitRet(p)
  <2>1. /\ pc[p] = "wait_ret"
        /\ pc' = [pc EXCEPT ![p] = IF exiting[p] THEN "do_exit" ELSE "wait"]
        /\ UNCHANGED <<links, state, wait_state, wpid>>
    BY <1>5 DEF WaitRet, At, Goto, sched, self
  <2> QED BY <2>1, SameStep DEF Labels, InitLabels
<1>6. CASE AddTimerWalk(p)
  <2>1. /\ pc[p] = "add_timer" /\ pc' = pc
        /\ UNCHANGED <<links, state, wait_state, wpid>>
    BY <1>6 DEF AddTimerWalk, At, sched, self
  <2>2. pc' = [pc EXCEPT ![p] = "add_timer"]
    BY <1>0, <2>1
  <2> QED BY <2>1, <2>2, SameStep, InitStays DEF Labels, InitLabels
<1>7. CASE AddTimerInsert(p)
  <2>1. /\ pc[p] = "add_timer" /\ pc' = [pc EXCEPT ![p] = "sleep_sched"]
        /\ UNCHANGED <<links, state, wait_state, wpid>>
    BY <1>7 DEF AddTimerInsert, At, Goto, sched, self
  <2> QED BY <2>1, SameStep, InitStays DEF Labels, InitLabels
<1>8. CASE SleepRet(p)
  <2>1. /\ pc[p] = "sleep_ret" /\ pc' = [pc EXCEPT ![p] = Back(p)]
        /\ UNCHANGED <<links, state, wait_state, wpid>>
    BY <1>8 DEF SleepRet, At, Goto, sched, self
  <2>2. Back(p) \in {"thread", "trapret"}
    BY DEF Back
  <2> QED BY <2>1, <2>2, SameStep, InitStays DEF Labels, InitLabels
<1>9. CASE TrapExit(p)
  <2>1. /\ pc[p] = "trapret" /\ pc' = [pc EXCEPT ![p] = "do_exit"]
        /\ UNCHANGED <<links, state, wait_state, wpid>>
    BY <1>9 DEF TrapExit, At, Goto, sched, self
  <2> QED BY <2>1, SameStep, InitStays DEF Labels, InitLabels
<1>10. CASE TrapReturn(p)
  <2>1. /\ pc[p] = "trapret" /\ pc' = [pc EXCEPT ![p] = "user"]
        /\ UNCHANGED <<links, state, wait_state, wpid>>
    BY <1>10 DEF TrapReturn, At, Goto, sched, self
  <2> QED BY <2>1, SameStep, InitStays DEF Labels, InitLabels
<1>11. CASE Yield(p)
  <2>1. /\ pc[p] = "user" /\ pc' = [pc EXCEPT ![p] = "trapret"]
        /\ UNCHANGED <<links, state, wait_state, wpid>>
    BY <1>11 DEF Yield, At, Goto, self
  <2> QED BY <2>1, SameStep, InitStays DEF Labels, InitLabels
<1> QED BY <1>1, <1>2, <1>3, <1>4, <1>5, <1>6, <1>7, <1>8, <1>9, <1>10, <1>11

LEMMA ReschedSteps ==
  ASSUME IInv, FInv, NEW p \in Procs,
         \/ ExitSched(p) \/ WaitSched(p) \/ SleepSched(p) \/ TrapResched(p)
         \/ InitSched \/ Idle
  PROVE  FInv'
<1> USE ProcAssumption
<1>0. pc[idleproc] = "idle"
  BY DEF IInv, CtrlOK
<1>1. CASE ExitSched(p)
  <2>1. /\ pc[p] = "exit_sched" /\ pc' = [pc EXCEPT ![p] = "exit_sched"]
        /\ UNCHANGED <<links, state, wait_state, wpid>>
    BY <1>1 DEF ExitSched, At, schedule, self
  <2> QED BY <2>1, SameStep, InitStays DEF Labels, InitLabels
<1>2. CASE WaitSched(p)
  <2>1. /\ pc[p] = "wait_sched" /\ pc' = [pc EXCEPT ![p] = "wait_ret"]
        /\ UNCHANGED <<links, state, wait_state, wpid>>
    BY <1>2 DEF WaitSched, At, schedule, self
  <2> QED BY <2>1, SameStep DEF Labels, InitLabels
<1>3. CASE SleepSched(p)
  <2>1. /\ pc[p] = "sleep_sched" /\ pc' = [pc EXCEPT ![p] = "sleep_ret"]
        /\ UNCHANGED <<links, state, wait_state, wpid>>
    BY <1>3 DEF SleepSched, At, schedule, self
  <2> QED BY <2>1, SameStep, InitStays DEF Labels, InitLabels
<1>4. CASE TrapResched(p)
  <2>1. /\ pc[p] = "trapret" /\ pc' = [pc EXCEPT ![p] = "user"]
        /\ UNCHANGED <<links, state, wait_state, wpid>>
    BY <1>4 DEF TrapResched, At, schedule, self
  <2> QED BY <2>1, SameStep, InitStays DEF Labels, InitLabels
<1>5. CASE InitSched
  <2>1. /\ pc[initproc] = "init_sched"
        /\ pc' = [pc EXCEPT ![initproc] = "wait"]
        /\ UNCHANGED <<links, state, wait_state, wpid>>
    BY <1>5 DEF InitSched, At, schedule, self
  <2> QED BY <2>1, SameStep DEF Labels, InitLabels
<1>6. CASE Idle
  <2>1. /\ pc' = [pc EXCEPT ![idleproc] = "idle"]
        /\ UNCHANGED <<links, state, wait_state, wpid>>
    BY <1>6 DEF Idle, At, schedule, self
  <2> QED BY <1>0, <2>1, SameStep, InitStays DEF Labels, InitLabels
<1> QED BY <1>1, <1>2, <1>3, <1>4, <1>5, <1>6

\* What wakeup_proc does to the state and the wait state of everybody.
LEMMA WakeLight ==
  ASSUME TypeOK, NEW p \in Procs, NEW st \in [Procs -> States],
         wakeup_proc(p, st)
  PROVE  /\ state' = [st EXCEPT ![p] = "RUNNABLE"]
         /\ \A q \in Procs : wait_state'[q] \in {wait_state[q], "WT_NONE"}
         /\ st[p] # "RUNNABLE" => wait_state'[p] = "WT_NONE"
BY DEF wakeup_proc, TypeOK

LEMMA WakeSteps ==
  ASSUME IInv, FInv, NEW p \in Procs,
         \/ ForkFails(p) \/ Wait(p) \/ Kill(p) \/ Sleep(p)
         \/ Tick \/ Expire \/ TickEnd
         \/ SpawnFails \/ InitExits \/ UNCHANGED vars
  PROVE  FInv'
<1> USE ProcAssumption
<1>0. TypeOK /\ WaitStateOK /\ CtrlOK /\ TimerOK
  BY DEF IInv
<1>00. /\ pc \in [Procs -> Labels] /\ state \in [Procs -> States]
       /\ wait_state \in [Procs -> WaitStates] /\ current \in Procs
       /\ wpid \in [Procs -> Procs \cup {NULL}]
       /\ wpid[initproc] = NULL /\ pc[initproc] \in InitLabels
  BY <1>0 DEF TypeOK, FInv, Roots
<1>1. CASE ForkFails(p)
  <2>1. /\ pc[p] = "user" /\ pc' = [pc EXCEPT ![p] = "trapret"]
        /\ UNCHANGED links /\ state' = state /\ wpid' = wpid
        /\ wait_state' = [wait_state EXCEPT ![p] = "WT_NONE"]
    BY <1>1 DEF ForkFails, At, Goto, self
  <2>2. \A q \in Procs : wait_state'[q] = "WT_CHILD" =>
                           wait_state[q] = "WT_CHILD"
    BY <1>00, <2>1
  <2>3. p # initproc
    BY <2>1, InitStays DEF InitLabels
  <2>4. "trapret" \in Labels
    BY DEF Labels
  <2> QED BY <1>00, <2>1, <2>2, <2>3, <2>4, QuietStep
<1>2. CASE Wait(p)
  <2>1. PICK w \in (Procs \ {idleproc}) \cup {NULL} :
          wpid' = [wpid EXCEPT ![p] = w]
    BY <1>2 DEF Wait
  <2>2. /\ pc[p] = "user" /\ pc' = [pc EXCEPT ![p] = "wait"]
        /\ UNCHANGED links /\ state' = state /\ wait_state' = wait_state
    BY <1>2 DEF Wait, At, Goto, sched
  <2>3. p # initproc
    BY <2>2, InitStays DEF InitLabels
  <2>4. wait_state[p] # "WT_CHILD"
    BY <1>0, <2>2 DEF CtrlOK, InKernelOK
  <2>5. "wait" \in Labels
    BY DEF Labels
  <2>6. /\ \A q \in Procs : wait_state'[q] = "WT_CHILD" =>
                             wait_state[q] = "WT_CHILD" /\ wpid'[q] = wpid[q]
        /\ wpid'[initproc] = NULL
    BY <1>00, <2>1, <2>2, <2>3, <2>4
  <2> QED BY <2>2, <2>3, <2>5, <2>6, QuietStep
<1>3. CASE Kill(p)
  <2>1. PICK v \in KillTargets :
          /\ state[v] # "UNUSED"
          /\ IF ~exiting[v] /\ wait_state[v] \in Interruptible
             THEN wakeup_proc(v, state)
             ELSE UNCHANGED <<state, wait_state, run_list, time_slice>>
    BY <1>3 DEF Kill
  <2>2. /\ pc[p] = "user" /\ pc' = [pc EXCEPT ![p] = "trapret"]
        /\ UNCHANGED links /\ wpid' = wpid
    BY <1>3 DEF Kill, At, Goto
  <2>3. p # initproc /\ "trapret" \in Labels /\ v \in Procs
    BY <2>2, InitStays DEF InitLabels, Labels
  <2>4. \A q \in Procs :
           /\ state'[q] = "UNUSED" <=> state[q] = "UNUSED"
           /\ state'[q] = "ZOMBIE" => state[q] = "ZOMBIE"
           /\ wait_state'[q] = "WT_CHILD" => wait_state[q] = "WT_CHILD"
    <3>1. CASE ~exiting[v] /\ wait_state[v] \in Interruptible
      <4>1. wakeup_proc(v, state)
        BY <2>1, <3>1
      <4> QED BY <1>0, <1>00, <2>1, <2>3, <4>1, WakeLight
    <3>2. CASE ~(~exiting[v] /\ wait_state[v] \in Interruptible)
      BY <2>1, <3>2
    <3> QED BY <3>1, <3>2
  <2> QED BY <1>00, <2>2, <2>3, <2>4, QuietStep
<1>4. CASE Sleep(p)
  <2>1. /\ pc[p] \in {"user", "thread"} /\ p = current
        /\ pc' = [pc EXCEPT ![p] = "add_timer"]
        /\ UNCHANGED links /\ wpid' = wpid
        /\ state' = [state EXCEPT ![p] = "SLEEPING"]
        /\ wait_state' = [wait_state EXCEPT ![p] = "WT_TIMER"]
    BY <1>4 DEF Sleep, At, Goto, self
  <2>2. p # initproc /\ "add_timer" \in Labels
    BY <2>1, InitStays DEF InitLabels, Labels
  <2>3. state[p] # "UNUSED"
    BY <1>0, <2>1 DEF CtrlOK, InKernelOK
  <2>4. \A q \in Procs :
           /\ state'[q] = "UNUSED" <=> state[q] = "UNUSED"
           /\ state'[q] = "ZOMBIE" => state[q] = "ZOMBIE"
           /\ wait_state'[q] = "WT_CHILD" => wait_state[q] = "WT_CHILD"
    BY <1>00, <2>1, <2>3
  <2> QED BY <1>00, <2>1, <2>2, <2>4, QuietStep
<1>5. CASE Tick \/ SpawnFails \/ InitExits \/ UNCHANGED vars
  <2>1. pc' = pc /\ UNCHANGED <<links, state, wait_state, wpid>>
    BY <1>5 DEF Tick, SpawnFails, InitExits, vars, sched, self
  <2>2. pc' = [pc EXCEPT ![current] = pc[current]] /\ pc[current] \in Labels
    BY <1>00, <2>1
  <2> QED BY <1>00, <2>1, <2>2, SameStep
<1>6. CASE Expire
  <2> DEFINE v == Head(timer_list).proc
  <2>1. /\ wakeup_proc(v, state) /\ pc' = pc
        /\ UNCHANGED links /\ wpid' = wpid /\ HeadExpired(timer_list)
    BY <1>6 DEF Expire, self
  <2>2. pc' = [pc EXCEPT ![current] = pc[current]] /\ pc[current] \in Labels
    BY <1>00, <2>1
  <2>3. timer_list \in Seq(Timers)
    BY <1>0 DEF TypeOK, Timers
  <2>4. 1 \in 1..Len(timer_list) /\ Head(timer_list) = timer_list[1]
    BY <2>1, <2>3 DEF HeadExpired
  <2>5. v \in Procs /\ state[v] \in {"SLEEPING", "RUNNABLE"}
    <3>1. timer_list[1] \in Timers
      BY <2>3, <2>4
    <3>2. state[timer_list[1].proc] \in {"SLEEPING", "RUNNABLE"}
      BY <1>0, <2>4 DEF TimerOK
    <3> QED BY <2>4, <3>1, <3>2 DEF Timers
  <2> HIDE DEF v
  <2>6. \A q \in Procs :
           /\ state'[q] = "UNUSED" <=> state[q] = "UNUSED"
           /\ state'[q] = "ZOMBIE" => state[q] = "ZOMBIE"
           /\ wait_state'[q] = "WT_CHILD" => wait_state[q] = "WT_CHILD"
    BY <1>0, <1>00, <2>1, <2>5, WakeLight
  <2> QED BY <1>00, <2>1, <2>2, <2>6, QuietStep
<1>7. CASE TickEnd
  <2> DEFINE k == IF pc[current] = "user" THEN "trapret" ELSE pc[current]
  <2>1. pc' = [pc EXCEPT ![current] = k]
        /\ UNCHANGED <<links, state, wait_state, wpid>>
    BY <1>7 DEF TickEnd, Goto, self
  <2>2. /\ k \in Labels /\ (pc[current] = "adopt" => k = "adopt")
        /\ (k = "exit_sched" => pc[current] = "exit_sched")
    BY <1>00 DEF Labels
  <2>3. current = initproc => k \in InitLabels
                              /\ (k = "init_done" => pc[current] = "init_done")
    BY <1>00 DEF InitLabels
  <2> HIDE DEF k
  <2> QED BY <1>00, <2>1, <2>2, <2>3, SameStep
<1> QED BY <1>1, <1>2, <1>3, <1>4, <1>5, <1>6, <1>7

\* Before a process sleeps in do_wait it has looked at all its children.
LEMMA NoneFound ==
  ASSUME IInv, FInv, NEW p \in Procs, NEW z \in Procs, wpid[p] \in {NULL, z},
         state[z] = "ZOMBIE", parent[z] = p
  PROVE  \E y \in Procs : found(p, y)
<1> USE ProcAssumption
<1>0. TypeOK /\ Lists /\ Vacant
  BY DEF IInv, FInv
<1>1. CASE wpid[p] = z
  <2>1. wpid[p] # NULL /\ haskid(p)
    BY <1>1 DEF haskid
  <2> QED BY <1>1, <2>1 DEF found
<1>2. CASE wpid[p] = NULL
  <2> DEFINE N == Cardinality(Procs)
             T == {n \in 0..(N - 1) : /\ KidAt(p, n) # NULL
                                      /\ state[KidAt(p, n)] = "ZOMBIE"}
  <2>1. N \in Nat
    BY FS_CardinalityType
  <2>2. T # {} /\ T \in SUBSET Nat
    <3>1. PICK n \in 0..(N - 1) : KidAt(p, n) = z
      BY <1>0, KidsFacts
    <3> QED BY <2>1, <3>1
  <2>3. PICK n \in T : \A m \in T : n <= m
    <3> HIDE DEF T
    <3> QED BY <2>2, LeastNat
  <2>4. n \in 0..(N - 1) /\ n \in Nat /\ KidAt(p, n) # NULL
        /\ state[KidAt(p, n)] = "ZOMBIE"
    BY <2>1
  <2>5. KidAt(p, n) \in Procs
    BY <1>0, <2>4, KidsFacts
  <2>6. PICK f \in Seq(Procs) : Chain(f, p)
    BY <1>0 DEF Lists
  <2>7. ASSUME NEW m \in 0..(n - 1) PROVE state[KidAt(p, m)] # "ZOMBIE"
    <3>1. m \in Nat /\ m \in 0..(N - 1) /\ m < n
      BY <2>1, <2>4
    <3>2. KidAt(p, m) # NULL
      <4>1. KidAt(p, m) = Nth(f, m + 1) /\ KidAt(p, n) = Nth(f, n + 1)
        BY <2>4, <2>6, <3>1, KidAtChain
      <4>2. n + 1 \in 1..Len(f)
        BY <2>4, <4>1 DEF Nth
      <4>3. m + 1 \in 1..Len(f)
        BY <2>4, <3>1, <4>2
      <4> QED BY <4>1, <4>3 DEF Nth
    <3>3. m \notin T
      BY <2>3, <2>4, <3>1
    <3> QED BY <3>1, <3>2, <3>3
  <2>8. FirstZombie(p, KidAt(p, n))
    BY <2>4, <2>7 DEF FirstZombie
  <2> QED BY <1>2, <2>5, <2>8 DEF found
<1> QED BY <1>1, <1>2

\* do_exit makes a zombie and wakes the parent that waits for it.
LEMMA ExitFamily ==
  ASSUME IInv, FInv, NEW p \in Procs, do_exit(p)
  PROVE  FInv'
<1> USE ProcAssumption
<1>0. TypeOK /\ WaitStateOK /\ CtrlOK /\ NoLostChild
  BY DEF IInv, FInv
<1>00. /\ pc \in [Procs -> Labels] /\ state \in [Procs -> States]
       /\ wait_state \in [Procs -> WaitStates]
       /\ wpid[initproc] = NULL /\ pc[initproc] \in InitLabels
       /\ state[initproc] \notin {"UNUSED", "ZOMBIE"}
  BY <1>0 DEF TypeOK, FInv, Roots
<1> DEFINE st == [state EXCEPT ![p] = "ZOMBIE"]
<1>1. /\ pc[p] = "do_exit" /\ p # idleproc /\ p # initproc
      /\ pc' = [pc EXCEPT ![p] = "adopt"]
      /\ UNCHANGED links /\ wpid' = wpid
      /\ IF wait_state[parent[p]] = "WT_CHILD"
         THEN wakeup_proc(parent[p], st)
         ELSE state' = st /\ UNCHANGED <<wait_state, run_list, time_slice>>
  BY DEF do_exit, At, Goto, self
<1>2. /\ state[p] # "UNUSED" /\ wait_state[p] # "WT_CHILD"
      /\ parent[p] \in Procs
  BY <1>0, <1>1 DEF CtrlOK, InKernelOK
<1>3. st \in [Procs -> States] /\ st[p] = "ZOMBIE"
      /\ \A q \in Procs \ {p} : st[q] = state[q]
  BY <1>00 DEF States
<1> HIDE DEF st
<1>4. /\ \A q \in Procs : /\ state'[q] \in {st[q], "RUNNABLE"}
                          /\ st[q] = "UNUSED" => state'[q] = "UNUSED"
                          /\ wait_state'[q] \in {wait_state[q], "WT_NONE"}
      /\ wait_state'[parent[p]] # "WT_CHILD"
  <2>1. CASE wait_state[parent[p]] = "WT_CHILD"
    <3>1. wakeup_proc(parent[p], st)
      BY <1>1, <2>1
    <3>2. state[parent[p]] = "SLEEPING" /\ parent[p] # p
      BY <1>0, <1>2, <2>1 DEF WaitStateOK
    <3>3. st[parent[p]] = "SLEEPING"
      BY <1>2, <1>3, <3>2
    <3>4. /\ state' = [st EXCEPT ![parent[p]] = "RUNNABLE"]
          /\ \A q \in Procs : wait_state'[q] \in {wait_state[q], "WT_NONE"}
          /\ wait_state'[parent[p]] = "WT_NONE"
      BY <1>0, <1>2, <1>3, <3>1, <3>3, WakeLight
    <3> QED BY <1>2, <1>3, <3>3, <3>4
  <2>2. CASE wait_state[parent[p]] # "WT_CHILD"
    BY <1>1, <2>2
  <2> QED BY <2>1, <2>2
<1>5. pc'[p] = "adopt" /\ \A q \in Procs \ {p} : pc'[q] = pc[q]
  BY <1>00, <1>1
<1>6. Kept
  <2>1. ASSUME NEW q \in Procs
        PROVE  /\ state'[q] = "UNUSED" <=> state[q] = "UNUSED"
               /\ pc[q] = "adopt" => pc'[q] = "adopt" \/ cptr[q] = NULL
               /\ pc'[q] = "exit_sched" =>
                    pc[q] = "exit_sched" \/ cptr[q] = NULL
    BY <1>2, <1>3, <1>4, <1>5
  <2>2. state'[initproc] # "ZOMBIE"
    BY <1>00, <1>1, <1>3, <1>4
  <2>3. pc'[initproc] = pc[initproc]
    BY <1>1, <1>5
  <2> QED BY <1>00, <1>1, <2>1, <2>2, <2>3 DEF Kept
<1>7. NoLostChild'
  <2>1. SUFFICES ASSUME NEW a \in Procs, NEW z \in Procs,
                        wait_state'[a] = "WT_CHILD",
                        state'[z] = "ZOMBIE", parent'[z] = a
                 PROVE  wpid'[a] \notin {NULL, z}
    BY DEF NoLostChild
  <2>2. parent' = parent /\ wpid' = wpid
    BY <1>1 DEF links
  <2>3. wait_state[a] = "WT_CHILD"
    BY <1>4, <2>1
  <2>4. z # p
    BY <1>4, <2>1, <2>2
  <2>5. state[z] = "ZOMBIE"
    BY <1>3, <1>4, <2>1, <2>4
  <2> QED BY <1>0, <2>1, <2>2, <2>3, <2>5 DEF NoLostChild
<1> QED BY <1>6, <1>7, KeptStep

\* The ends of the adoption loop and of do_wait.
LEMMA WaitSteps ==
  ASSUME IInv, FInv, NEW p \in Procs,
         AdoptDone(p) \/ WaitSleep(p) \/ WaitNoChild(p)
  PROVE  FInv'
<1> USE ProcAssumption
<1>0. TypeOK /\ WaitStateOK /\ CtrlOK /\ NoLostChild /\ Lists
  BY DEF IInv, FInv
<1>00. /\ pc \in [Procs -> Labels] /\ state \in [Procs -> States]
       /\ wait_state \in [Procs -> WaitStates]
       /\ wpid \in [Procs -> Procs \cup {NULL}]
       /\ wpid[initproc] = NULL /\ pc[initproc] \in InitLabels
       /\ state[initproc] \notin {"UNUSED", "ZOMBIE"}
  BY <1>0 DEF TypeOK, FInv, Roots
<1>1. CASE AdoptDone(p)
  <2>1. /\ pc[p] = "adopt" /\ cptr[p] = NULL
        /\ pc' = [pc EXCEPT ![p] = "exit_sched"] /\ UNCHANGED links
        /\ state' = state /\ wait_state' = wait_state /\ wpid' = wpid
    BY <1>1 DEF AdoptDone, At, Goto, sched, self
  <2>2. p # initproc
    BY <2>1, InitStays DEF InitLabels
  <2>3. pc'[p] = "exit_sched" /\ \A q \in Procs \ {p} : pc'[q] = pc[q]
    BY <1>00, <2>1
  <2>4. Kept
    BY <1>00, <2>1, <2>2, <2>3 DEF Kept
  <2>5. NoLostChild'
    BY <1>0, <2>1 DEF NoLostChild, links
  <2> QED BY <2>4, <2>5, KeptStep
<1>2. CASE WaitSleep(p)
  <2>1. /\ pc[p] = "wait" /\ ~\E z \in Procs : found(p, z)
        /\ state' = [state EXCEPT ![p] = "SLEEPING"]
        /\ wait_state' = [wait_state EXCEPT ![p] = "WT_CHILD"]
        /\ pc' = [pc EXCEPT ![p] = "wait_sched"] /\ UNCHANGED links
        /\ wpid' = wpid
    BY <1>2 DEF WaitSleep, At, Goto, self
  <2>2. /\ pc'[p] = "wait_sched" /\ \A q \in Procs \ {p} : pc'[q] = pc[q]
        /\ state'[p] = "SLEEPING"
        /\ \A q \in Procs \ {p} : /\ state'[q] = state[q]
                                  /\ wait_state'[q] = wait_state[q]
    BY <1>00, <2>1
  <2>3. state[p] # "UNUSED"
    BY <1>0, <2>1 DEF CtrlOK, InKernelOK
  <2>4. Kept
    <3>1. \/ pc'[initproc] \in InitLabels /\ pc'[initproc] # "init_done"
          \/ pc'[initproc] = pc[initproc]
      BY <2>2 DEF InitLabels
    <3>2. state'[initproc] # "ZOMBIE"
      BY <1>00, <2>2
    <3>3. ASSUME NEW q \in Procs
          PROVE  /\ state'[q] = "UNUSED" <=> state[q] = "UNUSED"
                 /\ pc[q] = "adopt" => pc'[q] = "adopt" \/ cptr[q] = NULL
                 /\ pc'[q] = "exit_sched" =>
                      pc[q] = "exit_sched" \/ cptr[q] = NULL
      BY <2>1, <2>2, <2>3
    <3> QED BY <1>00, <2>1, <3>1, <3>2, <3>3 DEF Kept
  <2>5. NoLostChild'
    <3>1. SUFFICES ASSUME NEW a \in Procs, NEW z \in Procs,
                          wait_state'[a] = "WT_CHILD",
                          state'[z] = "ZOMBIE", parent'[z] = a
                   PROVE  wpid'[a] \notin {NULL, z}
      BY DEF NoLostChild
    <3>2. parent' = parent /\ wpid' = wpid /\ state[z] = "ZOMBIE"
      BY <2>1, <2>2, <3>1 DEF links
    <3>3. CASE a = p
      BY <2>1, <3>1, <3>2, <3>3, NoneFound
    <3>4. CASE a # p
      BY <1>0, <2>2, <3>1, <3>2, <3>4 DEF NoLostChild
    <3> QED BY <3>3, <3>4
  <2> QED BY <2>4, <2>5, KeptStep
<1>3. CASE WaitNoChild(p)
  <2>1. /\ pc[p] = "wait" /\ ~haskid(p) /\ UNCHANGED links
        /\ state' = state /\ wait_state' = wait_state
        /\ wpid' = [wpid EXCEPT ![p] = NULL]
        /\ pc' = [pc EXCEPT ![p] = IF p = initproc THEN "init_done"
                                   ELSE "trapret"]
    BY <1>3 DEF WaitNoChild, At, Goto, sched
  <2>2. /\ pc'[p] = (IF p = initproc THEN "init_done" ELSE "trapret")
        /\ \A q \in Procs \ {p} : pc'[q] = pc[q] /\ wpid'[q] = wpid[q]
        /\ wpid'[p] = NULL
    BY <1>00, <2>1
  <2>3. p = initproc => cptr[initproc] = NULL
    BY <1>00, <2>1 DEF haskid
  <2>4. Kept
    BY <1>00, <2>1, <2>2, <2>3 DEF Kept, InitLabels
  <2>5. wait_state[p] # "WT_CHILD"
    BY <1>0, <2>1 DEF CtrlOK, InKernelOK
  <2>6. NoLostChild'
    BY <1>0, <2>1, <2>2, <2>5 DEF NoLostChild, links
  <2> QED BY <2>4, <2>6, KeptStep
<1> QED BY <1>1, <1>2, <1>3

-----------------------------------------------------------------------------
(***************************************************************************)
(* The list surgery of set_links, remove_links and the adoption loop, on   *)
(* the sequences that the links stand for.                                 *)
(***************************************************************************)
LEMMA ConsFacts ==
  ASSUME NEW s \in Seq(Procs), NEW c \in Procs, Distinct(s), ~In(s, c)
  PROVE  \E r \in Seq(Procs) :
           /\ Distinct(r) /\ Len(r) = Len(s) + 1 /\ r[1] = c
           /\ \A i \in 2..Len(r) : r[i] = s[i - 1]
           /\ \A x \in Procs : In(r, x) <=> In(s, x) \/ x = c
<1> DEFINE r == [i \in 1..(Len(s) + 1) |-> IF i = 1 THEN c ELSE s[i - 1]]
<1>0. Len(s) \in Nat /\ \A i \in 1..Len(s) : s[i] \in Procs
  OBVIOUS
<1>1. \A i \in 1..(Len(s) + 1) : r[i] \in Procs
  BY <1>0
<1>2. r \in Seq(Procs) /\ Len(r) = Len(s) + 1
  BY <1>0, <1>1, FunctionIsSeq
<1>3. r[1] = c /\ \A i \in 2..(Len(s) + 1) : r[i] = s[i - 1]
  BY <1>0
<1> HIDE DEF r
<1>4. Distinct(r)
  <2>1. SUFFICES ASSUME NEW i \in 1..Len(r), NEW j \in 1..Len(r), r[i] = r[j]
                 PROVE  i = j
    BY DEF Distinct
  <2>2. CASE i = 1 /\ j # 1
    <3>1. j \in 2..(Len(s) + 1) /\ j - 1 \in 1..Len(s)
      BY <1>0, <1>2, <2>2
    <3> QED BY <1>3, <2>1, <2>2, <3>1 DEF In
  <2>3. CASE i # 1 /\ j = 1
    <3>1. i \in 2..(Len(s) + 1) /\ i - 1 \in 1..Len(s)
      BY <1>0, <1>2, <2>3
    <3> QED BY <1>3, <2>1, <2>3, <3>1 DEF In
  <2>4. CASE i # 1 /\ j # 1
    <3>1. /\ i \in 2..(Len(s) + 1) /\ i - 1 \in 1..Len(s)
          /\ j \in 2..(Len(s) + 1) /\ j - 1 \in 1..Len(s)
      BY <1>0, <1>2, <2>4
    <3>2. s[i - 1] = s[j - 1]
      BY <1>3, <2>1, <3>1
    <3>3. i - 1 = j - 1
      BY <3>1, <3>2 DEF Distinct
    <3> QED BY <3>1, <3>3
  <2> QED BY <2>2, <2>3, <2>4
<1>5. ASSUME NEW x \in Procs PROVE In(r, x) <=> In(s, x) \/ x = c
  <2>1. ASSUME In(r, x) PROVE In(s, x) \/ x = c
    <3>1. PICK i \in 1..Len(r) : r[i] = x
      BY <2>1 DEF In
    <3>2. CASE i # 1
      <4>1. i \in 2..(Len(s) + 1) /\ i - 1 \in 1..Len(s)
        BY <1>0, <1>2, <3>2
      <4> QED BY <1>3, <3>1, <4>1 DEF In
    <3> QED BY <1>3, <3>1, <3>2
  <2>2. ASSUME In(s, x) PROVE In(r, x)
    <3>1. PICK i \in 1..Len(s) : s[i] = x
      BY <2>2 DEF In
    <3>2. i + 1 \in 2..(Len(s) + 1) /\ i + 1 \in 1..Len(r) /\ (i + 1) - 1 = i
      BY <1>0, <1>2
    <3> QED BY <1>3, <3>1, <3>2 DEF In
  <2>3. In(r, c)
    BY <1>0, <1>2, <1>3 DEF In
  <2> QED BY <2>1, <2>2, <2>3
<1>6. \A i \in 2..Len(r) : r[i] = s[i - 1]
  BY <1>2, <1>3
<1> QED BY <1>2, <1>3, <1>4, <1>5, <1>6

LEMMA DropFacts ==
  ASSUME NEW s \in Seq(Procs), NEW k \in 1..Len(s), Distinct(s)
  PROVE  \E r \in Seq(Procs) :
           /\ Distinct(r) /\ Len(r) = Len(s) - 1
           /\ \A i \in 1..Len(r) : r[i] = IF i < k THEN s[i] ELSE s[i + 1]
           /\ \A x \in Procs : In(r, x) <=> In(s, x) /\ x # s[k]
<1> DEFINE n == Len(s) - 1
           r == [i \in 1..n |-> IF i < k THEN s[i] ELSE s[i + 1]]
<1>0. /\ Len(s) \in Nat /\ n \in Nat /\ k \in 1..(n + 1) /\ Len(s) = n + 1
      /\ \A i \in 1..(n + 1) : s[i] \in Procs
  OBVIOUS
<1> HIDE DEF n
<1>1. \A i \in 1..n : r[i] \in Procs
  BY <1>0
<1>2. r \in Seq(Procs) /\ Len(r) = n
  BY <1>0, <1>1, FunctionIsSeq
<1>3. \A i \in 1..n : r[i] = IF i < k THEN s[i] ELSE s[i + 1]
  OBVIOUS
<1> HIDE DEF r
<1>4. \A i, j \in 1..(n + 1) : s[i] = s[j] => i = j
  BY <1>0 DEF Distinct
<1>5. Distinct(r)
  BY <1>0, <1>2, <1>3, <1>4 DEF Distinct
<1>6. ASSUME NEW x \in Procs PROVE In(r, x) <=> In(s, x) /\ x # s[k]
  <2>1. ASSUME In(r, x) PROVE In(s, x) /\ x # s[k]
    <3>1. PICK i \in 1..n : r[i] = x
      BY <1>2, <2>1 DEF In
    <3>2. CASE i < k
      BY <1>0, <1>3, <1>4, <3>1, <3>2 DEF In
    <3>3. CASE ~(i < k)
      <4>1. i + 1 \in 1..(n + 1) /\ i + 1 # k /\ x = s[i + 1]
        BY <1>0, <1>3, <3>1, <3>3
      <4> QED BY <1>0, <1>4, <4>1 DEF In
    <3> QED BY <3>2, <3>3
  <2>2. ASSUME In(s, x), x # s[k] PROVE In(r, x)
    <3>1. PICK i \in 1..(n + 1) : s[i] = x
      BY <1>0, <2>2 DEF In
    <3>2. CASE i < k
      <4>1. i \in 1..n /\ r[i] = x
        BY <1>0, <1>3, <3>1, <3>2
      <4> QED BY <1>2, <4>1 DEF In
    <3>3. CASE ~(i < k)
      <4>1. i # k
        BY <2>2, <3>1
      <4>2. i - 1 \in 1..n /\ ~(i - 1 < k) /\ (i - 1) + 1 = i
        BY <1>0, <3>3, <4>1
      <4>3. r[i - 1] = x
        BY <1>3, <3>1, <4>2
      <4> QED BY <1>2, <4>2, <4>3 DEF In
    <3> QED BY <3>2, <3>3
  <2> QED BY <2>1, <2>2
<1>7. Len(r) = Len(s) - 1
  BY <1>0, <1>2
<1> QED BY <1>2, <1>3, <1>5, <1>6, <1>7

\* A chain that no link of which changes stays as it is.
LEMMA OtherChain ==
  ASSUME NEW p \in Procs, NEW s \in Seq(Procs), Chain(s, p),
         cptr'[p] = cptr[p],
         \A c \in Procs : parent'[c] = p <=> parent[c] = p,
         \A c \in Procs : parent[c] = p =>
           optr'[c] = optr[c] /\ yptr'[c] = yptr[c]
  PROVE  Chain(s, p)'
<1>1. \A i \in 1..Len(s) : s[i] \in Procs /\ parent[s[i]] = p
  BY DEF Chain, In
<1>2. \A i \in 1..Len(s) : optr'[s[i]] = optr[s[i]] /\ yptr'[s[i]] = yptr[s[i]]
  BY <1>1
<1>3. \A i \in 2..Len(s) : i \in 1..Len(s)
  OBVIOUS
<1> QED BY <1>2, <1>3 DEF Chain

\* set_links puts the new child at the head of its parent's chain.
LEMMA LinkLists ==
  ASSUME TypeOK, Lists, NEW p \in Procs, NEW c \in Procs, p # c,
         parent[c] = NULL, set_links(p, c)
  PROVE  Lists'
<1> USE ProcAssumption
<1>1. /\ parent' = [parent EXCEPT ![c] = p]
      /\ optr' = [optr EXCEPT ![c] = cptr[p]]
      /\ yptr' = [q \in Procs |-> IF q = c THEN NULL
                                  ELSE IF q = cptr[p] THEN c ELSE yptr[q]]
      /\ cptr' = [cptr EXCEPT ![p] = c]
  BY DEF set_links
<1>2. PICK s \in Seq(Procs) : Chain(s, p)
  BY DEF Lists
<1>3. /\ parent'[c] = p /\ \A q \in Procs \ {c} : parent'[q] = parent[q]
      /\ optr'[c] = cptr[p] /\ \A q \in Procs \ {c} : optr'[q] = optr[q]
      /\ cptr'[p] = c /\ \A q \in Procs \ {p} : cptr'[q] = cptr[q]
      /\ \A q \in Procs \ {c, cptr[p]} : yptr'[q] = yptr[q]
      /\ cptr[p] \in Procs \ {c} => yptr'[cptr[p]] = c
  BY <1>1 DEF TypeOK
<1>4. \A i \in 1..Len(s) : s[i] \in Procs /\ parent[s[i]] = p /\ s[i] # c
  BY <1>2 DEF Chain, In
<1>5. cptr[p] = Nth(s, 1) /\ (cptr[p] # NULL => parent[cptr[p]] = p)
  BY <1>2, <1>4 DEF Chain, Nth
<1>6. ASSUME NEW q \in Procs, q # p
      PROVE  \E t \in Seq(Procs) : Chain(t, q)'
  <2>1. PICK t \in Seq(Procs) : Chain(t, q)
    BY DEF Lists
  <2>2. \A x \in Procs : parent[x] = q => x # c /\ x # cptr[p]
    BY <1>5, <1>6
  <2>3. \A x \in Procs : parent[x] = q =>
          optr'[x] = optr[x] /\ yptr'[x] = yptr[x]
    BY <1>3, <2>2
  <2>4. \A x \in Procs : parent'[x] = q <=> parent[x] = q
    BY <1>3, <1>6
  <2>5. Chain(t, q)'
    BY <1>3, <1>6, <2>1, <2>3, <2>4, OtherChain
  <2> QED BY <2>5
<1>7. \E t \in Seq(Procs) : Chain(t, p)'
  <2>1. ~In(s, c) /\ Distinct(s)
    BY <1>2 DEF Chain
  <2>2. PICK r \in Seq(Procs) :
           /\ Distinct(r) /\ Len(r) = Len(s) + 1 /\ r[1] = c
           /\ \A i \in 2..Len(r) : r[i] = s[i - 1]
           /\ \A x \in Procs : In(r, x) <=> In(s, x) \/ x = c
    BY <2>1, ConsFacts
  <2>0. Len(s) \in Nat
    OBVIOUS
  <2>3. \A x \in Procs : In(r, x) <=> parent'[x] = p
    BY <1>2, <1>3, <2>2 DEF Chain
  <2>4. cptr'[p] = Nth(r, 1)
    BY <1>3, <2>0, <2>2 DEF Nth
  <2>5. ASSUME NEW i \in 1..Len(r) PROVE optr'[r[i]] = Nth(r, i + 1)
    <3>1. CASE i = 1
      <4>1. optr'[r[i]] = Nth(s, 1)
        BY <1>3, <1>5, <2>2, <3>1
      <4> QED BY <2>0, <2>2, <3>1, <4>1 DEF Nth
    <3>2. CASE i # 1
      <4>1. i \in 2..Len(r) /\ i - 1 \in 1..Len(s) /\ r[i] = s[i - 1]
        BY <2>0, <2>2, <3>2
      <4>2. optr'[r[i]] = Nth(s, i)
        BY <1>2, <1>3, <1>4, <4>1 DEF Chain
      <4> QED BY <2>0, <2>2, <4>1, <4>2 DEF Nth
    <3> QED BY <3>1, <3>2
  <2>6. ASSUME NEW i \in 2..Len(r) PROVE yptr'[r[i]] = r[i - 1]
    <3>1. i - 1 \in 1..Len(s) /\ r[i] = s[i - 1]
      BY <2>0, <2>2
    <3>2. CASE i = 2
      <4>1. r[i] = cptr[p] /\ r[i] \in Procs \ {c}
        BY <1>4, <1>5, <3>1, <3>2 DEF Nth
      <4> QED BY <1>3, <2>2, <3>2, <4>1
    <3>3. CASE i # 2
      <4>1. i - 1 \in 2..Len(s) /\ i - 1 \in 2..Len(r)
        BY <2>0, <2>2, <3>1, <3>3
      <4>2. 1 \in 1..Len(s) /\ cptr[p] = s[1] /\ i - 1 # 1
        BY <1>5, <2>0, <3>1, <3>3 DEF Nth
      <4>3. s[i - 1] # cptr[p] /\ s[i - 1] \in Procs \ {c}
        BY <1>4, <2>1, <3>1, <4>2 DEF Distinct
      <4>4. yptr'[r[i]] = s[(i - 1) - 1]
        BY <1>2, <1>3, <3>1, <4>1, <4>3 DEF Chain
      <4> QED BY <2>2, <4>1, <4>4
    <3> QED BY <3>2, <3>3
  <2>7. Chain(r, p)'
    BY <2>2, <2>3, <2>4, <2>5, <2>6 DEF Chain
  <2> QED BY <2>7
<1> QED BY <1>6, <1>7 DEF Lists

\* One turn of the adoption loop moves the head of one chain to the head of
\* another.
AdoptLinks(p, c) ==
  /\ cptr' = [cptr EXCEPT ![p] = optr[c], ![initproc] = c]
  /\ yptr' = [q \in Procs |-> IF q = cptr[initproc] THEN c
                              ELSE IF q = c THEN NULL ELSE yptr[q]]
  /\ optr' = [optr EXCEPT ![c] = cptr[initproc]]
  /\ parent' = [parent EXCEPT ![c] = initproc]

LEMMA AdoptLists ==
  ASSUME TypeOK, Lists, NEW p \in Procs, NEW c \in Procs, p # initproc,
         cptr[p] = c, AdoptLinks(p, c)
  PROVE  Lists' /\ parent[c] = p /\ cptr[initproc] # c
<1> USE ProcAssumption
<1>1. PICK s \in Seq(Procs) : Chain(s, p)
  BY DEF Lists
<1>2. PICK u \in Seq(Procs) : Chain(u, initproc)
  BY DEF Lists
<1>0. Len(s) \in Nat /\ Len(u) \in Nat /\ Distinct(s) /\ Distinct(u)
  BY <1>1, <1>2 DEF Chain
<1>3. 1 \in 1..Len(s) /\ s[1] = c
  BY <1>1 DEF Chain, Nth
<1>4. \A i \in 1..Len(s) : s[i] \in Procs /\ parent[s[i]] = p
  BY <1>1 DEF Chain, In
<1>5. \A i \in 1..Len(u) : u[i] \in Procs /\ parent[u[i]] = initproc
  BY <1>2 DEF Chain, In
<1>6. parent[c] = p
  BY <1>3, <1>4
<1>7. /\ cptr[initproc] = Nth(u, 1) /\ cptr[initproc] # c
      /\ cptr[initproc] # NULL => /\ cptr[initproc] \in Procs
                                  /\ parent[cptr[initproc]] = initproc
  BY <1>2, <1>5, <1>6 DEF Chain, Nth
<1>8. /\ parent'[c] = initproc
      /\ \A q \in Procs \ {c} : parent'[q] = parent[q]
      /\ optr'[c] = cptr[initproc]
      /\ \A q \in Procs \ {c} : optr'[q] = optr[q]
      /\ cptr'[p] = optr[c] /\ cptr'[initproc] = c
      /\ \A q \in Procs \ {p, initproc} : cptr'[q] = cptr[q]
      /\ yptr'[c] = NULL
      /\ \A q \in Procs \ {c, cptr[initproc]} : yptr'[q] = yptr[q]
      /\ cptr[initproc] # NULL => yptr'[cptr[initproc]] = c
  BY <1>7 DEF TypeOK, AdoptLinks
<1>9. ASSUME NEW q \in Procs, q # p, q # initproc
      PROVE  \E t \in Seq(Procs) : Chain(t, q)'
  <2>1. PICK t \in Seq(Procs) : Chain(t, q)
    BY DEF Lists
  <2>2. \A x \in Procs : parent[x] = q => x # c /\ x # cptr[initproc]
    BY <1>6, <1>7, <1>9
  <2>3. \A x \in Procs : parent[x] = q =>
          optr'[x] = optr[x] /\ yptr'[x] = yptr[x]
    BY <1>8, <2>2
  <2>4. \A x \in Procs : parent'[x] = q <=> parent[x] = q
    BY <1>6, <1>8, <1>9
  <2>5. Chain(t, q)'
    BY <1>8, <1>9, <2>1, <2>3, <2>4, OtherChain
  <2> QED BY <2>5
<1>10. \E t \in Seq(Procs) : Chain(t, p)'
  <2>1. PICK r \in Seq(Procs) :
           /\ Distinct(r) /\ Len(r) = Len(s) - 1
           /\ \A i \in 1..Len(r) : r[i] = IF i < 1 THEN s[i] ELSE s[i + 1]
           /\ \A x \in Procs : In(r, x) <=> In(s, x) /\ x # s[1]
    BY <1>0, <1>3, DropFacts
  <2>2. \A i \in 1..Len(r) : r[i] = s[i + 1] /\ i + 1 \in 2..Len(s)
    BY <1>0, <2>1
  <2>3. \A x \in Procs : In(r, x) <=> parent'[x] = p
    BY <1>1, <1>3, <1>8, <2>1 DEF Chain
  <2>4. cptr'[p] = Nth(r, 1)
    <3>1. optr[c] = Nth(s, 2)
      BY <1>1, <1>3 DEF Chain
    <3> QED BY <1>0, <1>8, <2>1, <2>2, <3>1 DEF Nth
  <2>5. \A i \in 1..Len(r) : r[i] \in Procs \ {c, cptr[initproc]}
    BY <1>0, <1>3, <1>4, <1>7, <2>2 DEF Distinct
  <2>6. ASSUME NEW i \in 1..Len(r) PROVE optr'[r[i]] = Nth(r, i + 1)
    <3>1. optr'[r[i]] = Nth(s, (i + 1) + 1)
      BY <1>1, <1>8, <2>2, <2>5 DEF Chain
    <3> QED BY <1>0, <2>1, <2>2, <3>1 DEF Nth
  <2>7. ASSUME NEW i \in 2..Len(r) PROVE yptr'[r[i]] = r[i - 1]
    <3>1. i \in 1..Len(r) /\ i - 1 \in 1..Len(r)
      BY <1>0, <2>1
    <3>2. r[i] = s[i + 1] /\ i + 1 \in 2..Len(s) /\ yptr'[r[i]] = yptr[r[i]]
      BY <1>8, <2>2, <2>5, <3>1
    <3>3. yptr[s[i + 1]] = s[i]
      <4>1. \A j \in 2..Len(s) : yptr[s[j]] = s[j - 1]
        BY <1>1 DEF Chain
      <4>2. (i + 1) - 1 = i
        OBVIOUS
      <4> QED BY <3>2, <4>1, <4>2
    <3>4. r[i - 1] = s[i]
      BY <2>2, <3>1
    <3> QED BY <3>2, <3>3, <3>4
  <2>8. Chain(r, p)'
    BY <2>1, <2>3, <2>4, <2>6, <2>7 DEF Chain
  <2> QED BY <2>8
<1>11. \E t \in Seq(Procs) : Chain(t, initproc)'
  <2>1. ~In(u, c)
    BY <1>2, <1>6 DEF Chain
  <2>2. PICK r \in Seq(Procs) :
           /\ Distinct(r) /\ Len(r) = Len(u) + 1 /\ r[1] = c
           /\ \A i \in 2..Len(r) : r[i] = u[i - 1]
           /\ \A x \in Procs : In(r, x) <=> In(u, x) \/ x = c
    <3>1. Distinct(u)
      BY <1>0
    <3> QED BY <2>1, <3>1, ConsFacts
  <2>3. \A x \in Procs : In(r, x) <=> parent'[x] = initproc
    BY <1>2, <1>8, <2>2 DEF Chain
  <2>4. cptr'[initproc] = Nth(r, 1)
    BY <1>0, <1>8, <2>2 DEF Nth
  <2>5. ASSUME NEW i \in 1..Len(r) PROVE optr'[r[i]] = Nth(r, i + 1)
    <3>1. CASE i = 1
      <4>1. optr'[r[i]] = Nth(u, 1)
        BY <1>7, <1>8, <2>2, <3>1
      <4> QED BY <1>0, <2>2, <3>1, <4>1 DEF Nth
    <3>2. CASE i # 1
      <4>1. i \in 2..Len(r) /\ i - 1 \in 1..Len(u) /\ r[i] = u[i - 1]
        BY <1>0, <2>2, <3>2
      <4>2. u[i - 1] \in Procs \ {c}
        BY <1>5, <1>6, <4>1
      <4>3. optr'[r[i]] = Nth(u, i)
        BY <1>2, <1>8, <4>1, <4>2 DEF Chain
      <4>4. i \in 1..Len(u) <=> i + 1 \in 2..Len(r)
        BY <1>0, <2>2
      <4>5. i + 1 \in 2..Len(r) => r[i + 1] = u[i]
        BY <2>2
      <4>6. i + 1 \in 2..Len(r) <=> i + 1 \in 1..Len(r)
        BY <1>0, <2>2
      <4> QED BY <4>3, <4>4, <4>5, <4>6 DEF Nth
    <3> QED BY <3>1, <3>2
  <2>6. ASSUME NEW i \in 2..Len(r) PROVE yptr'[r[i]] = r[i - 1]
    <3>1. i - 1 \in 1..Len(u) /\ r[i] = u[i - 1]
      BY <1>0, <2>2
    <3>2. CASE i = 2
      <4>1. r[i] = cptr[initproc] /\ cptr[initproc] # NULL
        BY <1>5, <1>7, <3>1, <3>2 DEF Nth
      <4> QED BY <1>8, <2>2, <3>2, <4>1
    <3>3. CASE i # 2
      <4>1. i - 1 \in 2..Len(u) /\ i - 1 \in 2..Len(r)
        BY <1>0, <2>2, <3>1, <3>3
      <4>2. 1 \in 1..Len(u) /\ cptr[initproc] = u[1] /\ i - 1 # 1
        BY <1>0, <1>7, <3>1, <3>3 DEF Nth
      <4>3. u[i - 1] # cptr[initproc] /\ u[i - 1] \in Procs \ {c}
        BY <1>0, <1>5, <1>6, <3>1, <4>2 DEF Distinct
      <4>4. yptr'[r[i]] = u[(i - 1) - 1]
        BY <1>2, <1>8, <3>1, <4>1, <4>3 DEF Chain
      <4> QED BY <2>2, <4>1, <4>4
    <3> QED BY <3>2, <3>3
  <2>7. Chain(r, initproc)'
    BY <2>2, <2>3, <2>4, <2>5, <2>6 DEF Chain
  <2> QED BY <2>7
<1> QED BY <1>6, <1>7, <1>9, <1>10, <1>11 DEF Lists

\* remove_links takes a child out of the chain, wherever it stands.
LEMMA UnlinkLists ==
  ASSUME TypeOK, Lists, NEW p \in Procs, NEW z \in Procs, parent[z] = p,
         yptr[cptr[p]] = NULL, remove_links(z)
  PROVE  /\ Lists'
         /\ cptr'[p] # NULL => yptr'[cptr'[p]] = NULL
         /\ \A q \in Procs \ {p} : cptr'[q] = cptr[q]
         /\ \A x \in Procs : parent[x] # p =>
              optr'[x] = optr[x] /\ yptr'[x] = yptr[x]
<1> USE ProcAssumption
<1>1. /\ yptr' = [q \in Procs |-> IF q = z THEN NULL
                              ELSE IF q = optr[z] THEN yptr[z] ELSE yptr[q]]
      /\ optr' = [q \in Procs |-> IF q = z THEN NULL
                              ELSE IF q = yptr[z] THEN optr[z] ELSE optr[q]]
      /\ cptr' = IF yptr[z] = NULL
                 THEN [cptr EXCEPT ![p] = optr[z]] ELSE cptr
      /\ parent' = [parent EXCEPT ![z] = NULL]
  BY DEF remove_links
<1>2. PICK s \in Seq(Procs) : Chain(s, p)
  BY DEF Lists
<1>3. PICK k \in 1..Len(s) : s[k] = z
  BY <1>2 DEF Chain, In
<1>4. \A i \in 1..Len(s) : s[i] \in Procs /\ parent[s[i]] = p /\ s[i] # NULL
  BY <1>2 DEF Chain, In
<1>5. /\ Len(s) \in Nat
      /\ \A i, j \in 1..Len(s) : s[i] = s[j] => i = j
      /\ cptr[p] = s[1] /\ optr[z] = Nth(s, k + 1)
      /\ \A i \in 1..Len(s) : optr[s[i]] = Nth(s, i + 1)
      /\ \A i \in 2..Len(s) : yptr[s[i]] = s[i - 1]
  BY <1>2, <1>3 DEF Chain, Distinct, Nth
<1>6. /\ k = 1 => yptr[z] = NULL
      /\ k # 1 => k - 1 \in 1..Len(s) /\ yptr[z] = s[k - 1]
  BY <1>3, <1>5
<1>7. /\ k = Len(s) => optr[z] = NULL
      /\ k # Len(s) => k + 1 \in 1..Len(s) /\ optr[z] = s[k + 1]
  BY <1>5 DEF Nth
<1>8. /\ \A q \in Procs \ {z, optr[z]} : yptr'[q] = yptr[q]
      /\ optr[z] \in Procs \ {z} => yptr'[optr[z]] = yptr[z]
      /\ \A q \in Procs \ {z, yptr[z]} : optr'[q] = optr[q]
      /\ yptr[z] \in Procs \ {z} => optr'[yptr[z]] = optr[z]
      /\ yptr[z] = NULL => cptr'[p] = optr[z]
      /\ yptr[z] # NULL => cptr'[p] = cptr[p]
      /\ \A q \in Procs \ {p} : cptr'[q] = cptr[q]
      /\ parent'[z] = NULL /\ \A q \in Procs \ {z} : parent'[q] = parent[q]
  BY <1>1 DEF TypeOK
<1>9. ASSUME NEW x \in Procs, parent[x] # p
      PROVE  optr'[x] = optr[x] /\ yptr'[x] = yptr[x]
  <2>1. x # z /\ x # optr[z] /\ x # yptr[z]
    BY <1>4, <1>6, <1>7, <1>9
  <2> QED BY <1>8, <2>1
<1>10. ASSUME NEW q \in Procs, q # p
       PROVE  \E t \in Seq(Procs) : Chain(t, q)'
  <2>1. PICK t \in Seq(Procs) : Chain(t, q)
    BY DEF Lists
  <2>2. \A x \in Procs : parent'[x] = q <=> parent[x] = q
    BY <1>8, <1>10
  <2>3. \A x \in Procs : parent[x] = q =>
          optr'[x] = optr[x] /\ yptr'[x] = yptr[x]
    BY <1>9, <1>10
  <2>4. Chain(t, q)'
    BY <1>8, <1>10, <2>1, <2>2, <2>3, OtherChain
  <2> QED BY <2>4
<1>11. (\E t \in Seq(Procs) : Chain(t, p)')
       /\ (cptr'[p] # NULL => yptr'[cptr'[p]] = NULL)
  <2>0. Distinct(s)
    BY <1>2 DEF Chain
  <2>1. PICK r \in Seq(Procs) :
           /\ Distinct(r) /\ Len(r) = Len(s) - 1
           /\ \A i \in 1..Len(r) : r[i] = IF i < k THEN s[i] ELSE s[i + 1]
           /\ \A x \in Procs : In(r, x) <=> In(s, x) /\ x # s[k]
    BY <2>0, DropFacts
  <2>2. \A x \in Procs : In(r, x) <=> parent'[x] = p
    BY <1>2, <1>3, <1>8, <2>1 DEF Chain
  <2>3. \A i \in 1..Len(r) :
          /\ i < k => i \in 1..Len(s) /\ r[i] = s[i]
          /\ ~(i < k) => i + 1 \in 1..Len(s) /\ r[i] = s[i + 1]
    BY <1>5, <2>1
  <2>4. cptr'[p] = Nth(r, 1)
    <3>1. CASE k = 1
      <4>1. cptr'[p] = Nth(s, 2)
        BY <1>5, <1>6, <1>8, <3>1
      <4>2. 1 \in 1..Len(r) <=> 2 \in 1..Len(s)
        BY <1>5, <2>1
      <4>3. 1 \in 1..Len(r) => r[1] = s[2]
        BY <2>3, <3>1
      <4> QED BY <4>1, <4>2, <4>3 DEF Nth
    <3>2. CASE k # 1
      <4>1. cptr'[p] = s[1] /\ 1 \in 1..Len(r) /\ 1 < k
        BY <1>4, <1>5, <1>6, <1>8, <2>1, <3>2
      <4> QED BY <2>3, <4>1 DEF Nth
    <3> QED BY <3>1, <3>2
  <2>5. ASSUME NEW i \in 1..Len(r) PROVE optr'[r[i]] = Nth(r, i + 1)
    <3>1. CASE i + 1 < k
      <4>1. r[i] = s[i] /\ i \in 1..Len(s) /\ k # 1 /\ i # k - 1 /\ i # k
            /\ i + 1 \in 1..Len(r) /\ i + 1 \in 1..Len(s) /\ r[i + 1] = s[i + 1]
        BY <1>5, <2>1, <2>3, <3>1
      <4>2. s[i] # z /\ s[i] # yptr[z]
        BY <1>3, <1>5, <1>6, <4>1
      <4>3. optr'[s[i]] = Nth(s, i + 1)
        BY <1>4, <1>5, <1>8, <4>1, <4>2
      <4> QED BY <4>1, <4>3 DEF Nth
    <3>2. CASE i + 1 = k
      <4>1. r[i] = s[i] /\ k # 1 /\ k - 1 = i /\ i < k /\ i \in 1..Len(s)
        BY <1>5, <2>1, <2>3, <3>2
      <4>2. s[i] = yptr[z] /\ s[i] \in Procs \ {z}
        BY <1>3, <1>4, <1>5, <1>6, <4>1
      <4>3. optr'[r[i]] = Nth(s, k + 1)
        BY <1>5, <1>8, <4>1, <4>2
      <4>4. k \in 1..Len(r) <=> k + 1 \in 1..Len(s)
        BY <1>5, <2>1
      <4>5. k \in 1..Len(r) => r[k] = s[k + 1]
        BY <2>3
      <4> QED BY <3>2, <4>3, <4>4, <4>5 DEF Nth
    <3>3. CASE i + 1 > k
      <4>1. r[i] = s[i + 1] /\ i + 1 \in 1..Len(s) /\ i + 1 # k
            /\ i + 1 # k - 1
        BY <1>5, <2>1, <2>3, <3>3
      <4>2. s[i + 1] # z /\ s[i + 1] # yptr[z]
        BY <1>3, <1>4, <1>5, <1>6, <4>1
      <4>3. optr'[s[i + 1]] = Nth(s, (i + 1) + 1)
        BY <1>4, <1>5, <1>8, <4>1, <4>2
      <4>4. i + 1 \in 1..Len(r) <=> (i + 1) + 1 \in 1..Len(s)
        BY <1>5, <2>1
      <4>5. i + 1 \in 1..Len(r) => r[i + 1] = s[(i + 1) + 1]
        BY <2>3, <3>3
      <4> QED BY <4>1, <4>3, <4>4, <4>5 DEF Nth
    <3> QED BY <3>1, <3>2, <3>3
  <2>6. ASSUME NEW i \in 2..Len(r) PROVE yptr'[r[i]] = r[i - 1]
    <3>0. i \in 1..Len(r) /\ i - 1 \in 1..Len(r)
      BY <1>5, <2>1
    <3>1. CASE i < k
      <4>1. r[i] = s[i] /\ i \in 2..Len(s) /\ i \in 1..Len(s) /\ i # k
            /\ i # k + 1 /\ r[i - 1] = s[i - 1]
        <5>1. i - 1 < k /\ i # k /\ i # k + 1
          BY <3>1
        <5>2. r[i] = s[i] /\ i \in 1..Len(s) /\ r[i - 1] = s[i - 1]
          BY <2>3, <3>0, <3>1, <5>1
        <5>3. i \in 2..Len(s)
          BY <1>5, <5>2
        <5> QED BY <5>1, <5>2, <5>3
      <4>2. s[i] # z /\ s[i] # optr[z]
        BY <1>3, <1>4, <1>5, <1>7, <4>1
      <4>3. yptr'[s[i]] = s[i - 1]
        BY <1>4, <1>5, <1>8, <4>1, <4>2
      <4> QED BY <4>1, <4>3
    <3>2. CASE i = k
      <4>1. r[i] = s[k + 1] /\ k # 1 /\ k # Len(s) /\ r[i - 1] = s[k - 1]
        BY <1>5, <2>1, <2>3, <3>0, <3>2
      <4>2. optr[z] = s[k + 1] /\ s[k + 1] \in Procs \ {z}
        BY <1>3, <1>4, <1>5, <1>7, <4>1
      <4> QED BY <1>6, <1>8, <4>1, <4>2
    <3>3. CASE i > k
      <4>1. r[i] = s[i + 1] /\ i + 1 \in 2..Len(s) /\ i + 1 \in 1..Len(s)
            /\ i + 1 # k /\ i + 1 # k + 1 /\ r[i - 1] = s[(i - 1) + 1]
            /\ (i - 1) + 1 = i /\ (i + 1) - 1 = i
        <5>1. ~(i < k) /\ ~(i - 1 < k) /\ i + 1 # k /\ i + 1 # k + 1
              /\ (i - 1) + 1 = i /\ (i + 1) - 1 = i
          BY <3>3
        <5>2. r[i] = s[i + 1] /\ i + 1 \in 1..Len(s)
              /\ r[i - 1] = s[(i - 1) + 1]
          BY <2>3, <3>0, <5>1
        <5>3. i + 1 \in 2..Len(s)
          BY <1>5, <5>2
        <5> QED BY <5>1, <5>2, <5>3
      <4>2. s[i + 1] # z /\ s[i + 1] # optr[z]
        BY <1>3, <1>4, <1>5, <1>7, <4>1
      <4>3. yptr'[s[i + 1]] = s[(i + 1) - 1]
        BY <1>4, <1>5, <1>8, <4>1, <4>2
      <4> QED BY <4>1, <4>3
    <3> QED BY <3>1, <3>2, <3>3
  <2>7. Chain(r, p)'
    BY <2>1, <2>2, <2>4, <2>5, <2>6 DEF Chain
  <2>8. cptr'[p] # NULL => yptr'[cptr'[p]] = NULL
    <3>1. CASE k = 1
      <4>1. cptr'[p] = optr[z] /\ yptr[z] = NULL
        BY <1>6, <1>8, <3>1
      <4>2. CASE k # Len(s)
        <5>1. optr[z] \in Procs \ {z}
          <6>1. k + 1 \in 1..Len(s) /\ optr[z] = s[k + 1] /\ k # k + 1
            BY <1>7, <4>2
          <6>2. s[k] # s[k + 1]
            BY <1>5, <6>1
          <6> QED BY <1>3, <1>4, <6>1, <6>2
        <5> QED BY <1>8, <4>1, <5>1
      <4> QED BY <1>7, <4>1, <4>2
    <3>2. CASE k # 1
      <4>1. cptr'[p] = s[1] /\ 1 \in 1..Len(s) /\ 1 # k /\ 1 # k + 1
        BY <1>4, <1>5, <1>6, <1>8, <3>2
      <4>2. s[1] # z /\ s[1] # optr[z] /\ s[1] \in Procs
        BY <1>3, <1>4, <1>5, <1>7, <4>1
      <4> QED BY <1>5, <1>8, <4>1, <4>2
    <3> QED BY <3>1, <3>2
  <2> QED BY <2>7, <2>8
<1>12. Lists'
  BY <1>10, <1>11 DEF Lists
<1> QED BY <1>8, <1>9, <1>11, <1>12

-----------------------------------------------------------------------------
LEMMA HeadParent ==
  ASSUME Lists, NEW q \in Procs, cptr[q] # NULL
  PROVE  cptr[q] \in Procs /\ parent[cptr[q]] = q
<1>1. PICK s \in Seq(Procs) : Chain(s, q)
  BY DEF Lists
<1>2. 1 \in 1..Len(s) /\ cptr[q] = s[1]
  BY <1>1 DEF Chain, Nth
<1>3. s[1] \in Procs /\ In(s, s[1])
  BY <1>2 DEF In
<1> QED BY <1>1, <1>2, <1>3 DEF Chain

\* do_fork makes a child that nobody is related to yet.
LEMMA ForkFamily ==
  ASSUME IInv, FInv, NEW p \in Procs, Spawn \/ Fork(p)
  PROVE  FInv'
<1> USE ProcAssumption
<1>0. /\ TypeOK /\ CtrlOK /\ Lists /\ Heads /\ Vacant /\ Roots /\ Ranked
      /\ Counted /\ NoLostChild /\ InitDoneOK
  BY DEF IInv, FInv
<1>00. /\ pc \in [Procs -> Labels] /\ state \in [Procs -> States]
       /\ wait_state \in [Procs -> WaitStates]
       /\ parent \in [Procs -> Procs \cup {NULL}]
       /\ cptr \in [Procs -> Procs \cup {NULL}]
       /\ yptr \in [Procs -> Procs \cup {NULL}]
       /\ optr \in [Procs -> Procs \cup {NULL}] /\ nr_process \in Int
  BY <1>0 DEF TypeOK
<1>1. PICK m \in Procs, c \in Procs, b \in BOOLEAN :
        /\ do_fork(m, c, b) /\ pc[m] \in {"init_spawn", "user"}
        /\ pc'[c] \in {"thread", "user"} \/ m = c
        /\ pc'[m] \in {"init_spawn", "trapret"} \/ m = c
        /\ m = initproc => pc'[m] = "init_spawn" \/ m = c
        /\ \A q \in Procs \ {m, c} : pc'[q] = pc[q]
  <2>1. CASE Spawn
    <3>1. PICK c \in Procs : /\ do_fork(initproc, c, TRUE)
                             /\ pc' = [pc EXCEPT ![c] = "thread"]
      BY <2>1 DEF Spawn
    <3>2. pc[initproc] = "init_spawn"
      BY <2>1 DEF Spawn, At
    <3> QED BY <1>00, <3>1, <3>2
  <2>2. CASE Fork(p)
    <3>1. PICK c \in Procs : /\ do_fork(p, c, FALSE)
                             /\ pc' = [pc EXCEPT ![c] = "user", ![p] = "trapret"]
      BY <2>2 DEF Fork
    <3>2. pc[p] = "user"
      BY <2>2 DEF Fork, At
    <3>3. p # initproc
      BY <3>2, InitStays DEF InitLabels
    <3> QED BY <1>00, <3>1, <3>2, <3>3
  <2> QED BY <2>1, <2>2
<1>2. /\ state[c] = "UNUSED" /\ set_links(m, c)
      /\ state' = [state EXCEPT ![c] = "RUNNABLE"]
      /\ wait_state' = [wait_state EXCEPT ![m] = "WT_NONE"]
      /\ wpid' = wpid
  BY <1>1 DEF do_fork
<1>3. /\ m # c /\ m # idleproc /\ c # idleproc /\ c # initproc
      /\ parent[c] = NULL /\ cptr[c] = NULL /\ state[m] # "UNUSED"
  <2>1. state[m] # "UNUSED"
    BY <1>0, <1>1 DEF CtrlOK, InKernelOK
  <2>2. m # idleproc
    BY <1>0, <1>1 DEF CtrlOK
  <2>3. state[idleproc] # "UNUSED" /\ state[initproc] # "UNUSED"
    BY <1>0 DEF CtrlOK, InKernelOK, Roots
  <2>4. parent[c] = NULL /\ cptr[c] = NULL
    BY <1>0, <1>2 DEF Vacant
  <2> QED BY <1>2, <2>1, <2>2, <2>3, <2>4
<1>4. /\ parent'[c] = m /\ \A q \in Procs \ {c} : parent'[q] = parent[q]
      /\ \A q \in Procs \ {c} : optr'[q] = optr[q]
      /\ cptr'[m] = c /\ \A q \in Procs \ {m} : cptr'[q] = cptr[q]
      /\ yptr'[c] = NULL
      /\ \A q \in Procs \ {c, cptr[m]} : yptr'[q] = yptr[q]
      /\ nr_process' = nr_process + 1
  BY <1>00, <1>2 DEF set_links
<1>5. /\ state'[c] = "RUNNABLE" /\ \A q \in Procs \ {c} : state'[q] = state[q]
      /\ \A q \in Procs : wait_state'[q] \in {wait_state[q], "WT_NONE"}
  BY <1>00, <1>2
<1>6. Lists'
  BY <1>0, <1>2, <1>3, LinkLists
<1>7. Heads'
  <2>1. ASSUME NEW q \in Procs, cptr'[q] # NULL, pc'[q] # "adopt"
        PROVE  yptr'[cptr'[q]] = NULL
    <3>1. CASE q = m
      BY <1>4, <3>1
    <3>2. CASE q # m
      <4>1. cptr'[q] = cptr[q] /\ cptr[q] \in Procs /\ parent[cptr[q]] = q
        BY <1>0, <1>4, <2>1, <3>2, HeadParent
      <4>2. q # c
        BY <1>3, <2>1, <4>1
      <4>3. yptr[cptr[q]] = NULL
        BY <1>0, <1>1, <2>1, <3>2, <4>1, <4>2 DEF Heads
      <4>4. cptr[q] # c /\ cptr[q] # cptr[m]
        <5>1. cptr[m] # NULL => parent[cptr[m]] = m
          BY <1>0, HeadParent
        <5> QED BY <1>3, <2>1, <3>2, <4>1, <5>1
      <4> QED BY <1>4, <4>1, <4>3, <4>4
    <3> QED BY <3>1, <3>2
  <2> QED BY <2>1 DEF Heads
<1>8. Vacant'
  <2>1. ASSUME NEW q \in Procs
        PROVE  /\ state'[q] = "UNUSED" => parent'[q] = NULL
               /\ parent'[q] = NULL => optr'[q] = NULL
               /\ state'[q] = "UNUSED" \/ pc'[q] = "exit_sched" =>
                    cptr'[q] = NULL
    <3>1. CASE q = c
      BY <1>1, <1>3, <1>4, <1>5, <3>1
    <3>2. CASE q = m
      BY <1>0, <1>1, <1>3, <1>4, <1>5, <3>2 DEF Vacant
    <3>3. CASE q # c /\ q # m
      BY <1>0, <1>1, <1>4, <1>5, <3>3 DEF Vacant
    <3> QED BY <3>1, <3>2, <3>3
  <2> QED BY <2>1 DEF Vacant
<1>9. pc'[initproc] \in InitLabels
      /\ (pc'[initproc] = "init_done" =>
            pc[initproc] = "init_done" /\ m # initproc)
  <2>1. CASE m = initproc
    BY <1>1, <1>3, <2>1 DEF InitLabels
  <2>2. CASE m # initproc
    BY <1>0, <1>1, <1>3, <2>2 DEF Roots
  <2> QED BY <2>1, <2>2
<1>10. Roots'
  <2>1. \A x \in Procs : parent'[x] = idleproc => x = initproc
    BY <1>0, <1>3, <1>4 DEF Roots
  <2>2. parent'[idleproc] = NULL /\ parent'[initproc] = idleproc
    BY <1>0, <1>3, <1>4 DEF Roots
  <2>3. state'[initproc] \notin {"UNUSED", "ZOMBIE"} /\ wpid'[initproc] = NULL
    BY <1>0, <1>2, <1>3, <1>5 DEF Roots
  <2> QED BY <1>9, <2>1, <2>2, <2>3 DEF Roots
<1>11. Ranked'
  <2>1. PICK rank \in [Procs -> Nat] : RanksOK(rank)
    BY <1>0 DEF Ranked
  <2> DEFINE new == [rank EXCEPT ![c] = rank[m] + 1]
  <2>2. /\ new \in [Procs -> Nat] /\ new[c] = rank[m] + 1
        /\ \A q \in Procs \ {c} : new[q] = rank[q]
    OBVIOUS
  <2> HIDE DEF new
  <2>3. rank[m] \in Nat /\ rank[m] >= 1
    BY <1>3, <2>1 DEF RanksOK
  <2>4. ASSUME NEW x \in Procs \ {idleproc, initproc}, state'[x] # "UNUSED"
        PROVE  new[x] >= 2 /\ new[parent'[x]] < new[x]
    <3>1. CASE x = c
      BY <1>3, <1>4, <2>2, <2>3, <3>1
    <3>2. CASE x # c
      <4>1. state[x] # "UNUSED" /\ parent'[x] = parent[x] /\ x # idleproc
        BY <1>4, <1>5, <2>4, <3>2
      <4>2. parent[x] \in Procs
        BY <1>0, <4>1 DEF CtrlOK, InKernelOK
      <4>3. parent[x] # c
        BY <1>0, <1>3, NoKids
      <4>4. rank[x] >= 2 /\ rank[parent[x]] < rank[x]
        BY <2>1, <4>1 DEF RanksOK
      <4> QED BY <2>2, <3>2, <4>1, <4>2, <4>3, <4>4
    <3> QED BY <3>1, <3>2
  <2>5. new[idleproc] = 0 /\ new[initproc] = 1
    BY <1>3, <2>1, <2>2 DEF RanksOK
  <2>6. RanksOK(new)'
    BY <2>4, <2>5 DEF RanksOK
  <2> QED BY <2>2, <2>6 DEF Ranked
<1>12. Counted'
  <2>1. Live' = Live \cup {c} /\ c \notin Live
    BY <1>2, <1>5 DEF Live
  <2>2. IsFiniteSet(Live) /\ Cardinality(Live) \in Nat
    <3>1. Live \in SUBSET Procs
      BY DEF Live
    <3> QED BY <3>1, FS_Subset, FS_CardinalityType
  <2>3. Cardinality(Live \cup {c}) = Cardinality(Live) + 1
    BY <2>1, <2>2, FS_AddElement
  <2> QED BY <1>0, <1>4, <2>1, <2>3 DEF Counted
<1>13. NoLostChild'
  <2>1. SUFFICES ASSUME NEW a \in Procs, NEW z \in Procs,
                        wait_state'[a] = "WT_CHILD",
                        state'[z] = "ZOMBIE", parent'[z] = a
                 PROVE  wpid'[a] \notin {NULL, z}
    BY DEF NoLostChild
  <2>2. z # c /\ state[z] = "ZOMBIE" /\ parent[z] = a
    BY <1>4, <1>5, <2>1
  <2>3. wait_state[a] = "WT_CHILD"
    BY <1>5, <2>1
  <2> QED BY <1>0, <1>2, <2>2, <2>3 DEF NoLostChild
<1>14. InitDoneOK'
  <2>1. ASSUME pc'[initproc] = "init_done" PROVE FALSE
    <3>1. Live = {idleproc, initproc} /\ m # initproc
      BY <1>0, <1>9, <2>1 DEF InitDoneOK
    <3>2. m \in Live
      BY <1>3 DEF Live
    <3> QED BY <1>3, <3>1, <3>2
  <2> QED BY <2>1 DEF InitDoneOK
<1> QED BY <1>6, <1>7, <1>8, <1>10, <1>11, <1>12, <1>13, <1>14 DEF FInv

\* An orphan becomes a child of initproc, which is told if the orphan is dead.
LEMMA AdoptFamily ==
  ASSUME IInv, FInv, NEW p \in Procs, Adopt(p)
  PROVE  FInv'
<1> USE ProcAssumption
<1>0. /\ TypeOK /\ WaitStateOK /\ CtrlOK /\ Lists /\ Heads /\ Vacant /\ Roots
      /\ Ranked /\ Counted /\ NoLostChild /\ InitDoneOK
  BY DEF IInv, FInv
<1>00. /\ state \in [Procs -> States] /\ wait_state \in [Procs -> WaitStates]
       /\ parent \in [Procs -> Procs \cup {NULL}]
       /\ cptr \in [Procs -> Procs \cup {NULL}]
       /\ yptr \in [Procs -> Procs \cup {NULL}]
       /\ optr \in [Procs -> Procs \cup {NULL}]
  BY <1>0 DEF TypeOK
<1>1. PICK c \in Procs : c = cptr[p]
  BY <1>00 DEF Adopt
<1>2. /\ pc[p] = "adopt" /\ AdoptLinks(p, c)
      /\ IF state[c] = "ZOMBIE" /\ wait_state[initproc] = "WT_CHILD"
         THEN wakeup_proc(initproc, state)
         ELSE UNCHANGED <<state, wait_state, run_list, time_slice>>
      /\ pc' = pc /\ nr_process' = nr_process /\ wpid' = wpid
  BY <1>1 DEF Adopt, At, AdoptLinks, self
<1>3. p # initproc /\ p # idleproc /\ state[p] = "ZOMBIE"
  BY <1>0, <1>2, InitStays DEF CtrlOK, InKernelOK, InitLabels
<1>4. Lists' /\ parent[c] = p /\ cptr[initproc] # c
  BY <1>0, <1>1, <1>2, <1>3, AdoptLists
<1>5. c # initproc /\ c # idleproc
  BY <1>0, <1>3, <1>4 DEF Roots
<1>6. /\ parent'[c] = initproc
      /\ \A q \in Procs \ {c} : parent'[q] = parent[q] /\ optr'[q] = optr[q]
      /\ cptr'[initproc] = c
      /\ \A q \in Procs \ {p, initproc} : cptr'[q] = cptr[q]
      /\ yptr'[c] = NULL
      /\ \A q \in Procs \ {c, cptr[initproc]} : yptr'[q] = yptr[q]
  BY <1>00, <1>2, <1>4 DEF AdoptLinks
<1>7. /\ \A q \in Procs : /\ state'[q] = "UNUSED" <=> state[q] = "UNUSED"
                          /\ state'[q] = "ZOMBIE" => state[q] = "ZOMBIE"
                          /\ wait_state'[q] \in {wait_state[q], "WT_NONE"}
      /\ state[c] = "ZOMBIE" => wait_state'[initproc] # "WT_CHILD"
      /\ state'[initproc] \notin {"UNUSED", "ZOMBIE"}
  <2>0. state[initproc] \notin {"UNUSED", "ZOMBIE"}
    BY <1>0 DEF Roots
  <2>1. CASE state[c] = "ZOMBIE" /\ wait_state[initproc] = "WT_CHILD"
    <3>1. wakeup_proc(initproc, state)
      BY <1>2, <2>1
    <3>2. state[initproc] # "RUNNABLE"
      BY <1>0, <2>1 DEF WaitStateOK
    <3>3. /\ state' = [state EXCEPT ![initproc] = "RUNNABLE"]
          /\ \A q \in Procs : wait_state'[q] \in {wait_state[q], "WT_NONE"}
          /\ wait_state'[initproc] = "WT_NONE"
      BY <1>0, <1>00, <3>1, <3>2, WakeLight
    <3> QED BY <1>00, <2>0, <3>3
  <2>2. CASE ~(state[c] = "ZOMBIE" /\ wait_state[initproc] = "WT_CHILD")
    BY <1>2, <2>0, <2>2
  <2> QED BY <2>1, <2>2
<1>8. Heads'
  <2>1. ASSUME NEW q \in Procs, cptr'[q] # NULL, pc'[q] # "adopt"
        PROVE  yptr'[cptr'[q]] = NULL
    <3>1. CASE q = initproc
      BY <1>6, <3>1
    <3>2. CASE q # initproc
      <4>1. q # p /\ pc[q] # "adopt"
        BY <1>2, <2>1
      <4>2. cptr'[q] = cptr[q]
        BY <1>6, <3>2, <4>1
      <4>3. cptr[q] \in Procs /\ parent[cptr[q]] = q /\ yptr[cptr[q]] = NULL
        BY <1>0, <2>1, <4>1, <4>2, HeadParent DEF Heads
      <4>4. cptr[q] # c /\ cptr[q] # cptr[initproc]
        <5>1. cptr[initproc] # NULL => parent[cptr[initproc]] = initproc
          BY <1>0, HeadParent
        <5> QED BY <1>4, <2>1, <3>2, <4>1, <4>2, <4>3, <5>1
      <4> QED BY <1>6, <4>2, <4>3, <4>4
    <3> QED BY <3>1, <3>2
  <2> QED BY <2>1 DEF Heads
<1>9. Vacant'
  <2>1. ASSUME NEW q \in Procs
        PROVE  /\ state'[q] = "UNUSED" => parent'[q] = NULL
               /\ parent'[q] = NULL => optr'[q] = NULL
               /\ state'[q] = "UNUSED" \/ pc'[q] = "exit_sched" =>
                    cptr'[q] = NULL
    <3>1. /\ state[q] = "UNUSED" => parent[q] = NULL
          /\ parent[q] = NULL => optr[q] = NULL
          /\ state[q] = "UNUSED" \/ pc[q] = "exit_sched" => cptr[q] = NULL
      BY <1>0 DEF Vacant
    <3>2. state'[q] = "UNUSED" => parent'[q] = NULL
      BY <1>4, <1>6, <1>7, <3>1
    <3>3. parent'[q] = NULL => optr'[q] = NULL
      BY <1>6, <3>1
    <3>4. state'[q] = "UNUSED" \/ pc'[q] = "exit_sched" => cptr'[q] = NULL
      <4>1. CASE q = p
        BY <1>2, <1>3, <1>7, <4>1
      <4>2. CASE q = initproc
        BY <1>0, <1>2, <1>7, <4>2 DEF Roots, InitLabels
      <4>3. CASE q # p /\ q # initproc
        BY <1>2, <1>6, <1>7, <3>1, <4>3
      <4> QED BY <4>1, <4>2, <4>3
    <3> QED BY <3>2, <3>3, <3>4
  <2> QED BY <2>1 DEF Vacant
<1>10. Roots'
  <2>1. \A x \in Procs : parent'[x] = idleproc => x = initproc
    BY <1>0, <1>6 DEF Roots
  <2>2. parent'[idleproc] = NULL /\ parent'[initproc] = idleproc
    BY <1>0, <1>5, <1>6 DEF Roots
  <2> QED BY <1>0, <1>2, <1>7, <2>1, <2>2 DEF Roots
<1>11. Ranked'
  <2>1. PICK rank \in [Procs -> Nat] : RanksOK(rank)
    BY <1>0 DEF Ranked
  <2>2. ASSUME NEW x \in Procs \ {idleproc, initproc}, state'[x] # "UNUSED"
        PROVE  rank[x] >= 2 /\ rank[parent'[x]] < rank[x]
    <3>1. rank[x] >= 2 /\ rank[parent[x]] < rank[x] /\ rank[initproc] = 1
      BY <1>7, <2>1, <2>2 DEF RanksOK
    <3>2. CASE x = c
      BY <1>6, <3>1, <3>2
    <3>3. CASE x # c
      BY <1>6, <3>1, <3>3
    <3> QED BY <3>2, <3>3
  <2>3. RanksOK(rank)'
    BY <2>1, <2>2 DEF RanksOK
  <2> QED BY <2>3 DEF Ranked
<1>12. Counted'
  <2>1. Live' = Live
    BY <1>7 DEF Live
  <2> QED BY <1>0, <1>2, <2>1 DEF Counted
<1>13. NoLostChild'
  <2>1. SUFFICES ASSUME NEW a \in Procs, NEW z \in Procs,
                        wait_state'[a] = "WT_CHILD",
                        state'[z] = "ZOMBIE", parent'[z] = a
                 PROVE  wpid'[a] \notin {NULL, z}
    BY DEF NoLostChild
  <2>2. state[z] = "ZOMBIE" /\ wait_state[a] = "WT_CHILD"
    BY <1>7, <2>1
  <2>3. z # c
    BY <1>6, <1>7, <2>1, <2>2
  <2> QED BY <1>0, <1>2, <1>6, <2>1, <2>2, <2>3 DEF NoLostChild
<1>14. InitDoneOK'
  <2>1. ASSUME pc'[initproc] = "init_done" PROVE FALSE
    <3>1. Live = {idleproc, initproc}
      BY <1>0, <1>2, <2>1 DEF InitDoneOK
    <3>2. p \in Live
      BY <1>3 DEF Live
    <3> QED BY <1>3, <3>1, <3>2
  <2> QED BY <2>1 DEF InitDoneOK
<1> QED BY <1>4, <1>8, <1>9, <1>10, <1>11, <1>12, <1>13, <1>14 DEF FInv

\* do_wait frees a zombie that has no children left.
LEMMA ReapFamily ==
  ASSUME IInv, FInv, NEW p \in Procs, WaitReap(p)
  PROVE  FInv'
<1> USE ProcAssumption
<1>0. /\ TypeOK /\ WaitStateOK /\ CtrlOK /\ Lists /\ Heads /\ Vacant /\ Roots
      /\ Ranked /\ Counted /\ NoLostChild /\ InitDoneOK
  BY DEF IInv, FInv
<1>00. /\ pc \in [Procs -> Labels] /\ state \in [Procs -> States]
       /\ parent \in [Procs -> Procs \cup {NULL}]
       /\ optr \in [Procs -> Procs \cup {NULL}]
       /\ wpid \in [Procs -> Procs \cup {NULL}] /\ nr_process \in Int
  BY <1>0 DEF TypeOK
<1>1. PICK z \in Procs :
        /\ found(p, z) /\ remove_links(z)
        /\ state' = [state EXCEPT ![z] = "UNUSED"]
        /\ wpid' = [wpid EXCEPT ![p] = NULL, ![z] = NULL]
        /\ pc' = [pc EXCEPT ![z] = "none",
                   ![p] = IF p = initproc THEN "init_sched" ELSE "trapret"]
  BY DEF WaitReap
<1>2. pc[p] = "wait" /\ p = current /\ wait_state' = wait_state
  BY DEF WaitReap, At
<1>3. state[z] = "ZOMBIE" /\ parent[z] = p
  <2>1. CASE wpid[p] = NULL
    <3>1. PICK n \in 0..(Cardinality(Procs) - 1) :
            KidAt(p, n) = z /\ z # NULL /\ state[z] = "ZOMBIE"
      BY <1>1, <2>1 DEF found, FirstZombie
    <3>2. n \in Nat
      BY FS_CardinalityType
    <3> QED BY <1>0, <3>1, <3>2, KidsFacts
  <2>2. CASE wpid[p] # NULL
    BY <1>1, <2>2 DEF found, haskid
  <2> QED BY <2>1, <2>2
<1>4. /\ z # p /\ z # initproc /\ z # idleproc /\ p # idleproc
      /\ cptr[z] = NULL /\ wait_state[z] # "WT_CHILD"
      /\ wait_state[p] # "WT_CHILD" /\ state[p] # "UNUSED"
  <2>1. /\ wait_state[p] # "WT_CHILD" /\ state[p] \notin {"UNUSED", "ZOMBIE"}
        /\ pc[z] \in {"adopt", "exit_sched"} /\ p # idleproc
    BY <1>0, <1>2, <1>3 DEF CtrlOK, InKernelOK
  <2>2. z # p /\ z # initproc /\ z # idleproc
    BY <1>0, <1>3, <2>1 DEF Roots, CtrlOK
  <2>3. pc[z] = "exit_sched"
    BY <1>0, <1>2, <2>1, <2>2 DEF CtrlOK, InKernelOK
  <2>4. cptr[z] = NULL /\ wait_state[z] # "WT_CHILD"
    BY <1>0, <1>3, <2>3 DEF Vacant, WaitStateOK
  <2> QED BY <2>1, <2>2, <2>4
<1>5. /\ state'[z] = "UNUSED" /\ \A q \in Procs \ {z} : state'[q] = state[q]
      /\ pc'[z] = "none"
      /\ pc'[p] = (IF p = initproc THEN "init_sched" ELSE "trapret")
      /\ \A q \in Procs \ {z, p} : pc'[q] = pc[q] /\ wpid'[q] = wpid[q]
      /\ wpid'[p] = NULL
  BY <1>00, <1>1, <1>4
<1>6. /\ parent'[z] = NULL /\ optr'[z] = NULL
      /\ \A q \in Procs \ {z} : parent'[q] = parent[q]
      /\ nr_process' = nr_process - 1
  BY <1>00, <1>1 DEF remove_links
<1>7. yptr[cptr[p]] = NULL
  <2>1. cptr[p] # NULL
    BY <1>0, <1>3, NoKids
  <2> QED BY <1>0, <1>2, <2>1 DEF Heads
<1>8. /\ Lists'
      /\ cptr'[p] # NULL => yptr'[cptr'[p]] = NULL
      /\ \A q \in Procs \ {p} : cptr'[q] = cptr[q]
      /\ \A x \in Procs : parent[x] # p =>
           optr'[x] = optr[x] /\ yptr'[x] = yptr[x]
  BY <1>0, <1>1, <1>3, <1>7, UnlinkLists
<1>9. Heads'
  <2>1. ASSUME NEW q \in Procs, cptr'[q] # NULL, pc'[q] # "adopt"
        PROVE  yptr'[cptr'[q]] = NULL
    <3>1. CASE q = p
      BY <1>8, <2>1, <3>1
    <3>2. CASE q # p
      <4>1. cptr'[q] = cptr[q] /\ q # z
        BY <1>4, <1>8, <2>1, <3>2
      <4>2. cptr[q] \in Procs /\ parent[cptr[q]] = q /\ yptr[cptr[q]] = NULL
        BY <1>0, <1>5, <2>1, <3>2, <4>1, HeadParent DEF Heads
      <4> QED BY <1>8, <3>2, <4>1, <4>2
    <3> QED BY <3>1, <3>2
  <2> QED BY <2>1 DEF Heads
<1>10. Vacant'
  <2>1. ASSUME NEW q \in Procs
        PROVE  /\ state'[q] = "UNUSED" => parent'[q] = NULL
               /\ parent'[q] = NULL => optr'[q] = NULL
               /\ state'[q] = "UNUSED" \/ pc'[q] = "exit_sched" =>
                    cptr'[q] = NULL
    <3>1. /\ state[q] = "UNUSED" => parent[q] = NULL
          /\ parent[q] = NULL => optr[q] = NULL
          /\ state[q] = "UNUSED" \/ pc[q] = "exit_sched" => cptr[q] = NULL
      BY <1>0 DEF Vacant
    <3>2. CASE q = z
      BY <1>4, <1>6, <1>8, <3>2
    <3>3. CASE q = p
      BY <1>4, <1>5, <1>6, <1>8, <3>1, <3>3
    <3>4. CASE q # z /\ q # p
      BY <1>5, <1>6, <1>8, <3>1, <3>4
    <3> QED BY <3>2, <3>3, <3>4
  <2> QED BY <2>1 DEF Vacant
<1>11. Roots'
  <2>1. \A x \in Procs : parent'[x] = idleproc => x = initproc
    BY <1>0, <1>6 DEF Roots
  <2>2. parent'[idleproc] = NULL /\ parent'[initproc] = idleproc
        /\ state'[initproc] \notin {"UNUSED", "ZOMBIE"}
    BY <1>0, <1>4, <1>5, <1>6 DEF Roots
  <2>3. pc'[initproc] \in InitLabels /\ wpid'[initproc] = NULL
    BY <1>0, <1>4, <1>5 DEF Roots, InitLabels
  <2> QED BY <2>1, <2>2, <2>3 DEF Roots
<1>12. Ranked'
  <2>1. PICK rank \in [Procs -> Nat] : RanksOK(rank)
    BY <1>0 DEF Ranked
  <2>2. ASSUME NEW x \in Procs \ {idleproc, initproc}, state'[x] # "UNUSED"
        PROVE  rank[x] >= 2 /\ rank[parent'[x]] < rank[x]
    <3>1. x # z
      BY <1>5, <2>2
    <3> QED BY <1>5, <1>6, <2>1, <2>2, <3>1 DEF RanksOK
  <2>3. RanksOK(rank)'
    BY <2>1, <2>2 DEF RanksOK
  <2> QED BY <2>3 DEF Ranked
<1>13. Counted'
  <2>1. Live' = Live \ {z} /\ z \in Live
    BY <1>3, <1>5 DEF Live
  <2>2. IsFiniteSet(Live)
    <3>1. Live \in SUBSET Procs
      BY DEF Live
    <3> QED BY <3>1, FS_Subset
  <2>3. Cardinality(Live \ {z}) = Cardinality(Live) - 1
    BY <2>1, <2>2, FS_RemoveElement
  <2> QED BY <1>0, <1>6, <2>1, <2>3 DEF Counted
<1>14. NoLostChild'
  <2>1. SUFFICES ASSUME NEW a \in Procs, NEW y \in Procs,
                        wait_state'[a] = "WT_CHILD",
                        state'[y] = "ZOMBIE", parent'[y] = a
                 PROVE  wpid'[a] \notin {NULL, y}
    BY DEF NoLostChild
  <2>2. a # p /\ a # z /\ wait_state[a] = "WT_CHILD" /\ wpid'[a] = wpid[a]
    BY <1>2, <1>4, <1>5, <2>1
  <2>3. y # z /\ state[y] = "ZOMBIE" /\ parent[y] = a
    BY <1>5, <1>6, <2>1
  <2> QED BY <1>0, <2>2, <2>3 DEF NoLostChild
<1>15. InitDoneOK'
  <2>1. ASSUME pc'[initproc] = "init_done" PROVE FALSE
    <3>1. pc[initproc] = "init_done"
      BY <1>4, <1>5, <2>1
    <3>2. Live = {idleproc, initproc}
      BY <1>0, <3>1 DEF InitDoneOK
    <3>3. z \in Live
      BY <1>3 DEF Live
    <3> QED BY <1>4, <3>2, <3>3
  <2> QED BY <2>1 DEF InitDoneOK
<1> QED BY <1>8, <1>9, <1>10, <1>11, <1>12, <1>13, <1>14, <1>15 DEF FInv

-----------------------------------------------------------------------------
LEMMA FamilyInit == Init => FInv
<1> USE ProcAssumption
<1> SUFFICES ASSUME Init PROVE FInv
  OBVIOUS
<1>1. /\ parent = [p \in Procs |-> IF p = initproc THEN idleproc ELSE NULL]
      /\ cptr = [p \in Procs |-> IF p = idleproc THEN initproc ELSE NULL]
      /\ yptr = [p \in Procs |-> NULL] /\ optr = [p \in Procs |-> NULL]
  BY DEF Init
<1>2. Lists
  <2>1. ASSUME NEW p \in Procs PROVE \E s \in Seq(Procs) : Chain(s, p)
    <3>1. CASE p = idleproc
      <4> DEFINE s == <<initproc>>
      <4>1. s \in Seq(Procs) /\ Len(s) = 1 /\ s[1] = initproc
        OBVIOUS
      <4> HIDE DEF s
      <4>2. \A c \in Procs : In(s, c) <=> c = initproc
        BY <4>1 DEF In
      <4>3. Chain(s, p)
        BY <1>1, <3>1, <4>1, <4>2 DEF Chain, Distinct, Nth
      <4> QED BY <4>1, <4>3
    <3>2. CASE p # idleproc
      <4> DEFINE s == <<>>
      <4>1. s \in Seq(Procs) /\ Len(s) = 0
        OBVIOUS
      <4> HIDE DEF s
      <4>2. \A c : ~In(s, c)
        BY <4>1 DEF In
      <4>3. Chain(s, p)
        BY <1>1, <3>2, <4>1, <4>2 DEF Chain, Distinct, Nth
      <4> QED BY <4>1, <4>3
    <3> QED BY <3>1, <3>2
  <2> QED BY <2>1 DEF Lists
<1>3. Heads /\ Vacant
  BY DEF Heads, Vacant, Init
<1>4. Roots
  BY DEF Roots, Init, InitLabels
<1>5. Ranked
  <2> DEFINE rank == [p \in Procs |-> IF p = initproc THEN 1 ELSE 0]
  <2>1. rank \in [Procs -> Nat]
    OBVIOUS
  <2>2. RanksOK(rank)
    BY DEF RanksOK, Init
  <2> QED BY <2>1, <2>2 DEF Ranked
<1>6. Counted
  <2>1. Live = {idleproc} \cup {initproc}
    BY DEF Live, Init
  <2>2. Cardinality({idleproc}) = 1 /\ IsFiniteSet({idleproc})
    BY FS_Singleton
  <2>3. initproc \notin {idleproc}
    OBVIOUS
  <2>4. Cardinality({idleproc} \cup {initproc}) =
          IF initproc \in {idleproc} THEN Cardinality({idleproc})
          ELSE Cardinality({idleproc}) + 1
    BY <2>2, FS_AddElement
  <2>5. nr_process = 2
    BY DEF Init
  <2>6. Cardinality({idleproc} \cup {initproc}) = 2
    BY <2>2, <2>3, <2>4
  <2> QED BY <2>1, <2>5, <2>6, Zenon DEF Counted
<1>7. NoLostChild /\ InitDoneOK
  BY DEF NoLostChild, InitDoneOK, Init
<1> QED BY <1>2, <1>3, <1>4, <1>5, <1>6, <1>7 DEF FInv

LEMMA FamilyStep == IInv /\ FInv /\ [Next]_vars => FInv'
<1> USE ProcAssumption
<1> SUFFICES ASSUME IInv, FInv, [Next]_vars PROVE FInv'
  OBVIOUS
<1>1. ASSUME NEW p \in Procs, UserCall(p) PROVE FInv'
  BY <1>1, ForkFamily, WakeSteps, GotoSteps DEF UserCall
<1>2. ASSUME NEW p \in Procs, ThreadCall(p) PROVE FInv'
  BY <1>2, GotoSteps, WakeSteps DEF ThreadCall
<1>3. ASSUME NEW p \in Procs, KernelStep(p) PROVE FInv'
  BY <1>3, ExitFamily, AdoptFamily, WaitSteps, ReschedSteps, ReapFamily,
     GotoSteps DEF KernelStep
<1>4. CASE InitStep
  BY <1>4, ForkFamily, WakeSteps, GotoSteps, ReschedSteps DEF InitStep
<1>5. CASE Idle
  BY <1>5, ReschedSteps
<1>6. CASE Tick \/ Expire \/ TickEnd
  BY <1>6, WakeSteps
<1>7. CASE Panicked \/ UNCHANGED vars
  BY <1>7, WakeSteps DEF Panicked
<1> QED BY <1>1, <1>2, <1>3, <1>4, <1>5, <1>6, <1>7 DEF Next

\* The family links always agree with each other and with who lives: the
\* chain of every process runs through its children, each once, and ends,
\* nobody's parent is dead, and nr_process is right.
THEOREM FamilyCorrect == Spec => []FamilyOK
<1> QED BY InitOK, StepOK, FamilyInit, FamilyStep, FamilyFromInv, PTL DEF Spec

\* No process ever sleeps in do_wait while the child it waits for is dead,
\* whichever way do_exit, do_wait, do_kill, adoption and the clock interleave.
THEOREM NoLostChildCorrect == Spec => []NoLostChild
<1>1. FInv => NoLostChild
  BY DEF FInv
<1> QED BY InitOK, StepOK, FamilyInit, FamilyStep, <1>1, PTL DEF Spec

\* The assertions at the end of init_main hold: when do_wait tells initproc
\* that it has no child, nobody but it and idleproc is left.
THEOREM InitDoneCorrect == Spec => []InitDoneOK
<1>1. FInv => InitDoneOK
  BY DEF FInv
<1> QED BY InitOK, StepOK, FamilyInit, FamilyStep, <1>1, PTL DEF Spec

-----------------------------------------------------------------------------
(***************************************************************************)
(* The delta list implements independent countdowns.                       *)
(***************************************************************************)
\* s[i] is the sum of the first i deltas.
IsSum(list, s) ==
  /\ s \in [0..Len(list) -> Nat] /\ s[0] = 0
  /\ \A i \in 1..Len(list) : s[i] = s[i - 1] + list[i].expires

\* What a list of timers is made of.
LEMMA DeltasNat ==
  ASSUME NEW list \in Seq(Timers)
  PROVE  /\ Len(list) \in Nat
         /\ \A i \in 1..Len(list) : /\ list[i] \in Timers
                                    /\ list[i].expires \in Nat
                                    /\ list[i].proc \in Procs
<1>1. Len(list) \in Nat /\ \A i \in 1..Len(list) : list[i] \in Timers
  OBVIOUS
<1>2. \A x \in Timers : x.expires \in Nat /\ x.proc \in Procs
  BY DEF Timers
<1> QED BY <1>1, <1>2

\* Every list has its sums: by induction over its prefixes.
LEMMA SumExists ==
  ASSUME NEW list \in Seq(Timers)
  PROVE  \E s : IsSum(list, s)
<1> DEFINE n == Len(list)
           Upto(m) == \E s \in [0..m -> Nat] :
                        /\ s[0] = 0
                        /\ \A i \in 1..m : s[i] = s[i - 1] + list[i].expires
           T == {m \in Nat : m <= n => Upto(m)}
<1>1. n \in Nat /\ \A i \in 1..n : list[i].expires \in Nat
  BY DeltasNat
<1> HIDE DEF n
<1>2. 0 \in T
  <2> DEFINE s == [i \in 0..0 |-> 0]
  <2>1. s \in [0..0 -> Nat] /\ s[0] = 0 /\ 1..0 = {}
    OBVIOUS
  <2> HIDE DEF s
  <2>2. Upto(0)
    BY <2>1
  <2> QED BY <2>2
<1>3. ASSUME NEW m \in T PROVE m + 1 \in T
  <2>1. m \in Nat
    OBVIOUS
  <2>2. CASE m + 1 <= n
    <3>1. PICK s \in [0..m -> Nat] :
            /\ s[0] = 0
            /\ \A i \in 1..m : s[i] = s[i - 1] + list[i].expires
      <4>1. m <= n
        BY <1>1, <2>1, <2>2
      <4>2. Upto(m)
        <5> HIDE DEF Upto
        <5> QED BY <4>1, <2>1
      <4> QED BY <4>2
    <3> DEFINE u == [i \in 0..(m + 1) |->
                       IF i = m + 1 THEN s[m] + list[m + 1].expires ELSE s[i]]
    <3>2. s[m] \in Nat /\ list[m + 1].expires \in Nat
      BY <1>1, <2>1, <2>2
    <3>3. u \in [0..(m + 1) -> Nat]
      BY <2>1, <3>2
    <3>4. /\ \A i \in 0..m : u[i] = s[i]
          /\ u[m + 1] = s[m] + list[m + 1].expires
      BY <2>1
    <3> HIDE DEF u
    <3>5. ASSUME NEW i \in 1..(m + 1)
          PROVE  u[i] = u[i - 1] + list[i].expires
      <4>1. CASE i = m + 1
        BY <2>1, <3>4, <4>1
      <4>2. CASE i # m + 1
        <5>1. i \in 1..m /\ i \in 0..m /\ i - 1 \in 0..m
          BY <2>1, <4>2
        <5> QED BY <3>1, <3>4, <5>1
      <4> QED BY <4>1, <4>2
    <3>6. u[0] = 0
      BY <2>1, <3>1, <3>4
    <3>7. Upto(m + 1)
      BY <3>3, <3>5, <3>6
    <3> HIDE DEF Upto
    <3> QED BY <2>1, <3>7
  <2>3. CASE ~(m + 1 <= n)
    <3> HIDE DEF Upto
    <3> QED BY <2>1, <2>3
  <2> QED BY <2>2, <2>3
<1>4. T = Nat
  <2> HIDE DEF T
  <2>1. T \in SUBSET Nat
    BY DEF T
  <2> QED BY <1>2, <1>3, <2>1, SetInduction
<1>5. Upto(n)
  <2> HIDE DEF Upto
  <2>1. n \in T
    BY <1>1, <1>4
  <2> QED BY <1>1, <2>1
<1> QED BY <1>5 DEF IsSum, n

\* Left reads the sum at the place of p's timer.
LEMMA LeftIsSum ==
  ASSUME NEW list \in Seq(Timers), OneEach(list), NEW s, IsSum(list, s),
         NEW k \in 1..Len(list)
  PROVE  Left(list, list[k].proc) = s[k]
<1> DEFINE n == Len(list)
           Sums(g) == g = [i \in 0..n |-> IF i = 0 THEN 0
                                          ELSE g[i - 1] + list[i].expires]
           sum == CHOOSE g : Sums(g)
           p == list[k].proc
<1>0. n \in Nat
  OBVIOUS
<1>1. (CHOOSE i \in 1..n : list[i].proc = p) = k
  BY DEF OneEach
<1>2. Left(list, p) = sum[CHOOSE i \in 1..n : list[i].proc = p]
  BY DEF Left
<1>3. Sums(s)
  <2>1. ASSUME NEW i \in 0..n
        PROVE  s[i] = IF i = 0 THEN 0 ELSE s[i - 1] + list[i].expires
    <3>1. CASE i = 0
      BY <3>1 DEF IsSum
    <3>2. CASE i # 0
      <4>1. i \in 1..n
        BY <1>0, <3>2
      <4> QED BY <3>2, <4>1 DEF IsSum
    <3> QED BY <3>1, <3>2
  <2>2. s = [i \in 0..n |-> s[i]]
    BY DEF IsSum
  <2> QED BY <2>1, <2>2, Zenon
<1>4. Sums(sum)
  BY <1>3
<1> DEFINE T == {i \in Nat : i <= n => sum[i] = s[i]}
<1> HIDE DEF sum
<1>5. 0 \in T
  BY <1>0, <1>4 DEF IsSum
<1>6. ASSUME NEW i \in T PROVE i + 1 \in T
  <2>1. i \in Nat
    OBVIOUS
  <2>2. CASE i + 1 <= n
    <3>1. /\ i + 1 \in 0..n /\ i + 1 \in 1..n /\ i + 1 # 0
          /\ (i + 1) - 1 = i /\ i <= n
      BY <1>0, <2>1, <2>2
    <3>2. sum[i] = s[i]
      BY <3>1
    <3>3. sum[i + 1] = sum[i] + list[i + 1].expires
      BY <1>4, <3>1
    <3>4. s[i + 1] = s[i] + list[i + 1].expires
      BY <3>1 DEF IsSum
    <3> QED BY <2>1, <3>2, <3>3, <3>4
  <2> QED BY <2>1, <2>2
<1>7. T = Nat
  <2> HIDE DEF T
  <2>1. T \in SUBSET Nat
    BY DEF T
  <2> QED BY <1>5, <1>6, <2>1, SetInduction
<1>8. sum[k] = s[k]
  BY <1>0, <1>7
<1> QED BY <1>1, <1>2, <1>8

\* A list whose head has time left has time left everywhere.
LEMMA SumPositive ==
  ASSUME NEW list \in Seq(Timers), ~HeadExpired(list), NEW s, IsSum(list, s),
         NEW k \in 1..Len(list)
  PROVE  s[k] \in Nat /\ s[k] >= 1
<1> DEFINE n == Len(list)
           T == {i \in Nat : i + 1 <= n => s[i + 1] >= 1}
<1>0. /\ n \in Nat /\ \A i \in 0..n : s[i] \in Nat
      /\ \A i \in 1..n : list[i].expires \in Nat
  BY DeltasNat DEF IsSum
<1>1. 0 \in T
  <2>1. list # <<>> /\ Head(list) = list[1] /\ 1 \in 1..n
    BY <1>0
  <2>2. list[1].expires # 0
    BY <2>1 DEF HeadExpired
  <2>3. s[1] = list[1].expires
    BY <1>0, <2>1 DEF IsSum
  <2> QED BY <1>0, <2>1, <2>2, <2>3
<1>2. ASSUME NEW i \in T PROVE i + 1 \in T
  <2>1. i \in Nat
    OBVIOUS
  <2>2. CASE (i + 1) + 1 <= n
    <3>1. /\ i + 1 <= n /\ (i + 1) + 1 \in 1..n /\ ((i + 1) + 1) - 1 = i + 1
          /\ i + 1 \in 0..n
      BY <1>0, <2>1, <2>2
    <3>2. s[i + 1] >= 1 /\ s[i + 1] \in Nat
      BY <1>0, <3>1
    <3>3. s[(i + 1) + 1] = s[i + 1] + list[(i + 1) + 1].expires
      BY <3>1 DEF IsSum
    <3> QED BY <1>0, <2>1, <3>1, <3>2, <3>3
  <2> QED BY <2>1, <2>2
<1>3. T = Nat
  <2> HIDE DEF T
  <2>1. T \in SUBSET Nat
    BY DEF T
  <2> QED BY <1>1, <1>2, <2>1, SetInduction
<1>4. k - 1 \in Nat /\ (k - 1) + 1 = k /\ k <= n /\ k \in 0..n
  BY <1>0
<1>5. s[k] >= 1
  BY <1>3, <1>4
<1> QED BY <1>0, <1>4, <1>5

-----------------------------------------------------------------------------
\* The ticks every process has left: what the refinement maps the list to.
LeftMap(list) ==
  [p \in Procs |-> IF Armed(list, p) THEN Left(list, p) ELSE -1]

\* It reads the sums.
LEMMA LeftMapAt ==
  ASSUME NEW list \in Seq(Timers), OneEach(list), NEW s, IsSum(list, s)
  PROVE  /\ \A k \in 1..Len(list) : LeftMap(list)[list[k].proc] = s[k]
         /\ \A p \in Procs : ~Armed(list, p) => LeftMap(list)[p] = -1
<1>1. ASSUME NEW k \in 1..Len(list) PROVE LeftMap(list)[list[k].proc] = s[k]
  <2>1. list[k].proc \in Procs /\ Armed(list, list[k].proc)
    BY DeltasNat DEF Armed
  <2>2. Left(list, list[k].proc) = s[k]
    BY LeftIsSum
  <2> QED BY <2>1, <2>2 DEF LeftMap
<1>2. \A p \in Procs : ~Armed(list, p) => LeftMap(list)[p] = -1
  BY DEF LeftMap
<1> QED BY <1>1, <1>2

\* A function that has the sums at the owners of timers is that map.
LEMMA LeftMapIs ==
  ASSUME NEW list \in Seq(Timers), OneEach(list), NEW s, IsSum(list, s),
         NEW m, m = [p \in Procs |-> m[p]],
         \A k \in 1..Len(list) : m[list[k].proc] = s[k],
         \A p \in Procs : ~Armed(list, p) => m[p] = -1
  PROVE  LeftMap(list) = m
<1>1. ASSUME NEW p \in Procs PROVE LeftMap(list)[p] = m[p]
  <2>1. CASE Armed(list, p)
    <3>1. PICK k \in 1..Len(list) : list[k].proc = p
      BY <2>1 DEF Armed
    <3> QED BY <3>1, LeftMapAt
  <2>2. CASE ~Armed(list, p)
    BY <2>2, LeftMapAt
  <2> QED BY <2>1, <2>2
<1>2. LeftMap(list) = [p \in Procs |-> LeftMap(list)[p]]
  BY DEF LeftMap
<1> QED BY <1>1, <1>2

\* add_timer arms one countdown, for the ticks in front of its place and
\* those it has to go from there.
LEMMA InsertLeft ==
  ASSUME NEW list \in Seq(Timers), OneEach(list), NEW p \in Procs,
         ~Armed(list, p), NEW k \in 1..(Len(list) + 1), NEW e \in Nat,
         ~PassesBy(list, k, e), NEW s, IsSum(list, s)
  PROVE  LeftMap(InsertAt(list, k, p, e)) =
           [LeftMap(list) EXCEPT ![p] = s[k - 1] + e]
<1> DEFINE r == InsertAt(list, k, p, e)
           n == Len(list)
           m == [LeftMap(list) EXCEPT ![p] = s[k - 1] + e]
           u == [i \in 0..(n + 1) |-> IF i < k THEN s[i]
                                     ELSE IF i = k THEN s[k - 1] + e
                                     ELSE s[i - 1]]
<1>0. n \in Nat /\ \A i \in 1..n : list[i].expires \in Nat
  BY DeltasNat
<1>1. /\ r \in Seq(Timers) /\ OneEach(r)
      /\ \A x : Armed(r, x) <=> Armed(list, x) \/ x = p
  BY InsertFacts
<1>2. /\ \A i \in 1..(n + 1) : i < k => r[i] = list[i]
      /\ r[k] = [proc |-> p, expires |-> e]
      /\ \A i \in 1..(n + 1) : i = k + 1 =>
           r[i] = [proc |-> list[k].proc, expires |-> list[k].expires - e]
      /\ \A i \in 1..(n + 1) : i > k + 1 => r[i] = list[i - 1]
      /\ DOMAIN r = 1..(n + 1)
  BY <1>0 DEF InsertAt, Timer
<1>3. Len(r) = n + 1
  <2>1. r \in Seq(Timers) /\ DOMAIN r = 1..(n + 1) /\ n + 1 \in Nat
    BY <1>0, <1>1, <1>2
  <2> HIDE DEF r, n
  <2> QED BY <2>1
<1>4. /\ \A i \in 0..n : s[i] \in Nat
      /\ s[0] = 0
      /\ \A i \in 1..n : s[i] = s[i - 1] + list[i].expires
  BY DEF IsSum
<1>5. /\ m = [q \in Procs |-> m[q]] /\ m[p] = s[k - 1] + e
      /\ \A q \in Procs \ {p} : m[q] = LeftMap(list)[q]
  BY DEF LeftMap
<1> HIDE DEF r, n, m
<1>k. k \in 1..(n + 1)
  BY DEF n
<1>6. u \in [0..(n + 1) -> Nat]
  <2> SUFFICES ASSUME NEW i \in 0..(n + 1) PROVE u[i] \in Nat
    OBVIOUS
  <2>1. CASE i < k
    BY <1>0, <1>4, <1>k, <2>1
  <2>2. CASE i = k
    <3>1. k - 1 \in 0..n /\ s[k - 1] \in Nat
      BY <1>0, <1>4, <1>k
    <3> QED BY <1>0, <2>2, <3>1
  <2>3. CASE i > k
    <3>1. i - 1 \in 0..n /\ s[i - 1] \in Nat /\ ~(i < k) /\ i # k
      BY <1>0, <1>4, <1>k, <2>3
    <3> QED BY <3>1
  <2> QED BY <1>k, <2>1, <2>2, <2>3
<1>7. /\ \A i \in 0..(n + 1) : i < k => u[i] = s[i]
      /\ u[k] = s[k - 1] + e
      /\ \A i \in 0..(n + 1) : i > k => u[i] = s[i - 1]
  BY <1>0, <1>k
<1> HIDE DEF u
<1>8. ASSUME NEW i \in 1..(n + 1) PROVE u[i] = u[i - 1] + r[i].expires
  <2>1. CASE i < k
    BY <1>0, <1>2, <1>4, <1>7, <1>k, <2>1
  <2>2. CASE i = k
    <3>1. k - 1 \in 0..(n + 1) /\ k - 1 < k
      BY <1>0, <1>k
    <3>2. u[k - 1] = s[k - 1] /\ r[k].expires = e
      BY <1>2, <1>7, <3>1
    <3> QED BY <1>7, <2>2, <3>2
  <2>3. CASE i = k + 1
    <3>1. k \in 1..n /\ k - 1 \in 0..n /\ i > k /\ i - 1 = k /\ i \in 0..(n + 1)
      BY <1>0, <1>k, <2>3
    <3>2. u[i] = s[k] /\ u[i - 1] = s[k - 1] + e
      BY <1>7, <3>1
    <3>3. s[k] = s[k - 1] + list[k].expires
      BY <1>4, <3>1
    <3>4. r[i].expires = list[k].expires - e
      BY <1>2, <2>3
    <3>5. s[k - 1] \in Nat /\ list[k].expires \in Nat
      BY <1>0, <1>4, <3>1
    <3> QED BY <3>2, <3>3, <3>4, <3>5
  <2>4. CASE i > k + 1
    <3>1. /\ i - 1 \in 1..n /\ i - 1 > k /\ i > k /\ i \in 0..(n + 1)
          /\ i - 1 \in 0..(n + 1) /\ (i - 1) - 1 = i - 2
      BY <1>0, <1>k, <2>4
    <3>2. u[i] = s[i - 1] /\ u[i - 1] = s[(i - 1) - 1]
      BY <1>7, <3>1
    <3>3. s[i - 1] = s[(i - 1) - 1] + list[i - 1].expires
      BY <1>4, <3>1
    <3> QED BY <1>2, <2>4, <3>2, <3>3
  <2> QED BY <1>k, <2>1, <2>2, <2>3, <2>4
<1>9. IsSum(r, u)
  <2>1. u[0] = 0
    BY <1>0, <1>4, <1>7, <1>k
  <2> QED BY <1>3, <1>6, <1>8, <2>1 DEF IsSum
<1>10. ASSUME NEW i \in 1..Len(r) PROVE m[r[i].proc] = u[i]
  <2>0. i \in 1..(n + 1) /\ i \in 0..(n + 1)
    BY <1>0, <1>3
  <2>1. CASE i = k
    BY <1>2, <1>5, <1>7, <2>1
  <2>2. CASE i < k
    <3>1. i \in 1..Len(list) /\ r[i].proc = list[i].proc /\ u[i] = s[i]
      BY <1>0, <1>2, <1>7, <1>k, <2>0, <2>2 DEF n
    <3>2. list[i].proc \in Procs \ {p}
      BY <3>1, DeltasNat DEF Armed
    <3>3. LeftMap(list)[list[i].proc] = s[i]
      BY <3>1, LeftMapAt
    <3> QED BY <1>5, <3>1, <3>2, <3>3
  <2>3. CASE i > k
    <3>1. i - 1 \in 1..n /\ (i = k + 1 \/ i > k + 1) /\ u[i] = s[i - 1]
      BY <1>0, <1>7, <1>k, <2>0, <2>3
    <3>2. i - 1 \in 1..Len(list) /\ r[i].proc = list[i - 1].proc
      <4>1. CASE i = k + 1
        <5>1. i - 1 = k
          BY <1>k, <4>1
        <5> QED BY <1>2, <2>0, <3>1, <4>1, <5>1 DEF n
      <4>2. CASE i > k + 1
        BY <1>2, <2>0, <3>1, <4>2 DEF n
      <4> QED BY <3>1, <4>1, <4>2
    <3>3. list[i - 1].proc \in Procs \ {p}
      BY <3>2, DeltasNat DEF Armed
    <3>4. LeftMap(list)[list[i - 1].proc] = s[i - 1]
      BY <3>2, LeftMapAt
    <3> QED BY <1>5, <3>1, <3>2, <3>3, <3>4
  <2> QED BY <1>k, <2>0, <2>1, <2>2, <2>3
<1>11. \A q \in Procs : ~Armed(r, q) => m[q] = -1
  BY <1>1, <1>5, LeftMapAt
<1>12. LeftMap(r) = m
  BY <1>1, <1>5, <1>9, <1>10, <1>11, LeftMapIs
<1> QED BY <1>12 DEF r, m

\* del_timer takes one countdown away and leaves the others as they are.
LEMMA DeleteLeft ==
  ASSUME NEW list \in Seq(Timers), OneEach(list), NEW p \in Procs,
         Armed(list, p)
  PROVE  LeftMap(del_timer(list, p)) = [LeftMap(list) EXCEPT ![p] = -1]
<1> DEFINE k == CHOOSE i \in 1..Len(list) : list[i].proc = p
           r == Unlink(list, k)
           n == Len(list)
           m == [LeftMap(list) EXCEPT ![p] = -1]
<1>1. k \in 1..n /\ list[k].proc = p /\ del_timer(list, p) = r
  BY DEF Armed, del_timer
<1> HIDE DEF k
<1>0. /\ n \in Nat /\ n >= 1 /\ k \in 1..n
      /\ \A i \in 1..n : list[i].expires \in Nat
  BY <1>1, DeltasNat
<1>2. /\ r \in Seq(Timers) /\ OneEach(r)
      /\ \A x : Armed(r, x) <=> Armed(list, x) /\ x # p
  BY <1>1, DeleteFacts
<1>3. /\ \A i \in 1..(n - 1) : i < k => r[i] = list[i]
      /\ \A i \in 1..(n - 1) : i = k =>
           r[i] = [proc |-> list[k + 1].proc,
                   expires |-> list[k + 1].expires + list[k].expires]
      /\ \A i \in 1..(n - 1) : i > k => r[i] = list[i + 1]
      /\ DOMAIN r = 1..(n - 1)
  BY <1>1, <1>0 DEF Unlink, Timer
<1>4. Len(r) = n - 1
  <2>1. r \in Seq(Timers) /\ DOMAIN r = 1..(n - 1) /\ n - 1 \in Nat
    BY <1>0, <1>2, <1>3
  <2> HIDE DEF r, n
  <2> QED BY <2>1
<1>5. PICK s : IsSum(list, s)
  BY SumExists
<1> DEFINE u == [i \in 0..(n - 1) |-> IF i < k THEN s[i] ELSE s[i + 1]]
<1>6. /\ \A i \in 0..n : s[i] \in Nat
      /\ s[0] = 0
      /\ \A i \in 1..n : s[i] = s[i - 1] + list[i].expires
  BY <1>5 DEF IsSum
<1>7. /\ m = [q \in Procs |-> m[q]] /\ m[p] = -1
      /\ \A q \in Procs \ {p} : m[q] = LeftMap(list)[q]
  BY DEF LeftMap
<1>n. n = Len(list)
  OBVIOUS
<1> HIDE DEF r, n, m
<1>8. /\ u \in [0..(n - 1) -> Nat]
      /\ \A i \in 0..(n - 1) : i < k => u[i] = s[i]
      /\ \A i \in 0..(n - 1) : i >= k => u[i] = s[i + 1]
  BY <1>0, <1>6
<1> HIDE DEF u
<1>9. ASSUME NEW i \in 1..(n - 1) PROVE u[i] = u[i - 1] + r[i].expires
  <2>0. i \in 0..(n - 1) /\ i - 1 \in 0..(n - 1) /\ i \in 1..n /\ i + 1 \in 1..n
    BY <1>0
  <2>1. CASE i < k
    <3>1. i - 1 < k
      BY <1>0, <2>0, <2>1
    <3> QED BY <1>3, <1>6, <1>8, <2>0, <2>1, <3>1
  <2>2. CASE i = k
    <3>1. i - 1 < k /\ i >= k /\ k + 1 \in 1..n /\ (k + 1) - 1 = k
      BY <1>0, <2>0, <2>2
    <3>2. u[i] = s[k + 1] /\ u[i - 1] = s[k - 1]
      BY <1>8, <2>0, <2>2, <3>1
    <3>3. /\ s[k + 1] = s[k] + list[k + 1].expires
          /\ s[k] = s[k - 1] + list[k].expires
      BY <1>0, <1>6, <3>1
    <3>4. r[i].expires = list[k + 1].expires + list[k].expires
      BY <1>3, <2>2
    <3>5. /\ s[k - 1] \in Nat /\ list[k].expires \in Nat
          /\ list[k + 1].expires \in Nat
      <4>1. k - 1 \in 0..n
        BY <1>0
      <4> QED BY <1>0, <1>6, <3>1, <4>1
    <3> QED BY <3>2, <3>3, <3>4, <3>5
  <2>3. CASE i > k
    <3>1. i - 1 >= k /\ i >= k /\ (i + 1) - 1 = i /\ (i - 1) + 1 = i
      BY <1>0, <2>0, <2>3
    <3>2. u[i] = s[i + 1] /\ u[i - 1] = s[i]
      BY <1>8, <2>0, <3>1
    <3>3. s[i + 1] = s[i] + list[i + 1].expires
      BY <1>6, <2>0, <3>1
    <3> QED BY <1>3, <2>3, <3>2, <3>3
  <2> QED BY <1>0, <2>1, <2>2, <2>3
<1>10. IsSum(r, u)
  <2>1. u[0] = 0
    <3>1. 0 \in 0..(n - 1) /\ 0 < k
      BY <1>0
    <3> QED BY <1>6, <1>8, <3>1
  <2> QED BY <1>4, <1>8, <1>9, <2>1 DEF IsSum
<1>11. ASSUME NEW i \in 1..Len(r) PROVE m[r[i].proc] = u[i]
  <2> DEFINE j == IF i < k THEN i ELSE i + 1
  <2>1. i \in 1..(n - 1) /\ i \in 0..(n - 1)
    BY <1>0, <1>4
  <2>2. j \in 1..n /\ u[i] = s[j] /\ j # k
    BY <1>0, <1>8, <2>1
  <2>3. r[i].proc = list[j].proc
    <3>1. CASE i < k
      BY <1>3, <2>1, <3>1
    <3>2. CASE i = k
      <4>1. j = k + 1 /\ r[i].proc = list[k + 1].proc
        BY <1>0, <1>3, <2>1, <3>2
      <4> QED BY <4>1
    <3>3. CASE i > k
      <4>1. j = i + 1 /\ r[i] = list[i + 1]
        BY <1>0, <1>3, <2>1, <3>3
      <4> QED BY <4>1
    <3> QED BY <1>0, <2>1, <3>1, <3>2, <3>3
  <2> HIDE DEF j
  <2>4. list[j].proc \in Procs \ {p}
    BY <1>0, <1>1, <1>n, <2>2, DeltasNat DEF OneEach
  <2>5. LeftMap(list)[list[j].proc] = s[j]
    BY <1>5, <1>n, <2>2, LeftMapAt
  <2> QED BY <1>7, <2>2, <2>3, <2>4, <2>5
<1>12. \A q \in Procs : ~Armed(r, q) => m[q] = -1
  BY <1>2, <1>5, <1>7, LeftMapAt
<1>13. LeftMap(r) = m
  BY <1>2, <1>7, <1>10, <1>11, <1>12, LeftMapIs
<1> QED BY <1>1, <1>13 DEF m

\* A tick that decrements the head alone reaches every countdown, and none
\* of them has run out before it.
LEMMA TickLeft ==
  ASSUME NEW list \in Seq(Timers), OneEach(list), ~HeadExpired(list)
  PROVE  /\ LeftMap(Decrement(list)) =
              [p \in Procs |-> IF Armed(list, p) THEN LeftMap(list)[p] - 1
                               ELSE -1]
         /\ \A p \in Procs : Armed(list, p) =>
              LeftMap(list)[p] \in Nat /\ LeftMap(list)[p] > 0
<1> DEFINE r == Decrement(list)
           n == Len(list)
           m == [p \in Procs |-> IF Armed(list, p) THEN LeftMap(list)[p] - 1
                                 ELSE -1]
<1>1. PICK s : IsSum(list, s)
  BY SumExists
<1>0. n \in Nat /\ n = Len(list) /\ \A i \in 1..n : list[i] \in Timers
  BY DeltasNat
<1>2. \A i \in 1..n : s[i] \in Nat /\ s[i] >= 1
  BY <1>1, SumPositive
<1>3. \A p \in Procs : Armed(list, p) =>
         LeftMap(list)[p] \in Nat /\ LeftMap(list)[p] > 0
  <2> SUFFICES ASSUME NEW p \in Procs, Armed(list, p)
               PROVE  LeftMap(list)[p] \in Nat /\ LeftMap(list)[p] > 0
    OBVIOUS
  <2>1. PICK k \in 1..n : list[k].proc = p
    BY DEF Armed
  <2>2. LeftMap(list)[p] = s[k]
    BY <1>1, <2>1, LeftMapAt
  <2> QED BY <1>2, <2>1, <2>2
<1>4. /\ r \in Seq(Timers) /\ OneEach(r)
      /\ \A x : Armed(r, x) <=> Armed(list, x)
  BY TickFacts
<1>5. LeftMap(r) = m
  <2>1. CASE list = <<>>
    <3>1. r = list /\ \A p \in Procs : ~Armed(list, p)
      BY <2>1 DEF Decrement, Armed
    <3> QED BY <3>1 DEF LeftMap
  <2>2. CASE list # <<>>
    <3> DEFINE u == [i \in 0..n |-> IF i = 0 THEN 0 ELSE s[i] - 1]
    <3>1. n >= 1 /\ 1 \in 1..n
      BY <1>0, <2>2
    <3>2. r = [list EXCEPT ![1] = [proc |-> list[1].proc,
                                   expires |-> list[1].expires - 1]]
      BY <2>2 DEF Decrement, Timer
    <3>3. /\ Len(r) = n /\ r[1] = [proc |-> list[1].proc,
                                   expires |-> list[1].expires - 1]
          /\ \A i \in 1..n : i # 1 => r[i] = list[i]
      BY <1>0, <3>1, <3>2
    <3>a. r[1].expires = list[1].expires - 1
      BY <3>3
    <3>b. \A i \in 1..n : r[i].proc = list[i].proc
      BY <3>3
    <3>4. \A i \in 1..n : list[i].expires \in Nat
      BY DeltasNat, Zenon
    <3>5. /\ s[0] = 0
          /\ \A i \in 1..n : s[i] = s[i - 1] + list[i].expires
      BY <1>1 DEF IsSum
    <3>6. \A q \in Procs : Armed(list, q) => m[q] = LeftMap(list)[q] - 1
      OBVIOUS
    <3>7. \A q \in Procs : ~Armed(list, q) => m[q] = -1
      OBVIOUS
    <3>8. m = [q \in Procs |-> m[q]]
      OBVIOUS
    <3> HIDE DEF r, n, m
    <3>9. u \in [0..n -> Nat] /\ u[0] = 0 /\ \A i \in 1..n : u[i] = s[i] - 1
      BY <1>0, <1>2
    <3> HIDE DEF u
    <3>10. ASSUME NEW i \in 1..n PROVE u[i] = u[i - 1] + r[i].expires
      <4>1. CASE i = 1
        <5>1. s[1] = list[1].expires /\ u[0] = 0 /\ i - 1 = 0
          BY <3>1, <3>4, <3>5, <3>9, <4>1
        <5> QED BY <3>1, <3>a, <3>4, <3>9, <4>1, <5>1
      <4>2. CASE i # 1
        <5>1. i - 1 \in 1..n
          BY <1>0, <4>2
        <5>2. u[i] = s[i] - 1 /\ u[i - 1] = s[i - 1] - 1 /\ r[i] = list[i]
          BY <3>3, <3>9, <4>2, <5>1
        <5>3. s[i] = s[i - 1] + list[i].expires
          BY <3>5
        <5> QED BY <1>2, <3>4, <5>1, <5>2, <5>3
      <4> QED BY <4>1, <4>2
    <3>11. IsSum(r, u)
      BY <3>3, <3>9, <3>10 DEF IsSum
    <3>12. ASSUME NEW i \in 1..Len(r) PROVE m[r[i].proc] = u[i]
      <4>1. i \in 1..n /\ i \in 1..Len(list) /\ r[i].proc = list[i].proc
        BY <1>0, <3>3, <3>b
      <4>2. list[i].proc \in Procs /\ Armed(list, list[i].proc)
        BY <4>1, DeltasNat DEF Armed
      <4>3. LeftMap(list)[list[i].proc] = s[i]
        BY <1>1, <4>1, LeftMapAt
      <4> QED BY <3>6, <3>9, <4>1, <4>2, <4>3
    <3>13. \A q \in Procs : ~Armed(r, q) => m[q] = -1
      BY <1>4, <3>7
    <3> QED BY <1>4, <3>8, <3>11, <3>12, <3>13, LeftMapIs
  <2> QED BY <2>1, <2>2
<1> QED BY <1>3, <1>5

\* The timer that the loop of run_timer_list takes off has run out, and the
\* others keep what they have.
LEMMA ExpireLeft ==
  ASSUME NEW list \in Seq(Timers), OneEach(list), HeadExpired(list)
  PROVE  /\ LeftMap(list)[Head(list).proc] = 0
         /\ LeftMap(Tail(list)) = [LeftMap(list) EXCEPT ![Head(list).proc] = -1]
<1> DEFINE r == Tail(list)
           n == Len(list)
           w == Head(list).proc
           m == [LeftMap(list) EXCEPT ![w] = -1]
<1>0. list # <<>> /\ Head(list).expires = 0
  BY DEF HeadExpired
<1>1. /\ r \in Seq(Timers) /\ OneEach(r) /\ w \in Procs
      /\ \A x : Armed(r, x) <=> Armed(list, x) /\ x # w
  BY <1>0, ExpireFacts
<1>2. /\ n \in Nat /\ n > 0 /\ n = Len(list)
      /\ Len(r) = n - 1 /\ Head(list) = list[1]
      /\ \A i \in 1..(n - 1) : r[i] = list[i + 1]
  BY <1>0
<1>3. PICK s : IsSum(list, s)
  BY SumExists
<1>4. /\ \A i \in 0..n : s[i] \in Nat
      /\ s[0] = 0
      /\ \A i \in 1..n : s[i] = s[i - 1] + list[i].expires
  BY <1>3 DEF IsSum
<1>5. 1 \in 1..n /\ s[1] = 0
  <2>1. 1 \in 1..n /\ 1 - 1 = 0
    BY <1>2
  <2>2. s[1] = s[0] + list[1].expires
    BY <1>4, <2>1
  <2> QED BY <1>0, <1>2, <1>4, <2>1, <2>2
<1>6. LeftMap(list)[w] = 0
  BY <1>2, <1>3, <1>5, LeftMapAt
<1>7. /\ m = [q \in Procs |-> m[q]] /\ m[w] = -1
      /\ \A q \in Procs \ {w} : m[q] = LeftMap(list)[q]
  BY <1>1 DEF LeftMap
<1> DEFINE u == [i \in 0..(n - 1) |-> s[i + 1]]
<1> HIDE DEF r, n, m
<1>8. u \in [0..(n - 1) -> Nat] /\ \A i \in 0..(n - 1) : u[i] = s[i + 1]
  BY <1>2, <1>4
<1> HIDE DEF u
<1>9. ASSUME NEW i \in 1..(n - 1) PROVE u[i] = u[i - 1] + r[i].expires
  <2>1. /\ i \in 0..(n - 1) /\ i - 1 \in 0..(n - 1) /\ i + 1 \in 1..n
        /\ (i - 1) + 1 = i /\ (i + 1) - 1 = i
    BY <1>2
  <2>2. u[i] = s[i + 1] /\ u[i - 1] = s[i]
    BY <1>8, <2>1
  <2>3. s[i + 1] = s[i] + list[i + 1].expires
    BY <1>4, <2>1
  <2> QED BY <1>2, <2>2, <2>3
<1>10. IsSum(r, u)
  <2>1. u[0] = 0
    <3>1. 0 \in 0..(n - 1) /\ 0 + 1 = 1
      BY <1>2
    <3> QED BY <1>5, <1>8, <3>1
  <2> QED BY <1>2, <1>8, <1>9, <2>1 DEF IsSum
<1>11. ASSUME NEW i \in 1..Len(r) PROVE m[r[i].proc] = u[i]
  <2>1. /\ i \in 1..(n - 1) /\ i \in 0..(n - 1) /\ i + 1 \in 1..n /\ i + 1 # 1
    BY <1>2
  <2>2. r[i].proc = list[i + 1].proc /\ u[i] = s[i + 1]
    BY <1>2, <1>8, <2>1
  <2>3. list[i + 1].proc \in Procs \ {w}
    <3>1. list[i + 1].proc \in Procs
      BY <1>2, <2>1, DeltasNat
    <3>2. list[i + 1].proc # list[1].proc
      BY <1>2, <1>5, <2>1 DEF OneEach
    <3> QED BY <1>2, <3>1, <3>2
  <2>4. LeftMap(list)[list[i + 1].proc] = s[i + 1]
    BY <1>2, <1>3, <2>1, LeftMapAt
  <2> QED BY <1>7, <2>2, <2>3, <2>4
<1>12. \A q \in Procs : ~Armed(r, q) => m[q] = -1
  BY <1>1, <1>3, <1>7, LeftMapAt
<1>13. LeftMap(r) = m
  BY <1>1, <1>7, <1>10, <1>11, <1>12, LeftMapIs
<1> QED BY <1>6, <1>13 DEF r, m

-----------------------------------------------------------------------------
\* While add_timer walks, what it has walked past and what it has still to
\* go add up to the argument of do_sleep.
WalkInv ==
  pc[current] = "add_timer" =>
    \A s : IsSum(timer_list, s) => s[walk - 1] + rest \in 1..MaxSleep

\* A step that leaves the list alone and starts no sleep.
CalmStep ==
  /\ UNCHANGED <<timer_list, walk, rest>>
  /\ \A q \in Procs : pc'[q] = "add_timer" => pc[q] = "add_timer"

\* Such a step stutters, and cannot make another process the one that walks.
LEMMA CalmIsStutter ==
  ASSUME IInv, IInv', WalkInv, CalmStep
  PROVE  WalkInv' /\ LeftMap(timer_list)' = LeftMap(timer_list)
<1>1. ASSUME pc'[current'] = "add_timer" PROVE pc[current] = "add_timer"
  <2>1. current' \in Procs
    BY DEF IInv, TypeOK
  <2>2. pc[current'] = "add_timer"
    BY <1>1, <2>1 DEF CalmStep
  <2>3. current' = current
    BY <2>1, <2>2 DEF IInv, CtrlOK, InKernelOK
  <2> QED BY <2>2, <2>3
<1>2. WalkInv'
  BY <1>1 DEF WalkInv, CalmStep, IsSum
<1> QED BY <1>2 DEF CalmStep

\* System calls other than sleep, ...
LEMMA CalmCalls ==
  ASSUME IInv, NEW p \in Procs,
         \/ UserCall(p) \/ Exec(p) \/ Exit(p)
  PROVE  CalmStep
<1>0. pc \in [Procs -> Labels]
  BY DEF IInv, TypeOK
<1>1. CASE Fork(p)
  BY <1>0, <1>1 DEF Fork, do_fork, CalmStep, clock
<1>2. CASE ForkFails(p)
  BY <1>0, <1>2 DEF ForkFails, Goto, CalmStep, clock
<1>3. CASE Wait(p)
  BY <1>0, <1>3 DEF Wait, Goto, CalmStep, clock
<1>4. CASE Kill(p)
  BY <1>0, <1>4 DEF Kill, Goto, CalmStep, clock
<1>5. CASE Yield(p)
  BY <1>0, <1>5 DEF Yield, Goto, CalmStep, clock
<1>6. CASE Exec(p) \/ Exit(p)
  BY <1>0, <1>6 DEF Exec, Exit, Goto, CalmStep, clock
<1> QED BY <1>1, <1>2, <1>3, <1>4, <1>5, <1>6 DEF UserCall

\* ... what the kernel does for them, ...
LEMMA CalmKernel ==
  ASSUME IInv, NEW p \in Procs,
         \/ do_exit(p) \/ Adopt(p) \/ AdoptDone(p) \/ ExitSched(p)
         \/ WaitReap(p) \/ WaitSleep(p) \/ WaitNoChild(p)
         \/ WaitSched(p) \/ WaitRet(p) \/ SleepSched(p)
         \/ TrapExit(p) \/ TrapResched(p) \/ TrapReturn(p)
  PROVE  CalmStep
<1>0. pc \in [Procs -> Labels] /\ current \in Procs
  BY DEF IInv, TypeOK
<1>1. CASE do_exit(p)
  BY <1>0, <1>1 DEF do_exit, Goto, CalmStep, clock
<1>2. CASE Adopt(p)
  BY <1>0, <1>2 DEF Adopt, Goto, CalmStep, clock
<1>3. CASE AdoptDone(p)
  BY <1>0, <1>3 DEF AdoptDone, Goto, CalmStep, clock
<1>4. CASE ExitSched(p) \/ WaitSched(p) \/ SleepSched(p) \/ TrapResched(p)
  BY <1>0, <1>4 DEF ExitSched, WaitSched, SleepSched, TrapResched, schedule,
     CalmStep, clock
<1>5. CASE WaitReap(p)
  BY <1>0, <1>5 DEF WaitReap, Goto, Back, CalmStep, clock
<1>6. CASE WaitSleep(p)
  BY <1>0, <1>6 DEF WaitSleep, Goto, CalmStep, clock
<1>7. CASE WaitNoChild(p)
  BY <1>0, <1>7 DEF WaitNoChild, Goto, Back, CalmStep, clock
<1>8. CASE WaitRet(p)
  BY <1>0, <1>8 DEF WaitRet, Goto, CalmStep, clock
<1>9. CASE TrapExit(p) \/ TrapReturn(p)
  BY <1>0, <1>9 DEF TrapExit, TrapReturn, Goto, CalmStep, clock
<1> QED BY <1>1, <1>2, <1>3, <1>4, <1>5, <1>6, <1>7, <1>8, <1>9

\* ... and init, idle and the end of the clock interrupt are calm.
LEMMA CalmRest ==
  ASSUME IInv, InitStep \/ Idle \/ TickEnd \/ Panicked \/ UNCHANGED vars
  PROVE  CalmStep
<1> USE ProcAssumption
<1>0. pc \in [Procs -> Labels] /\ current \in Procs
  BY DEF IInv, TypeOK
<1>1. CASE Spawn
  BY <1>0, <1>1 DEF Spawn, do_fork, CalmStep, clock
<1>2. CASE SpawnFails \/ InitExits
  BY <1>0, <1>2 DEF SpawnFails, InitExits, CalmStep, clock
<1>3. CASE SpawnDone \/ InitDone
  BY <1>0, <1>3 DEF SpawnDone, InitDone, Goto, CalmStep, clock, vars
<1>4. CASE InitSched \/ Idle
  BY <1>0, <1>4 DEF InitSched, Idle, schedule, CalmStep, clock
<1>5. CASE TickEnd
  BY <1>0, <1>5 DEF TickEnd, Goto, CalmStep
<1>6. CASE Panicked \/ UNCHANGED vars
  BY <1>6 DEF Panicked, vars, CalmStep, clock
<1> QED BY <1>1, <1>2, <1>3, <1>4, <1>5, <1>6 DEF InitStep

\* do_sleep starts the walk, and add_timer goes on with it.
LEMMA WalkSteps ==
  ASSUME IInv, WalkInv, NEW p \in Procs, Sleep(p) \/ AddTimerWalk(p)
  PROVE  WalkInv' /\ LeftMap(timer_list)' = LeftMap(timer_list)
<1> USE ProcAssumption
<1>1. CASE Sleep(p)
  <2>1. timer_list' = timer_list /\ walk' = 1 /\ rest' \in 1..MaxSleep
    BY <1>1 DEF Sleep
  <2>2. ASSUME NEW s, IsSum(timer_list', s)
        PROVE  s[walk' - 1] + rest' \in 1..MaxSleep
    <3>1. walk' - 1 = 0 /\ s[0] = 0
      BY <2>1, <2>2 DEF IsSum
    <3> QED BY <2>1, <3>1
  <2> QED BY <2>1, <2>2 DEF WalkInv
<1>2. CASE AddTimerWalk(p)
  <2>1. /\ pc[p] = "add_timer" /\ p = current /\ pc' = pc /\ current' = current
        /\ timer_list' = timer_list /\ walk' = walk + 1
        /\ rest' = rest - timer_list[walk].expires
        /\ walk <= Len(timer_list)
    BY <1>2 DEF AddTimerWalk, At, PassesBy, sched
  <2>2. walk \in 1..Len(timer_list) /\ walk \in Nat /\ rest \in Nat
    BY <2>1 DEF IInv, CtrlOK, TypeOK
  <2>3. ASSUME NEW s, IsSum(timer_list', s)
        PROVE  s[walk' - 1] + rest' \in 1..MaxSleep
    <3>1. IsSum(timer_list, s)
      BY <2>1, <2>3
    <3>2. s[walk - 1] + rest \in 1..MaxSleep
      BY <2>1, <3>1 DEF WalkInv
    <3>3. s[walk] = s[walk - 1] + timer_list[walk].expires
      BY <2>2, <3>1 DEF IsSum
    <3>4. timer_list[walk].expires \in Nat
      BY <2>2, DeltasNat, TimersToOwners
    <3>5. s[walk - 1] \in Nat
      <4>1. walk - 1 \in 0..Len(timer_list)
        BY <2>2
      <4> QED BY <3>1, <4>1 DEF IsSum
    <3>6. walk' - 1 = walk
      BY <2>1, <2>2
    <3> QED BY <2>1, <2>2, <3>2, <3>3, <3>4, <3>5, <3>6
  <2> QED BY <2>1, <2>3 DEF WalkInv
<1> QED BY <1>1, <1>2

\* The end of the walk arms a countdown for what do_sleep was asked for.
LEMMA InsertArms ==
  ASSUME IInv, WalkInv, NEW p \in Procs, AddTimerInsert(p)
  PROVE  Sleeping!Arm(p) /\ WalkInv'
<1>0. timer_list \in Seq(Timers) /\ OneEach(timer_list)
  BY TimersToOwners
<1>1. /\ pc[p] = "add_timer" /\ p = current /\ current' = current
      /\ ~PassesBy(timer_list, walk, rest)
      /\ timer_list' = InsertAt(timer_list, walk, p, rest)
      /\ Goto(p, "sleep_sched")
  BY DEF AddTimerInsert, At, sched
<1>2. /\ walk \in 1..(Len(timer_list) + 1) /\ rest \in Nat
      /\ ~Armed(timer_list, p)
  BY <1>1 DEF IInv, CtrlOK, TypeOK
<1>3. PICK s : IsSum(timer_list, s)
  BY <1>0, SumExists
<1>4. LeftMap(timer_list') =
        [LeftMap(timer_list) EXCEPT ![p] = s[walk - 1] + rest]
  BY <1>0, <1>1, <1>2, <1>3, InsertLeft
<1>5. s[walk - 1] + rest \in 1..MaxSleep
  BY <1>1, <1>3 DEF WalkInv
<1>6. LeftMap(timer_list)[p] = -1
  BY <1>2 DEF LeftMap
<1>7. Sleeping!Arm(p)
  BY <1>4, <1>5, <1>6 DEF LeftMap, Sleeping!Arm, Sleeping!Armed, Sleeping!Off
<1>8. pc'[current'] # "add_timer"
  BY <1>1 DEF Goto, IInv, TypeOK
<1> QED BY <1>7, <1>8 DEF WalkInv

\* A sleeper that is woken early cancels what is left.
LEMMA ReturnCancels ==
  ASSUME IInv, WalkInv, NEW p \in Procs, SleepRet(p)
  PROVE  /\ Sleeping!Cancel(p) \/ LeftMap(timer_list)' = LeftMap(timer_list)
         /\ WalkInv'
<1>0. timer_list \in Seq(Timers) /\ OneEach(timer_list)
  BY TimersToOwners
<1>1. /\ p = current /\ current' = current /\ ~irq
      /\ timer_list' = del_timer(timer_list, p) /\ Goto(p, Back(p))
  BY DEF SleepRet, At, sched
<1>2. ~HeadExpired(timer_list)
  BY <1>1 DEF IInv, TimerOK
<1>3. ASSUME Armed(timer_list, p) PROVE Sleeping!Cancel(p)
  <2>1. LeftMap(timer_list') = [LeftMap(timer_list) EXCEPT ![p] = -1]
    BY <1>0, <1>1, <1>3, DeleteLeft
  <2>2. LeftMap(timer_list)[p] \in Nat /\ LeftMap(timer_list)[p] > 0
    BY <1>0, <1>2, <1>3, TickLeft
  <2>3. LeftMap(timer_list)[p] # -1
    BY <2>2
  <2> QED BY <2>1, <2>2, <2>3
       DEF LeftMap, Sleeping!Cancel, Sleeping!Armed, Sleeping!Off
<1>4. ASSUME ~Armed(timer_list, p)
      PROVE  LeftMap(timer_list)' = LeftMap(timer_list)
  BY <1>1, <1>4 DEF del_timer
<1>5. pc'[current'] # "add_timer"
  BY <1>1 DEF Goto, Back, IInv, TypeOK
<1> QED BY <1>3, <1>4, <1>5 DEF WalkInv

\* The clock counts all timers down, and rings those that have run out.
LEMMA ClockTicks ==
  ASSUME IInv, IInv', WalkInv, Tick \/ Expire
  PROVE  /\ Sleeping!Tick \/ \E p \in Procs : Sleeping!Ring(p)
         /\ WalkInv'
<1>0. timer_list \in Seq(Timers) /\ OneEach(timer_list)
  BY TimersToOwners
<1>1. CASE Tick
  <2>1. timer_list' = Decrement(timer_list) /\ ~HeadExpired(timer_list)
    BY <1>1 DEF Tick, IntrOn, IInv, TimerOK
  <2>2. /\ LeftMap(timer_list') =
             [p \in Procs |-> IF Armed(timer_list, p)
                              THEN LeftMap(timer_list)[p] - 1 ELSE -1]
        /\ \A p \in Procs : Armed(timer_list, p) =>
             LeftMap(timer_list)[p] \in Nat /\ LeftMap(timer_list)[p] > 0
    BY <1>0, <2>1, TickLeft
  <2>3. \A p \in Procs : LeftMap(timer_list)[p] # -1 <=> Armed(timer_list, p)
    <3>1. \A n \in Nat : n # -1
      OBVIOUS
    <3> QED BY <2>2, <3>1 DEF LeftMap
  <2>4. LeftMap(timer_list') =
          [p \in Procs |-> IF LeftMap(timer_list)[p] # -1
                           THEN LeftMap(timer_list)[p] - 1 ELSE -1]
    BY <2>2, <2>3
  <2>5. \A p \in Procs : LeftMap(timer_list)[p] # -1 =>
          LeftMap(timer_list)[p] > 0
    BY <2>2, <2>3
  <2>6. Sleeping!Tick
    BY <2>4, <2>5 DEF LeftMap, Sleeping!Tick, Sleeping!Armed, Sleeping!Off
  <2> QED BY <1>1, <2>6 DEF Tick, IInv, CtrlOK, WalkInv
<1>2. CASE Expire
  <2>1. /\ irq' /\ timer_list' = Tail(timer_list) /\ HeadExpired(timer_list)
    BY <1>2 DEF Expire
  <2>2. /\ LeftMap(timer_list)[Head(timer_list).proc] = 0
        /\ LeftMap(timer_list') =
             [LeftMap(timer_list) EXCEPT ![Head(timer_list).proc] = -1]
    BY <1>0, <2>1, ExpireLeft
  <2>3. Head(timer_list).proc \in Procs
    BY <1>0, <2>1, ExpireFacts DEF HeadExpired
  <2>4. Sleeping!Ring(Head(timer_list).proc)
    BY <2>2, <2>3 DEF LeftMap, Sleeping!Ring, Sleeping!Off
  <2> QED BY <2>1, <2>3, <2>4 DEF IInv, CtrlOK, WalkInv
<1> QED BY <1>1, <1>2

\* Every step is a step of SleepSpec, or none.
LEMMA SleepStep ==
  ASSUME IInv, IInv', WalkInv, [Next]_vars
  PROVE  /\ Sleeping!Next \/ LeftMap(timer_list)' = LeftMap(timer_list)
         /\ WalkInv'
<1>1. ASSUME NEW p \in Procs, UserCall(p) PROVE CalmStep
  BY <1>1, CalmCalls
<1>2. ASSUME NEW p \in Procs, ThreadCall(p)
      PROVE  CalmStep \/ Sleep(p)
  BY <1>2, CalmCalls DEF ThreadCall
<1>3. ASSUME NEW p \in Procs, KernelStep(p)
      PROVE  CalmStep \/ AddTimerWalk(p) \/ AddTimerInsert(p) \/ SleepRet(p)
  BY <1>3, CalmKernel DEF KernelStep
<1>4. ASSUME InitStep \/ Idle \/ TickEnd \/ Panicked \/ UNCHANGED vars
      PROVE  CalmStep
  BY <1>4, CalmRest
<1>5. \/ CalmStep \/ Tick \/ Expire
      \/ \E p \in Procs : \/ Sleep(p) \/ AddTimerWalk(p)
                          \/ AddTimerInsert(p) \/ SleepRet(p)
  BY <1>1, <1>2, <1>3, <1>4 DEF Next
<1>6. CASE CalmStep
  BY <1>6, CalmIsStutter
<1>7. CASE Tick \/ Expire
  BY <1>7, ClockTicks DEF Sleeping!Next
<1>8. ASSUME NEW p \in Procs, Sleep(p) \/ AddTimerWalk(p)
      PROVE  WalkInv' /\ LeftMap(timer_list)' = LeftMap(timer_list)
  BY <1>8, WalkSteps
<1>9. ASSUME NEW p \in Procs, AddTimerInsert(p)
      PROVE  WalkInv' /\ Sleeping!Next
  BY <1>9, InsertArms DEF Sleeping!Next
<1>10. ASSUME NEW p \in Procs, SleepRet(p)
       PROVE  /\ WalkInv'
              /\ Sleeping!Next \/ LeftMap(timer_list)' = LeftMap(timer_list)
  BY <1>10, ReturnCancels DEF Sleeping!Next
<1> QED BY <1>5, <1>6, <1>7, <1>8, <1>9, <1>10

\* do_sleep keeps its promise for any number of processes and ticks: the
\* delta list of add_timer, del_timer and run_timer_list implements one
\* independent countdown for every sleeper.
THEOREM SleepCorrect == Spec => SleepRefinement
<1>1. Init => Sleeping!Init /\ WalkInv
  <2> SUFFICES ASSUME Init PROVE Sleeping!Init /\ WalkInv
    OBVIOUS
  <2>1. \A p \in Procs : ~Armed(timer_list, p)
    BY DEF Init, Armed
  <2>2. Sleeping!Init
    BY <2>1 DEF Sleeping!Init, Sleeping!Off
  <2>3. pc[current] # "add_timer"
    BY ProcAssumption DEF Init
  <2> QED BY <2>2, <2>3 DEF WalkInv
<1>2. IInv /\ IInv' /\ WalkInv /\ [Next]_vars =>
        WalkInv' /\ [Sleeping!Next]_[p \in Procs |->
                      IF Armed(timer_list, p) THEN Left(timer_list, p) ELSE -1]
  BY SleepStep DEF LeftMap
<1> QED BY InitOK, StepOK, <1>1, <1>2, PTL
     DEF Spec, SleepRefinement, Sleeping!Spec
=============================================================================
