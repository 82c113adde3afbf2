------------------------------ MODULE PhilSema ------------------------------
(***************************************************************************)
(* The dining philosophers with semaphores, kern/sync/check_sync.c.  Each  *)
(* philosopher is a kernel thread; one step per statement that touches     *)
(* shared state, and any thread may take the next step.  (The kernel only  *)
(* switches threads where one blocks, so it has fewer interleavings.)      *)
(***************************************************************************)
EXTENDS Philosophers

VARIABLES
  state_sema,     \* THINKING, HUNGRY or EATING
  mutex, s,       \* the semaphores
  pc, iter,
  todo            \* whom phi_test_sema is still to be called for

vars == <<state_sema, mutex, s, pc, iter, todo>>

Init ==
  /\ state_sema = [i \in Phil |-> "THINKING"]
  /\ mutex = sem_init(1) /\ s = [i \in Phil |-> sem_init(0)]
  /\ pc = [i \in Phil |-> "think"] /\ iter = [i \in Phil |-> 0]
  /\ todo = [i \in Phil |-> <<>>]

\* Thread i stands at label k and does not sleep in the down() before it.
At(i, k) == pc[i] = k /\ ~Waits(mutex, i) /\ ~Waits(s[i], i)
Goto(i, k) == pc' = [pc EXCEPT ![i] = k]

\* Faulty variant: the critical section is not entered.
Take_NoMutex(i) ==
  /\ At(i, "think") /\ iter[i] < TIMES
  /\ iter' = [iter EXCEPT ![i] = @ + 1]
  /\ Goto(i, "hungry")
  /\ UNCHANGED <<state_sema, mutex, s, todo>>

\* The loop head: think, then phi_take_forks_sema enters the critical
\* section.
Take(i) ==
  /\ At(i, "think") /\ iter[i] < TIMES
  /\ iter' = [iter EXCEPT ![i] = @ + 1]
  /\ mutex' = down(mutex, i)
  /\ Goto(i, "hungry")
  /\ UNCHANGED <<state_sema, s, todo>>

Hungry(i) ==
  /\ At(i, "hungry")
  /\ state_sema' = [state_sema EXCEPT ![i] = "HUNGRY"]
  /\ todo' = [todo EXCEPT ![i] = <<i>>]
  /\ Goto(i, "test")
  /\ UNCHANGED <<mutex, s, iter>>

\* The condition of phi_test_sema.
MayEat(i) == /\ state_sema[i] = "HUNGRY"
             /\ state_sema[LEFT(i)] # "EATING" /\ state_sema[RIGHT(i)] # "EATING"

TestYes(i) ==
  /\ At(i, "test") /\ todo[i] # <<>> /\ MayEat(Head(todo[i]))
  /\ Goto(i, "grant")
  /\ UNCHANGED <<state_sema, mutex, s, iter, todo>>

TestNo(i) ==
  /\ At(i, "test") /\ todo[i] # <<>> /\ ~MayEat(Head(todo[i]))
  /\ todo' = [todo EXCEPT ![i] = Tail(@)]
  /\ UNCHANGED <<state_sema, mutex, s, pc, iter>>

Grant(i) ==
  /\ At(i, "grant")
  /\ LET t == Head(todo[i]) IN
       /\ state_sema' = [state_sema EXCEPT ![t] = "EATING"]
       /\ s' = [s EXCEPT ![t] = up(@)]
  /\ todo' = [todo EXCEPT ![i] = Tail(@)]
  /\ Goto(i, "test")
  /\ UNCHANGED <<mutex, iter>>

\* up(&mutex): a philosopher that came to eat goes on to down(&s[i]), one
\* that puts the forks back to the next round.
Leave(i) ==
  /\ At(i, "test") /\ todo[i] = <<>>
  /\ mutex' = up(mutex)
  /\ Goto(i, IF state_sema[i] = "THINKING" THEN "think" ELSE "acquire")
  /\ UNCHANGED <<state_sema, s, iter, todo>>

Acquire(i) ==
  /\ At(i, "acquire")
  /\ s' = [s EXCEPT ![i] = down(@, i)]
  /\ Goto(i, "eat")
  /\ UNCHANGED <<state_sema, mutex, iter, todo>>

\* Eating is over; phi_put_forks_sema enters the critical section ...
Put(i) ==
  /\ At(i, "eat")
  /\ mutex' = down(mutex, i)
  /\ Goto(i, "put")
  /\ UNCHANGED <<state_sema, s, iter, todo>>

\* ... and lets the neighbours eat if they can.
PutDown(i) ==
  /\ At(i, "put")
  /\ state_sema' = [state_sema EXCEPT ![i] = "THINKING"]
  /\ todo' = [todo EXCEPT ![i] = <<LEFT(i), RIGHT(i)>>]
  /\ Goto(i, "test")
  /\ UNCHANGED <<mutex, s, iter>>

Step(i) == \/ Take(i) \/ Hungry(i) \/ TestYes(i) \/ TestNo(i) \/ Grant(i)
           \/ Leave(i) \/ Acquire(i) \/ Put(i) \/ PutDown(i)

Finished == \A i \in Phil : pc[i] = "think" /\ iter[i] = TIMES
Done == Finished /\ UNCHANGED vars

Next == (\E i \in Phil : Step(i)) \/ Done

Spec == Init /\ [][Next]_vars

(***************************************************************************)
(* Properties.                                                             *)
(***************************************************************************)

\* Every variable stays in its range.
TypeOK ==
  /\ state_sema \in [Phil -> {"THINKING", "HUNGRY", "EATING"}]
  /\ mutex \in [value : Nat, queue : Seq(Phil)]
  /\ s \in [Phil -> [value : Nat, queue : Seq(Phil)]]
  /\ pc \in [Phil -> {"think", "hungry", "test", "grant", "acquire", "eat",
                      "put"}]
  /\ iter \in [Phil -> 0..TIMES]
  /\ todo \in [Phil -> Seq(Phil)]

InCS(i) == pc[i] \in {"hungry", "test", "grant", "put"} /\ ~Waits(mutex, i)
HoldsForks(i) == pc[i] \in {"eat", "put"} /\ ~Waits(s[i], i)

\* mutex admits one thread at a time, its hand-over from one to the next
\* included.
MutexOK == \A i, j \in Phil : InCS(i) /\ InCS(j) => i = j

\* The forks are given exactly once: state_sema says EATING exactly while a
\* unit of s[i] is on its way to philosopher i or has reached it.
GrantOK ==
  \A i \in Phil : /\ s[i].value \in {0, 1}
                  /\ state_sema[i] = "EATING" <=>
                       (HoldsForks(i) /\ s[i].value = 0)
                       \/ (~HoldsForks(i) /\ s[i].value = 1)

\* No two neighbours are past down(&s[i]) and before giving the forks back.
NoNeighboursEat ==
  \A i \in Phil : i # RIGHT(i) => ~(HoldsForks(i) /\ HoldsForks(RIGHT(i)))

\* Both kinds of semaphore do their work, and what comes of it: mutex guards
\* every decision, the decision is handed over on s[i] exactly once, and no
\* neighbours eat.
SemaOK == MutexOK /\ GrantOK /\ NoNeighboursEat

\* The state array, edited by the philosopher and by both neighbours, takes
\* only the steps of the abstract problem.
Dining == INSTANCE DiningSpec WITH phase <- state_sema
DiningRefinement == Dining!Spec

=============================================================================
