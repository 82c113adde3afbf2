---------------------------- MODULE PhilMonitor ----------------------------
(***************************************************************************)
(* The dining philosophers with a monitor: kern/sync/monitor.c and its     *)
(* client in check_sync.c.  cond_signal passes the monitor to the thread   *)
(* it wakes and sleeps on `next' until somebody passes it back.  One step  *)
(* per semaphore operation or change of shared state, any thread next.     *)
(***************************************************************************)
EXTENDS Philosophers, FiniteSets

VARIABLES
  state_condvar,            \* THINKING, HUNGRY or EATING
  mutex, next, next_count,  \* the monitor
  cv, count,                \* cv[i].sem and cv[i].count
  pc, iter,
  todo                      \* whom phi_test_condvar is still to be called for

mt == <<mutex, next, next_count, cv, count>>
vars == <<state_condvar, mt, pc, iter, todo>>

\* check_sync after monitor_init.
Init ==
  /\ state_condvar = [i \in Phil |-> "THINKING"]
  /\ mutex = sem_init(1) /\ next = sem_init(0) /\ next_count = 0
  /\ cv = [i \in Phil |-> sem_init(0)] /\ count = [i \in Phil |-> 0]
  /\ pc = [i \in Phil |-> "think"] /\ iter = [i \in Phil |-> 0]
  /\ todo = [i \in Phil |-> <<>>]

Asleep(i) == Waits(mutex, i) \/ Waits(next, i) \/ Waits(cv[i], i)
At(i, k) == pc[i] = k /\ ~Asleep(i)
Goto(i, k) == pc' = [pc EXCEPT ![i] = k]

(***************************************************************************)
(* monitor.c.                                                              *)
(***************************************************************************)

\* Leaving the monitor: a signaller that sleeps goes first.
PassOn == IF next_count > 0 THEN next' = up(next) /\ UNCHANGED mutex
          ELSE mutex' = up(mutex) /\ UNCHANGED next

\* Faulty variant: the waiter is counted after the monitor was left.
cond_wait_NoCount(i) ==
  /\ PassOn
  /\ Goto(i, "cv_down")
  /\ UNCHANGED <<next_count, cv, count>>

cond_wait(i) ==
  /\ count' = [count EXCEPT ![i] = @ + 1]
  /\ PassOn
  /\ Goto(i, "cv_down")
  /\ UNCHANGED <<next_count, cv>>

WaitDown(i) ==
  /\ At(i, "cv_down")
  /\ cv' = [cv EXCEPT ![i] = down(@, i)]
  /\ Goto(i, "cv_ret")
  /\ UNCHANGED <<state_condvar, mutex, next, next_count, count, iter, todo>>

WaitRet(i) ==
  /\ At(i, "cv_ret")
  /\ count' = [count EXCEPT ![i] = @ - 1]
  /\ Goto(i, "leave")
  /\ UNCHANGED <<state_condvar, mutex, next, next_count, cv, iter, todo>>

\* cond_signal with a waiter.
SignalUp(i) ==
  /\ At(i, "signal") /\ count[Head(todo[i])] > 0
  /\ next_count' = next_count + 1
  /\ cv' = [cv EXCEPT ![Head(todo[i])] = up(@)]
  /\ Goto(i, "sig_down")
  /\ UNCHANGED <<state_condvar, mutex, next, count, iter, todo>>

\* cond_signal without one: the signal is lost.
SignalNone(i) ==
  /\ At(i, "signal") /\ count[Head(todo[i])] = 0
  /\ todo' = [todo EXCEPT ![i] = Tail(@)]
  /\ Goto(i, "test")
  /\ UNCHANGED <<state_condvar, mt, iter>>

SignalDown(i) ==
  /\ At(i, "sig_down")
  /\ next' = down(next, i)
  /\ Goto(i, "sig_ret")
  /\ UNCHANGED <<state_condvar, mutex, next_count, cv, count, iter, todo>>

\* Faulty variant: the signaller stays counted.
SignalRet_Counted(i) ==
  /\ At(i, "sig_ret")
  /\ todo' = [todo EXCEPT ![i] = Tail(@)]
  /\ Goto(i, "test")
  /\ UNCHANGED <<state_condvar, mt, iter>>

SignalRet(i) ==
  /\ At(i, "sig_ret")
  /\ next_count' = next_count - 1
  /\ todo' = [todo EXCEPT ![i] = Tail(@)]
  /\ Goto(i, "test")
  /\ UNCHANGED <<state_condvar, mutex, next, cv, count, iter>>

(***************************************************************************)
(* The client.                                                             *)
(***************************************************************************)

Take(i) ==
  /\ At(i, "think") /\ iter[i] < TIMES
  /\ iter' = [iter EXCEPT ![i] = @ + 1]
  /\ mutex' = down(mutex, i)
  /\ Goto(i, "hungry")
  /\ UNCHANGED <<state_condvar, next, next_count, cv, count, todo>>

Hungry(i) ==
  /\ At(i, "hungry")
  /\ state_condvar' = [state_condvar EXCEPT ![i] = "HUNGRY"]
  /\ todo' = [todo EXCEPT ![i] = <<i>>]
  /\ Goto(i, "test")
  /\ UNCHANGED <<mt, iter>>

\* Faulty variant: the right neighbour is not looked at.
MayEat_LeftOnly(i) == /\ state_condvar[i] = "HUNGRY"
                      /\ state_condvar[LEFT(i)] # "EATING"

\* The condition of phi_test_condvar.
MayEat(i) == /\ state_condvar[i] = "HUNGRY"
             /\ state_condvar[LEFT(i)] # "EATING"
             /\ state_condvar[RIGHT(i)] # "EATING"

TestYes(i) ==
  /\ At(i, "test") /\ todo[i] # <<>> /\ MayEat(Head(todo[i]))
  /\ Goto(i, "grant")
  /\ UNCHANGED <<state_condvar, mt, iter, todo>>

TestNo(i) ==
  /\ At(i, "test") /\ todo[i] # <<>> /\ ~MayEat(Head(todo[i]))
  /\ todo' = [todo EXCEPT ![i] = Tail(@)]
  /\ UNCHANGED <<state_condvar, mt, pc, iter>>

Grant(i) ==
  /\ At(i, "grant")
  /\ state_condvar' = [state_condvar EXCEPT ![Head(todo[i])] = "EATING"]
  /\ Goto(i, "signal")
  /\ UNCHANGED <<mt, iter, todo>>

\* phi_take_forks_condvar: still hungry after the test ...
StillHungry(i) ==
  /\ At(i, "test") /\ todo[i] = <<>> /\ state_condvar[i] = "HUNGRY"
  /\ cond_wait(i)
  /\ UNCHANGED <<state_condvar, iter, todo>>

\* ... or done with the body of either routine.
BodyDone(i) ==
  /\ At(i, "test") /\ todo[i] = <<>> /\ state_condvar[i] # "HUNGRY"
  /\ Goto(i, "leave")
  /\ UNCHANGED <<state_condvar, mt, iter, todo>>

\* Whoever came to eat goes on to eat, whoever put the forks back to think.
Leave(i) ==
  /\ At(i, "leave")
  /\ PassOn
  /\ Goto(i, IF state_condvar[i] = "THINKING" THEN "think" ELSE "eat")
  /\ UNCHANGED <<state_condvar, next_count, cv, count, iter, todo>>

Put(i) ==
  /\ At(i, "eat")
  /\ mutex' = down(mutex, i)
  /\ Goto(i, "put")
  /\ UNCHANGED <<state_condvar, next, next_count, cv, count, iter, todo>>

PutDown(i) ==
  /\ At(i, "put")
  /\ state_condvar' = [state_condvar EXCEPT ![i] = "THINKING"]
  /\ todo' = [todo EXCEPT ![i] = <<LEFT(i), RIGHT(i)>>]
  /\ Goto(i, "test")
  /\ UNCHANGED <<mt, iter>>

Step(i) == \/ Take(i) \/ Hungry(i) \/ TestYes(i) \/ TestNo(i) \/ Grant(i)
           \/ SignalUp(i) \/ SignalNone(i) \/ SignalDown(i) \/ SignalRet(i)
           \/ StillHungry(i) \/ WaitDown(i) \/ WaitRet(i)
           \/ BodyDone(i) \/ Leave(i) \/ Put(i) \/ PutDown(i)

Finished == \A i \in Phil : pc[i] = "think" /\ iter[i] = TIMES
Done == Finished /\ UNCHANGED vars

Next == (\E i \in Phil : Step(i)) \/ Done

Spec == Init /\ [][Next]_vars

(***************************************************************************)
(* Properties.                                                             *)
(***************************************************************************)

\* Every variable stays in its range.
TypeOK ==
  /\ state_condvar \in [Phil -> {"THINKING", "HUNGRY", "EATING"}]
  /\ mutex \in [value : 0..1, queue : Seq(Phil)]
  /\ next \in [value : 0..1, queue : Seq(Phil)]
  /\ next_count \in 0..N
  /\ cv \in [Phil -> [value : 0..1, queue : Seq(Phil)]]
  /\ count \in [Phil -> 0..1]
  /\ pc \in [Phil -> {"think", "hungry", "test", "grant", "signal", "sig_down",
                      "sig_ret", "cv_down", "cv_ret", "leave", "eat", "put"}]
  /\ iter \in [Phil -> 0..TIMES]
  /\ todo \in [Phil -> Seq(Phil)]

\* Inside the monitor, awake, and not on the way into a down() after having
\* passed the monitor on.
Active == {i \in Phil : /\ ~Asleep(i)
                        /\ pc[i] \in {"hungry", "test", "grant", "signal",
                                      "sig_ret", "cv_ret", "leave", "put"}}

\* monitor.h: "Only one process at a time may be be active in a monitor";
\* and the monitor is never lost: it is open, or one thread is active in it,
\* or it is on its way to one thread through next or a condition variable.
Handed == {i \in Phil : cv[i].value = 1}
BatonOK == mutex.value + next.value + Cardinality(Handed)
             + Cardinality(Active) = 1

\* next_count counts the signallers inside cond_signal's down(&next), so
\* whoever leaves knows whom to pass the monitor to.
NextCountOK ==
  next_count = Cardinality({i \in Phil : pc[i] \in {"sig_down", "sig_ret"}})

\* A thread that comes back from cond_wait owns its forks: nobody can take
\* them between the signal and its return.
SignalledEats ==
  \A i \in Phil : pc[i] = "cv_ret" /\ ~Asleep(i) => state_condvar[i] = "EATING"

\* One owner of the monitor through signals, waits and returns, with the
\* counters that say whom it is passed to; and whoever comes back from
\* cond_wait may eat, so that phi_take_forks_condvar need not test again.
MonitorOK == TypeOK /\ BatonOK /\ NextCountOK /\ SignalledEats

\* The state array takes only the steps of the abstract problem.
Dining == INSTANCE DiningSpec WITH phase <- state_condvar
DiningRefinement == Dining!Spec

=============================================================================
