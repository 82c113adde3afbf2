----------------------------- MODULE CheckSync -----------------------------
(***************************************************************************)
(* check_sync of kern/sync/check_sync.c: the philosophers with semaphores  *)
(* run first; when do_wait has got all of them back, the monitor is set up *)
(* and the philosophers with condition variables run.                      *)
(***************************************************************************)
EXTENDS PhilSema

VARIABLES
  second,                                   \* the second test has begun
  state_condvar, mt_mutex, mt_next, mt_next_count, mt_cv, mt_count,
  mt_pc, mt_iter, mt_todo

mtVars == <<state_condvar, mt_mutex, mt_next, mt_next_count, mt_cv, mt_count,
            mt_pc, mt_iter, mt_todo>>
allVars == <<vars, mtVars, second>>

Monitor == INSTANCE PhilMonitor WITH
  mutex <- mt_mutex, next <- mt_next, next_count <- mt_next_count,
  cv <- mt_cv, count <- mt_count, pc <- mt_pc, iter <- mt_iter, todo <- mt_todo

CInit == Init /\ Monitor!Init /\ second = FALSE

SemaStep(i) == ~second /\ Step(i) /\ UNCHANGED <<mtVars, second>>

\* The last do_wait of the first loop returns.
StartSecond ==
  /\ ~second /\ Finished
  /\ second' = TRUE
  /\ UNCHANGED <<vars, mtVars>>

MonitorStep(i) == second /\ Monitor!Step(i) /\ UNCHANGED <<vars, second>>

AllDone == second /\ Monitor!Finished /\ UNCHANGED allVars

CNext ==
  \/ StartSecond \/ AllDone
  \/ \E i \in Phil : SemaStep(i) \/ MonitorStep(i)

CSpec == CInit /\ [][CNext]_allVars

\* Each thread is scheduled (RunnableRuns of Proc) and its do_sleep ends
\* (SleeperWakes).
FairSpec ==
  /\ CSpec
  /\ WF_allVars(StartSecond)
  /\ \A i \in Phil : WF_allVars(SemaStep(i)) /\ WF_allVars(MonitorStep(i))

\* One owner of the monitor, through signals, waits and returns.
MonitorOK == Monitor!MonitorOK

\* state_condvar takes only the steps of the abstract problem.
MonitorDining == Monitor!DiningRefinement

\* No deadlock and no starvation: do_wait gets every thread of both tests back.
CheckSyncEnds == <>(second /\ Monitor!Finished)
=============================================================================
