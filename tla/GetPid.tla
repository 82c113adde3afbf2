------------------------------- MODULE GetPid -------------------------------
(***************************************************************************)
(* Process identifiers: get_pid of kern/process/proc.c, one step per round *)
(* of its scan over proc_list, between the forks and the reaps that change *)
(* that list.  do_fork calls it with interrupts off, so the list stands    *)
(* still while the scan runs.                                              *)
(***************************************************************************)
EXTENDS Integers, Sequences

CONSTANTS MAX_PID, MAX_PROCESS

ASSUME PidAssumption == /\ MAX_PID \in Nat /\ MAX_PROCESS \in Nat \ {0}
                        /\ MAX_PID > MAX_PROCESS   \* the static_assert

VARIABLES
  pids,                 \* the pid of each entry of proc_list, in its order
  last_pid, next_safe,  \* the static variables
  at,                   \* the entry the scan looks at next, 0 outside get_pid
  from                  \* last_pid when get_pid was called

pidVars == <<pids, last_pid, next_safe, at, from>>

\* The value of last_pid after the increment at the head of get_pid.
Stepped == IF last_pid + 1 >= MAX_PID THEN 1 ELSE last_pid + 1

PidInit == pids = <<>> /\ last_pid = MAX_PID /\ next_safe = MAX_PID /\ at = 0 /\ from = 0

\* do_fork gives the pid to the new process and set_links puts it first.
Hand(p) == pids' = <<p>> \o pids

\* Faulty variant: next_safe itself is taken for safe.
Quick_Inclusive ==
  /\ at = 0 /\ Len(pids) < MAX_PROCESS
  /\ last_pid + 1 < MAX_PID /\ last_pid + 1 <= next_safe
  /\ last_pid' = last_pid + 1 /\ from' = last_pid
  /\ Hand(last_pid + 1)
  /\ UNCHANGED <<next_safe, at>>

\* No process has a pid below next_safe yet: no scan is needed.
Quick ==
  /\ at = 0 /\ Len(pids) < MAX_PROCESS
  /\ last_pid + 1 < MAX_PID /\ last_pid + 1 < next_safe
  /\ last_pid' = last_pid + 1 /\ from' = last_pid
  /\ Hand(last_pid + 1)
  /\ UNCHANGED <<next_safe, at>>

\* "inside": start the scan.
Begin ==
  /\ at = 0 /\ Len(pids) < MAX_PROCESS
  /\ last_pid + 1 >= MAX_PID \/ last_pid + 1 >= next_safe
  /\ last_pid' = Stepped /\ from' = last_pid
  /\ next_safe' = MAX_PID /\ at' = 1
  /\ UNCHANGED pids

\* Faulty variant: the scan stops at the highest pid.
InUse_Clamped ==
  /\ at \in 1..Len(pids) /\ pids[at] = last_pid
  /\ IF last_pid + 1 >= next_safe
     THEN /\ last_pid' = IF last_pid + 1 >= MAX_PID THEN last_pid ELSE last_pid + 1
          /\ next_safe' = MAX_PID /\ at' = 1
     ELSE last_pid' = last_pid + 1 /\ at' = at + 1 /\ UNCHANGED next_safe
  /\ UNCHANGED <<pids, from>>

\* The pid is in use: try the next one, and scan again if it is not known to
\* be safe.
InUse ==
  /\ at \in 1..Len(pids) /\ pids[at] = last_pid
  /\ IF last_pid + 1 >= next_safe
     THEN /\ last_pid' = IF last_pid + 1 >= MAX_PID THEN 1 ELSE last_pid + 1
          /\ next_safe' = MAX_PID /\ at' = 1
     ELSE last_pid' = last_pid + 1 /\ at' = at + 1 /\ UNCHANGED next_safe
  /\ UNCHANGED <<pids, from>>

\* Faulty variant: the last pid above last_pid wins, not the lowest.
Other_Last ==
  /\ at \in 1..Len(pids) /\ pids[at] # last_pid
  /\ next_safe' = IF pids[at] > last_pid THEN pids[at] ELSE next_safe
  /\ at' = at + 1
  /\ UNCHANGED <<pids, last_pid, from>>

\* Another pid: remember the lowest one above last_pid.
Other ==
  /\ at \in 1..Len(pids) /\ pids[at] # last_pid
  /\ next_safe' = IF pids[at] > last_pid /\ next_safe > pids[at] THEN pids[at]
                  ELSE next_safe
  /\ at' = at + 1
  /\ UNCHANGED <<pids, last_pid, from>>

Return ==
  /\ at = Len(pids) + 1
  /\ Hand(last_pid)
  /\ at' = 0
  /\ UNCHANGED <<last_pid, next_safe, from>>

\* do_wait frees a process and takes it off the list (remove_links).
Reap(k) ==
  /\ at = 0
  /\ pids' = SubSeq(pids, 1, k - 1) \o SubSeq(pids, k + 1, Len(pids))
  /\ UNCHANGED <<last_pid, next_safe, at, from>>

Scan == InUse \/ Other \/ Return
PidNext == Quick \/ Begin \/ Scan \/ \E k \in 1..Len(pids) : Reap(k)

PidSpec == PidInit /\ [][PidNext]_pidVars

\* get_pid is straight-line kernel code: it goes on.
PidFairSpec == PidSpec /\ WF_pidVars(Scan)

(***************************************************************************)
(* Properties.                                                             *)
(***************************************************************************)

\* Every variable stays in its range: no pid is 0 (idle) or beyond MAX_PID.
PidTypeOK ==
  /\ pids \in Seq(1..(MAX_PID - 1)) /\ Len(pids) <= MAX_PROCESS
  /\ last_pid \in 1..MAX_PID /\ next_safe \in 1..MAX_PID
  /\ at \in 0..(Len(pids) + 1) /\ from \in 0..MAX_PID

\* "get_pid - alloc a unique pid for process".
Unique == \A j, k \in 1..Len(pids) : pids[j] = pids[k] => j = k

\* The values between last_pid and next_safe are free, which is what the
\* next call relies on when it does not look at the list.
GapOK ==
  at = 0 => \A k \in 1..Len(pids) : ~(last_pid < pids[k] /\ pids[k] < next_safe)

\* Pids are reused as late as possible: every pid that was passed over on the
\* way from the last one handed out, around the end if need be, is in use.
Between(a, p, b) == IF a < b THEN a < p /\ p < b ELSE a < p \/ p < b
UsedPids == {pids[k] : k \in 1..Len(pids)}
PassedOver == at > 0 => \A p \in 1..(MAX_PID - 1) :
                          Between(from, p, last_pid) => p \in UsedPids

\* The two ends of the search: what it skips is in use, and what it leaves to
\* the next call is free.
SearchOK == GapOK /\ PassedOver

\* get_pid returns: with fewer processes than pids, the scan finds a free one.
Terminates == at > 0 ~> at = 0
=============================================================================
