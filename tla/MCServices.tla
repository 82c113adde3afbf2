----------------------------- MODULE MCServices -----------------------------
(***************************************************************************)
(* Three small services of the kernel for TLC: process ids (GetPid), the   *)
(* heap (Slob) and the keyboard (Stdin).  They share no state and none     *)
(* calls another, so each behaviour exercises one of them, which the       *)
(* initial state chooses, and the others stay as they start.               *)
(***************************************************************************)
EXTENDS GetPid, Slob, Stdin

\* The sizes the heap is checked with satisfy the hypothesis of the theorem
\* about them.
ASSUME MCSizesFit == SizesFit

VARIABLE service

servicesVars == <<service, pidVars, vars, stdinVars>>

ServicesInit ==
  /\ service \in {"get_pid", "kmalloc", "stdin"}
  /\ PidInit /\ Init /\ StdinInit

\* The keyboard has nothing left to do: no key comes, and every reader is dead or
\* slept on after a kill.
StdinOver ==
  /\ typed = MaxKeys
  /\ \A r \in Readers : pc[r] = "dead" \/ (pc[r] = "sleep" /\ killed[r])

GetPidStep == service = "get_pid" /\ PidNext /\ UNCHANGED <<service, vars, stdinVars>>
HeapStep == service = "kmalloc" /\ Next /\ UNCHANGED <<service, pidVars, stdinVars>>
StdinStep == service = "stdin" /\ StdinNext /\ UNCHANGED <<service, pidVars, vars>>
StdinRest == service = "stdin" /\ StdinOver /\ UNCHANGED servicesVars

ServicesNext == GetPidStep \/ HeapStep \/ StdinStep \/ StdinRest

\* The fairness of PidFairSpec and StdinFairSpec.
ServicesSpec ==
  /\ ServicesInit /\ [][ServicesNext]_servicesVars
  /\ WF_pidVars(Scan) /\ \A r \in Readers : WF_stdinVars(Resume(r))
=============================================================================
