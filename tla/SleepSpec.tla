----------------------------- MODULE SleepSpec -----------------------------
(***************************************************************************)
(* What do_sleep promises, without the delta list: a process arms a timer  *)
(* for t ticks, the timer rings when t clock ticks have passed since then, *)
(* not earlier and not later, and whoever is woken before that cancels it. *)
(***************************************************************************)
EXTENDS Integers

CONSTANTS Procs, MaxSleep

VARIABLE left          \* ticks until p's timer rings, or Off

Off == -1
Armed == {p \in Procs : left[p] # Off}

Init == left = [p \in Procs |-> Off]

Arm(p) == /\ p \notin Armed
          /\ \E t \in 1..MaxSleep : left' = [left EXCEPT ![p] = t]

\* A clock tick reaches every timer at once, and only when all that were due
\* have rung.
Tick == /\ \A p \in Armed : left[p] > 0
        /\ left' = [p \in Procs |-> IF p \in Armed THEN left[p] - 1 ELSE Off]

Ring(p) == left[p] = 0 /\ left' = [left EXCEPT ![p] = Off]

Cancel(p) == p \in Armed /\ left[p] > 0 /\ left' = [left EXCEPT ![p] = Off]

Next == Tick \/ \E p \in Procs : Arm(p) \/ Ring(p) \/ Cancel(p)

Spec == Init /\ [][Next]_left
=============================================================================
