---------------------------- MODULE DiningSpec ----------------------------
(***************************************************************************)
(* What check_sync.c asks of both solutions of the philosophers' problem:  *)
(* a hungry philosopher may start to eat when neither neighbour eats, and  *)
(* gets to.                                                                *)
(***************************************************************************)
EXTENDS Integers

CONSTANT N

VARIABLE phase

Phil == 0..(N - 1)
LEFT(i) == IF i = 0 THEN N - 1 ELSE i - 1
RIGHT(i) == IF i = N - 1 THEN 0 ELSE i + 1

Free(i) == \A j \in {LEFT(i), RIGHT(i)} : phase[j] # "EATING"

Init == phase = [i \in Phil |-> "THINKING"]

Hungry(i) == /\ phase[i] = "THINKING"
             /\ phase' = [phase EXCEPT ![i] = "HUNGRY"]
Eat(i) == /\ phase[i] = "HUNGRY" /\ Free(i)
          /\ phase' = [phase EXCEPT ![i] = "EATING"]
Done(i) == /\ phase[i] = "EATING"
           /\ phase' = [phase EXCEPT ![i] = "THINKING"]

Next == \E i \in Phil : Hungry(i) \/ Eat(i) \/ Done(i)

Spec == Init /\ [][Next]_phase
=============================================================================
