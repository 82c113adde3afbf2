---------------------------- MODULE Philosophers ----------------------------
(***************************************************************************)
(* What both tests of kern/sync/check_sync.c share: N philosophers at a    *)
(* round table, each of whom eats TIMES times.                             *)
(***************************************************************************)
EXTENDS Sem

CONSTANTS N,        \* number of philosophers
          TIMES     \* rounds each of them eats

ASSUME PhilAssumption == N \in Nat \ {0} /\ TIMES \in Nat

Phil == 0..(N - 1)
LEFT(i) == IF i = 0 THEN N - 1 ELSE i - 1
RIGHT(i) == IF i = N - 1 THEN 0 ELSE i + 1
=============================================================================
