------------------------------- MODULE MCProc -------------------------------
EXTENDS Proc, TLC

CONSTANTS p1, p2, p3

\* The dynamic slots are interchangeable.
Slots == Permutations(Procs \ {idleproc, initproc})
=============================================================================
