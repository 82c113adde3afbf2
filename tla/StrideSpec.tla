----------------------------- MODULE StrideSpec -----------------------------
(***************************************************************************)
(* What stride scheduling promises, with passes that never wrap: the       *)
(* process that runs next has the smallest pass of those that can run, so  *)
(* their passes stay within BIG_STRIDE of each other.  A process that      *)
(* joins brings the pass it had.  When that is farther away the promise    *)
(* ends (`mixed'), because the code compares only W-bit remainders.        *)
(***************************************************************************)
EXTENDS Strides

CONSTANT Procs

VARIABLES active,        \* the processes that can run
          pass,          \* what lab6_stride would be without wrapping
          mixed

svars == <<active, pass, mixed>>

SInit == active = {} /\ pass = [p \in Procs |-> 0] /\ mixed = FALSE

Join(p) ==
  /\ p \in Procs \ active
  /\ active' = active \cup {p}
  /\ mixed' = (mixed \/ \E q \in active : ~Near(pass[p], pass[q]))
  /\ UNCHANGED pass

\* A process that has ended (E) leaves a slot that starts again at 0.
Cleared(E) == [q \in Procs |-> IF q \in E THEN 0 ELSE pass[q]]

\* schedule: those outside A have stopped; of the others p runs and pays d.
Run(p, A, E, d) ==
  /\ p \in A
  /\ ~mixed => \A q \in A : pass[p] <= pass[q]
  /\ active' = A
  /\ pass' = [Cleared(E) EXCEPT ![p] = @ + d]
  /\ UNCHANGED mixed

\* Nobody is left to run.
Stop(E) == active' = {} /\ pass' = Cleared(E) /\ UNCHANGED mixed

SNext ==
  \/ \E p \in Procs : Join(p)
  \/ \E A \in SUBSET active : \E E \in SUBSET (active \ A) :
       \E p \in A, d \in 0..BIG_STRIDE : Run(p, A, E, d)
  \/ \E E \in SUBSET active : Stop(E)

SSpec == SInit /\ [][SNext]_svars

\* The passes of the processes that can run stay within BIG_STRIDE of each
\* other, as long as no process has come in from farther away.
Spread == ~mixed => \A p, q \in active : Near(pass[p], pass[q])
=============================================================================
