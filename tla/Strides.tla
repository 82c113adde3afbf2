------------------------------ MODULE Strides ------------------------------
(***************************************************************************)
(* The comparison of strides (kern/schedule/default_sched_stride.c): W-bit *)
(* numbers that wrap, ordered by the sign of their difference.             *)
(***************************************************************************)
EXTENDS Integers

CONSTANTS HALF,          \* 2^(W-1)
          BIG_STRIDE

ASSUME StrideAssumption ==
  /\ HALF \in Nat /\ BIG_STRIDE \in Nat /\ BIG_STRIDE < HALF

\* Faulty variant: strides are compared as plain numbers.
Diff_Plain(x, y) == (x % (2 * HALF)) - (y % (2 * HALF))

\* int32_t c = p->lab6_stride - q->lab6_stride, where x and y are what the
\* strides would be without wrapping.
Diff(x, y) ==
  LET d == ((x % (2 * HALF)) - (y % (2 * HALF))) % (2 * HALF)
  IN IF d < HALF THEN d ELSE d - 2 * HALF

\* At most BIG_STRIDE apart.
Near(x, y) == x - y <= BIG_STRIDE /\ y - x <= BIG_STRIDE
=============================================================================
