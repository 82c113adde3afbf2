----------------------------- MODULE TimerList -----------------------------
(***************************************************************************)
(* The delta list of kern/schedule/sched.c.  A timer waits in timer_list   *)
(* with `expires' counted from the timer in front of it, so a clock tick   *)
(* touches the head alone.  A list is a sequence of records                *)
(* [proc, expires]; the operators below are the list surgery of add_timer, *)
(* del_timer and run_timer_list, each done by the code with interrupts     *)
(* disabled.                                                               *)
(***************************************************************************)
EXTENDS Integers, Sequences

Timer(p, t) == [proc |-> p, expires |-> t]

Armed(list, p) == \E i \in 1..Len(list) : list[i].proc = p

\* The test of add_timer's loop: the walk goes past the k-th timer unless
\* the new one, with e ticks to go from there, is due before it.
PassesBy(list, k, e) == k <= Len(list) /\ e >= list[k].expires

\* list_add_before at the place where the walk stopped; the timer that now
\* follows is charged the ticks in front of it.
InsertAt(list, k, p, e) ==
  [i \in 1..(Len(list) + 1) |->
     IF i < k THEN list[i]
     ELSE IF i = k THEN Timer(p, e)
     ELSE IF i = k + 1 THEN Timer(list[k].proc, list[k].expires - e)
     ELSE list[i - 1]]

\* Faulty variant: the ticks the timer had left are lost.
Unlink_LosesTicks(list, k) ==
  [i \in 1..(Len(list) - 1) |-> IF i < k THEN list[i] ELSE list[i + 1]]

\* del_timer: unlink p's timer, if it is still linked, and hand what it had
\* left to the timer behind it.
Unlink(list, k) ==
  [i \in 1..(Len(list) - 1) |->
     IF i < k THEN list[i]
     ELSE IF i = k THEN Timer(list[k + 1].proc,
                              list[k + 1].expires + list[k].expires)
     ELSE list[i + 1]]

del_timer(list, p) ==
  IF Armed(list, p)
  THEN Unlink(list, CHOOSE k \in 1..Len(list) : list[k].proc = p)
  ELSE list

\* run_timer_list: one clock tick decrements the head alone ...
Decrement(list) ==
  IF list = <<>> THEN list
  ELSE [list EXCEPT ![1] = Timer(@.proc, @.expires - 1)]

\* ... and the loop that follows runs while the head has nothing left.
HeadExpired(list) == list # <<>> /\ Head(list).expires = 0

\* Ticks until p's timer runs out: the sum of the deltas up to its place.
Left(list, p) ==
  LET sum[i \in 0..Len(list)] ==
        IF i = 0 THEN 0 ELSE sum[i - 1] + list[i].expires
  IN sum[CHOOSE i \in 1..Len(list) : list[i].proc = p]
=============================================================================
