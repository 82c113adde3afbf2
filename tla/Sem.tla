-------------------------------- MODULE Sem --------------------------------
(***************************************************************************)
(* Kernel semaphores, kern/sync/sem.c over the wait queues of wait.c.      *)
(* A semaphore is a record [value, queue]; `queue' is its wait_queue, the  *)
(* processes that sleep in down() in the order they came.  __up hands its  *)
(* unit straight to the first of them: wakeup_wait takes it off the queue  *)
(* with the flags down() expects, and value does not change.  So a process *)
(* is past its down() as soon as the queue no longer holds it.  A sleep on *)
(* a semaphore (WT_KSEM) is not interruptible: nothing but up() ends it.   *)
(***************************************************************************)
EXTENDS Integers, Sequences

sem_init(n) == [value |-> n, queue |-> <<>>]

down(x, p) == IF x.value > 0
              THEN [x EXCEPT !.value = @ - 1]
              ELSE [x EXCEPT !.queue = Append(@, p)]

\* Faulty variant: a unit that was handed over is counted as well.
up_Twice(x) == IF x.queue = <<>>
               THEN [x EXCEPT !.value = @ + 1]
               ELSE [x EXCEPT !.value = @ + 1, !.queue = Tail(@)]

up(x) == IF x.queue = <<>>
         THEN [x EXCEPT !.value = @ + 1]
         ELSE [x EXCEPT !.queue = Tail(@)]

Waits(x, p) == \E k \in 1..Len(x.queue) : x.queue[k] = p
=============================================================================
