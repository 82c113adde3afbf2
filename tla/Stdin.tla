------------------------------- MODULE Stdin -------------------------------
(***************************************************************************)
(* Keyboard input: kern/fs/devs/dev_stdin.c over the wait queue of         *)
(* kern/sync/wait.c.  The clock interrupt stores a key and wakes every     *)
(* reader; a reader takes what there is and sleeps (WT_KBD, interruptible) *)
(* until its request is filled.  A system call runs with interrupts off,   *)
(* so a reader gives way only in schedule().  Keys are numbered in the     *)
(* order they are typed.                                                   *)
(***************************************************************************)
EXTENDS Integers, Sequences, FiniteSets

CONSTANTS Readers, STDIN_BUFSIZE,
          MaxLen,     \* longest request
          MaxKeys     \* keys typed

ASSUME StdinAssumption == /\ STDIN_BUFSIZE \in Nat \ {0} /\ MaxLen \in Nat
                          /\ MaxKeys \in Nat

VARIABLES
  stdin_buffer, p_rpos, p_wpos,
  wait_queue,
  pc,            \* "user", "sleep" in schedule(), "ready" to leave it, "dead"
  wakeup_flags,  \* of the wait entry: "WT_KBD" or "WT_INTERRUPTED"
  need,          \* len - ret of the read in progress
  killed,        \* PF_EXITING
  typed,         \* keys so far
  got,           \* what readers took, in that order (history)
  lost           \* keys that were overwritten before they were read (history)

stdinVars == <<stdin_buffer, p_rpos, p_wpos, wait_queue, pc, wakeup_flags,
               need, killed, typed, got, lost>>

Slots == 0..(STDIN_BUFSIZE - 1)
InQueue(r) == \E k \in 1..Len(wait_queue) : wait_queue[k] = r

StdinInit ==
  /\ stdin_buffer = [i \in Slots |-> 0] /\ p_rpos = 0 /\ p_wpos = 0
  /\ wait_queue = <<>>
  /\ pc = [r \in Readers |-> "user"] /\ need = [r \in Readers |-> 0]
  /\ wakeup_flags = [r \in Readers |-> "WT_INTERRUPTED"]
  /\ killed = [r \in Readers |-> FALSE]
  /\ typed = 0 /\ got = <<>> /\ lost = {}

\* Faulty variant: nobody is woken.
wakeup_queue_None == UNCHANGED <<wait_queue, pc, wakeup_flags>>

\* Faulty variant: one waiter is woken for one key.
wakeup_queue_First ==
  IF wait_queue = <<>> THEN UNCHANGED <<wait_queue, pc, wakeup_flags>>
  ELSE LET r == Head(wait_queue) IN
       /\ wait_queue' = Tail(wait_queue)
       /\ pc' = [pc EXCEPT ![r] = "ready"]
       /\ wakeup_flags' = [wakeup_flags EXCEPT ![r] = "WT_KBD"]

\* wakeup_queue(wait_queue, WT_KBD, 1): everybody leaves the queue, those
\* included that do_kill has made runnable already.
wakeup_queue ==
  /\ wait_queue' = <<>>
  /\ pc' = [r \in Readers |-> IF InQueue(r) THEN "ready" ELSE pc[r]]
  /\ wakeup_flags' = [r \in Readers |-> IF InQueue(r) THEN "WT_KBD"
                                        ELSE wakeup_flags[r]]

Room == p_wpos - p_rpos < STDIN_BUFSIZE

\* When the buffer is full p_wpos stays, and the key replaces the oldest
\* one that was not read.
dev_stdin_write ==
  /\ typed < MaxKeys
  /\ typed' = typed + 1
  /\ stdin_buffer' = [stdin_buffer EXCEPT ![p_wpos % STDIN_BUFSIZE] = typed + 1]
  /\ p_wpos' = IF Room THEN p_wpos + 1 ELSE p_wpos
  /\ lost' = IF Room THEN lost
             ELSE lost \cup {stdin_buffer[p_wpos % STDIN_BUFSIZE]}
  /\ wakeup_queue
  /\ UNCHANGED <<p_rpos, need, killed, got>>

\* The k-th character not read yet, from 0.
CharAt(k) == stdin_buffer[(p_rpos + k) % STDIN_BUFSIZE]

\* The end of a system call: trap() ends a process that was killed.
ToUser(r) == [pc EXCEPT ![r] = IF killed[r] THEN "dead" ELSE "user"]

\* Faulty variant: the position is not moved.
Advance_Not(k) == p_rpos

Advance(k) == p_rpos + k

\* The loop of dev_stdin_read with n characters still to come, `q' the queue:
\* up to its end or to the wait_current_set of a sleep.
ReadLoop(r, n, q) ==
  LET k == IF n <= p_wpos - p_rpos THEN n ELSE p_wpos - p_rpos IN
  /\ got' = got \o [i \in 1..k |-> CharAt(i - 1)]
  /\ p_rpos' = Advance(k)
  /\ need' = [need EXCEPT ![r] = n - k]
  /\ IF k = n THEN /\ pc' = ToUser(r) /\ wait_queue' = q
                   /\ UNCHANGED wakeup_flags
     ELSE /\ pc' = [pc EXCEPT ![r] = "sleep"]
          /\ wait_queue' = Append(q, r)
          /\ wakeup_flags' = [wakeup_flags EXCEPT ![r] = "WT_INTERRUPTED"]
  /\ UNCHANGED <<stdin_buffer, p_wpos, killed, typed, lost>>

dev_stdin_read(r, n) == pc[r] = "user" /\ ReadLoop(r, n, wait_queue)

\* The wait entry leaves the queue, if it is still there.
wait_current_del(r) ==
  IF ~InQueue(r) THEN wait_queue
  ELSE LET k == CHOOSE j \in 1..Len(wait_queue) : wait_queue[j] = r
       IN  SubSeq(wait_queue, 1, k - 1) \o SubSeq(wait_queue, k + 1, Len(wait_queue))

\* schedule() returned after a key: try again ...
TryAgain(r) ==
  /\ pc[r] = "ready" /\ wakeup_flags[r] = "WT_KBD"
  /\ ReadLoop(r, need[r], wait_current_del(r))

\* ... and after a kill: return what there is.
Interrupted(r) ==
  /\ pc[r] = "ready" /\ wakeup_flags[r] = "WT_INTERRUPTED"
  /\ wait_queue' = wait_current_del(r)
  /\ pc' = ToUser(r)
  /\ need' = [need EXCEPT ![r] = 0]
  /\ UNCHANGED <<stdin_buffer, p_rpos, p_wpos, wakeup_flags, killed, typed, got, lost>>

\* do_kill of a reader inside the read: it wakes the process and leaves the
\* wait entry alone.
Kill(r) ==
  /\ pc[r] \in {"sleep", "ready"} /\ ~killed[r]
  /\ killed' = [killed EXCEPT ![r] = TRUE]
  /\ pc' = [pc EXCEPT ![r] = "ready"]
  /\ UNCHANGED <<stdin_buffer, p_rpos, p_wpos, wait_queue, wakeup_flags, need,
                 typed, got, lost>>

Resume(r) == TryAgain(r) \/ Interrupted(r)
StdinNext == \/ dev_stdin_write
        \/ \E r \in Readers : \/ Resume(r) \/ Kill(r)
                              \/ \E n \in 1..MaxLen : dev_stdin_read(r, n)

StdinSpec == StdinInit /\ [][StdinNext]_stdinVars

\* A runnable process runs (RunnableRuns of Proc); keys need not come.
StdinFairSpec == StdinSpec /\ \A r \in Readers : WF_stdinVars(Resume(r))

(***************************************************************************)
(* Properties.                                                             *)
(***************************************************************************)

\* Every variable stays in its range; no more is buffered than fits.
StdinTypeOK ==
  /\ stdin_buffer \in [Slots -> 0..MaxKeys]
  /\ p_rpos \in 0..MaxKeys /\ p_wpos \in 0..MaxKeys
  /\ 0 <= p_wpos - p_rpos /\ p_wpos - p_rpos <= STDIN_BUFSIZE
  /\ wait_queue \in Seq(Readers)
  /\ pc \in [Readers -> {"user", "sleep", "ready", "dead"}]
  /\ wakeup_flags \in [Readers -> {"WT_KBD", "WT_INTERRUPTED"}]
  /\ need \in [Readers -> 0..MaxLen] /\ killed \in [Readers -> BOOLEAN]
  /\ typed \in 0..MaxKeys /\ got \in Seq(0..MaxKeys) /\ lost \subseteq 1..MaxKeys

\* No lost wakeup: nobody sleeps while there is something to read.
NoLostWakeup == \A r \in Readers : pc[r] = "sleep" => p_rpos = p_wpos

\* The queue holds, once each, exactly the readers whose wait entry a key may
\* still find: it lives on the stack of a read that has not come back.
QueueOK ==
  /\ \A j, k \in 1..Len(wait_queue) : wait_queue[j] = wait_queue[k] => j = k
  /\ \A r \in Readers : InQueue(r) <=>
       /\ pc[r] \in {"sleep", "ready"} /\ wakeup_flags[r] = "WT_INTERRUPTED"

Unread == [i \in 1..(p_wpos - p_rpos) |-> CharAt(i - 1)]
Seen == got \o Unread

\* Each key is delivered once or waits to be, unless it was overwritten
\* in a full buffer; none is delivered twice.
Accounted ==
  /\ {Seen[k] : k \in 1..Len(Seen)} = (1..typed) \ lost
  /\ Len(Seen) = Cardinality((1..typed) \ lost)

\* As long as the buffer did not overflow, the readers together get the keys
\* in the order they were typed.
InOrder == lost = {} => Seen = [k \in 1..typed |-> k]

\* Buffer and wait queue agree with what was typed, read and waited for.
BufferOK == StdinTypeOK /\ QueueOK /\ Accounted /\ InOrder

\* A key does not lie in the buffer while a reader waits for it.
Waiting(r) == pc[r] = "sleep" \/ (pc[r] = "ready" /\ wakeup_flags[r] = "WT_KBD")
Delivered ==
  \A r \in Readers : Waiting(r) /\ p_rpos < p_wpos
                       ~> ~Waiting(r) \/ p_rpos = p_wpos
=============================================================================
