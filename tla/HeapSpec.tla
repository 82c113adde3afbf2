------------------------------ MODULE HeapSpec ------------------------------
(***************************************************************************)
(* What a heap promises: a request gets cells that are in nobody else's    *)
(* block.  It takes a page from the machine only when no run of free cells *)
(* is long enough, and is refused only when there is no page either.       *)
(***************************************************************************)
EXTENDS Integers

CONSTANTS U, Pages          \* cells of a page, the pages of the machine

VARIABLES heap,             \* the cells of the heap
          used,             \* its blocks: their length by their first cell
          want,             \* the request in progress, or 0
          frames            \* the free pages

svars == <<heap, used, want, frames>>

Cells(f) == (f * U)..(f * U + U - 1)
Run(a, n) == a..(a + n - 1)
Free == heap \ UNION {Run(a, used[a]) : a \in DOMAIN used}
Room(n) == \E a \in heap : Run(a, n) \subseteq Free

Request(n) == want = 0 /\ want' = n /\ UNCHANGED <<heap, used, frames>>

Give(a) ==
  /\ want > 0 /\ Run(a, want) \subseteq Free
  /\ used' = [b \in DOMAIN used \cup {a} |-> IF b = a THEN want ELSE used[b]]
  /\ want' = 0
  /\ UNCHANGED <<heap, frames>>

Grow(f) ==
  /\ want > 0 /\ ~Room(want) /\ f \in frames
  /\ heap' = heap \cup Cells(f)
  /\ frames' = frames \ {f}
  /\ UNCHANGED <<used, want>>

Refuse ==
  /\ want > 0 /\ ~Room(want) /\ frames = {}
  /\ want' = 0
  /\ UNCHANGED <<heap, used, frames>>

Without(a) == [b \in DOMAIN used \ {a} |-> used[b]]

Release(a) ==
  /\ want = 0 /\ used' = Without(a)
  /\ UNCHANGED <<heap, want, frames>>

\* Pages that are taken from the machine and given back to it as a whole; a
\* block of the heap that describes them may go with them.
TakePages(F) == want = 0 /\ F \subseteq frames /\ frames' = frames \ F
                /\ UNCHANGED <<heap, used, want>>

ReturnPages(F, a) ==
  /\ want = 0 /\ F \cap frames = {} /\ frames' = frames \cup F
  /\ used' = Without(a)
  /\ \A f \in F : Cells(f) \cap heap = {}
  /\ UNCHANGED <<heap, want>>

SNext ==
  \/ \E n \in 1..U : Request(n)
  \/ Refuse
  \/ \E f \in frames : Grow(f)
  \/ \E a \in heap : Give(a)
  \/ \E a \in DOMAIN used : Release(a)
  \/ \E F \in SUBSET Pages : TakePages(F) \/ \E a \in DOMAIN used : ReturnPages(F, a)

HSpec == used = <<>> /\ want = 0 /\ [][SNext]_svars
=============================================================================
