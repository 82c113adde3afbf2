------------------------------ MODULE PmmSpec ------------------------------
(***************************************************************************)
(* What a physical memory manager promises its callers, without any list:  *)
(* which frames a request gets, and that it fails only when there are none *)
(* of the kind the policy looks for.                                       *)
(***************************************************************************)
EXTENDS Integers, FiniteSetsExt

CONSTANTS npage,
          MAX_ORDER        \* blocks of the buddy system have up to 2^(MAX_ORDER - 1) frames

VARIABLES policy,          \* "first", "best" or "buddy"
          free,            \* the frames the manager may give
          ret              \* what the last alloc_pages returned

Pages == 0..(npage - 1)
NULL == -1

Run(base, n) == base..(base + n - 1)
Fits(n) == {base \in Pages : Run(base, n) \subseteq free}

\* Maximal free runs, by their first frame.
Starts == {b \in free : b - 1 \notin free}
Length(b) == Max({m \in 1..npage : Run(b, m) \subseteq free})
BestStarts(n) ==
  LET fitting == {b \in Starts : Length(b) >= n} IN
  {b \in fitting : \A c \in fitting : Length(b) <= Length(c)}

Order(n) == Min({o \in 0..n : 2^o >= n})

\* How many frames a request for n gets, and where.
Size(n) == IF policy = "buddy" THEN 2^Order(n) ELSE n
Eligible(n) ==
  CASE policy = "first" -> {b \in Fits(n) : \A c \in Fits(n) : b <= c}
    [] policy = "best" -> {b \in BestStarts(n) : \A c \in BestStarts(n) : b <= c}
    [] policy = "buddy" -> {b \in Fits(Size(n)) : Order(n) < MAX_ORDER /\ b % Size(n) = 0}

Init == free = Pages /\ ret = NULL

Alloc(n) ==
  /\ \/ ret' = NULL /\ free' = free /\ Eligible(n) = {}
     \/ ret' \in free /\ free' = free \ Run(ret', Size(n)) /\ ret' \in Eligible(n)
  /\ UNCHANGED policy

Free(base, n) ==
  /\ UNCHANGED <<policy, ret>>
  /\ Run(base, n) \subseteq Pages \ free
  /\ free' = free \cup Run(base, n)

Next == \/ \E n \in 1..npage : Alloc(n)
        \/ free' # free /\ \E base \in Pages, n \in 1..npage : Free(base, n)

Spec == Init /\ [][Next]_<<policy, free, ret>>
=============================================================================
