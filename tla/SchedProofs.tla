----------------------------- MODULE SchedProofs -----------------------------
(***************************************************************************)
(* The scheduling classes of lab6 and the process ids that proc.c hands    *)
(* out.                                                                    *)
(***************************************************************************)
EXTENDS GetPid, SchedClass, FiniteSetTheorems, SequenceTheorems,
        NaturalsInduction, WellFoundedInduction, TLAPS

----------------------------------------------------------------------------
(* Process ids (GetPid) *)

\* What the part of the scan done so far has established.
ScanOK ==
  at > 0 => /\ last_pid < MAX_PID /\ Len(pids) < MAX_PROCESS
            /\ \A k \in 1..Len(pids) :
                 k < at => /\ pids[k] # last_pid
                           /\ ~(last_pid < pids[k] /\ pids[k] < next_safe)

PidInv == PidTypeOK /\ Unique /\ GapOK /\ ScanOK /\ PassedOver

LEMMA PidInitOK == PidInit => PidInv
BY PidAssumption DEF PidInit, PidInv, PidTypeOK, Unique, GapOK, ScanOK, PassedOver

\* A pid put in front (set_links) keeps the others in their order ...
LEMMA HandFacts ==
  ASSUME NEW S, NEW q \in Seq(S), NEW p \in S
  PROVE  /\ <<p>> \o q \in Seq(S)
         /\ Len(<<p>> \o q) = Len(q) + 1
         /\ (<<p>> \o q)[1] = p
         /\ \A k \in 2..(Len(q) + 1) : (<<p>> \o q)[k] = q[k - 1]
<1>1. <<p>> \in Seq(S) /\ Len(<<p>>) = 1 /\ <<p>>[1] = p /\ Len(q) \in Nat
  OBVIOUS
<1> QED BY <1>1, ConcatProperties

\* ... and so does taking one out (remove_links).
LEMMA DropFacts ==
  ASSUME NEW S, NEW q \in Seq(S), NEW k \in 1..Len(q)
  PROVE  LET r == SubSeq(q, 1, k - 1) \o SubSeq(q, k + 1, Len(q)) IN
         /\ r \in Seq(S) /\ Len(r) = Len(q) - 1
         /\ \A j \in 1..(Len(q) - 1) : r[j] = IF j < k THEN q[j] ELSE q[j + 1]
<1> DEFINE a == SubSeq(q, 1, k - 1)
           b == SubSeq(q, k + 1, Len(q))
<1>0. k \in Int /\ Len(q) \in Nat /\ \A j \in 1..Len(q) : q[j] \in S
  OBVIOUS
<1>1. /\ a \in Seq(S) /\ Len(a) = k - 1
      /\ \A j \in 1..(k - 1) : a[j] = q[j]
  <2>1. k - 1 \in Int /\ 1 \in Int /\ \A j \in 1..(k - 1) : q[j] \in S
    BY <1>0
  <2>2. /\ SubSeq(q, 1, k - 1) \in Seq(S)
        /\ Len(SubSeq(q, 1, k - 1)) = IF 1 <= k - 1 THEN k - 1 - 1 + 1 ELSE 0
        /\ \A i \in 1..(k - 1 - 1 + 1) : SubSeq(q, 1, k - 1)[i] = q[1 + i - 1]
    BY <2>1, SubSeqProperties
  <2> QED BY <1>0, <2>2
<1>2. /\ b \in Seq(S) /\ Len(b) = Len(q) - k
      /\ \A j \in 1..(Len(q) - k) : b[j] = q[j + k]
  <2>1. k + 1 \in Int /\ Len(q) \in Int /\ \A j \in (k + 1)..Len(q) : q[j] \in S
    BY <1>0
  <2>2. /\ SubSeq(q, k + 1, Len(q)) \in Seq(S)
        /\ Len(SubSeq(q, k + 1, Len(q))) =
             IF k + 1 <= Len(q) THEN Len(q) - (k + 1) + 1 ELSE 0
        /\ \A i \in 1..(Len(q) - (k + 1) + 1) :
             SubSeq(q, k + 1, Len(q))[i] = q[k + 1 + i - 1]
    BY <2>1, SubSeqProperties
  <2> QED BY <1>0, <2>2
<1> HIDE DEF a, b
<1>3. /\ a \o b \in Seq(S) /\ Len(a \o b) = Len(a) + Len(b)
      /\ \A j \in 1..(Len(a) + Len(b)) :
           (a \o b)[j] = IF j <= Len(a) THEN a[j] ELSE b[j - Len(a)]
  BY <1>1, <1>2, ConcatProperties
<1>4. /\ a \o b \in Seq(S) /\ Len(a \o b) = Len(q) - 1
      /\ \A j \in 1..(Len(q) - 1) : (a \o b)[j] = IF j < k THEN q[j] ELSE q[j + 1]
  <2>1. Len(a) + Len(b) = Len(q) - 1
    BY <1>0, <1>1, <1>2
  <2>2. ASSUME NEW j \in 1..(Len(q) - 1)
        PROVE  (a \o b)[j] = IF j < k THEN q[j] ELSE q[j + 1]
    <3>1. (a \o b)[j] = IF j <= k - 1 THEN a[j] ELSE b[j - (k - 1)]
      BY <1>1, <1>3, <2>1
    <3>2. CASE j < k
      <4>1. j <= k - 1 /\ j \in 1..(k - 1)
        BY <1>0, <3>2
      <4> QED BY <1>1, <3>1, <3>2, <4>1
    <3>3. CASE ~(j < k)
      <4>1. ~(j <= k - 1) /\ j - (k - 1) \in 1..(Len(q) - k)
            /\ j - (k - 1) + k = j + 1
        BY <1>0, <3>3
      <4> QED BY <1>2, <3>1, <3>3, <4>1
    <3> QED BY <3>2, <3>3
  <2> QED BY <1>3, <2>1, <2>2
<1> QED BY <1>4 DEF a, b

LEMMA Elements ==
  ASSUME PidInv
  PROVE  /\ pids \in Seq(1..(MAX_PID - 1)) /\ Len(pids) \in Nat
         /\ \A k \in 1..Len(pids) : pids[k] \in 1..(MAX_PID - 1) /\ pids[k] \in Int
         /\ last_pid \in Int /\ next_safe \in Int /\ MAX_PID \in Int
         /\ at \in Int /\ from \in Int
BY PidAssumption DEF PidInv, PidTypeOK

LEMMA QuickStep == PidInv /\ Quick => PidInv'
<1> SUFFICES ASSUME PidInv, Quick PROVE PidInv'
  OBVIOUS
<1>1. /\ last_pid + 1 \in 1..(MAX_PID - 1) /\ pids \in Seq(1..(MAX_PID - 1))
      /\ pids' = <<last_pid + 1>> \o pids
  BY PidAssumption DEF PidInv, PidTypeOK, Quick, Hand
<1>2. /\ pids' \in Seq(1..(MAX_PID - 1)) /\ Len(pids') = Len(pids) + 1
      /\ pids'[1] = last_pid + 1
      /\ \A k \in 2..(Len(pids) + 1) : pids'[k] = pids[k - 1]
  BY <1>1, HandFacts
<1>3. \A k \in 1..Len(pids) : pids[k] # last_pid + 1
  BY <1>1, Elements DEF PidInv, GapOK, Quick
<1>4. PidTypeOK'
  BY <1>1, <1>2, PidAssumption DEF PidInv, PidTypeOK, Quick
<1>5. Unique'
  <2> SUFFICES ASSUME NEW i \in 1..Len(pids'), NEW j \in 1..Len(pids'),
                      pids'[i] = pids'[j]
               PROVE  i = j
    BY DEF Unique
  <2>0. ASSUME NEW x \in 1..Len(pids'), x # 1
        PROVE  pids'[x] # last_pid + 1
    <3>1. x \in 2..(Len(pids) + 1) /\ x - 1 \in 1..Len(pids)
      BY <1>1, <1>2, <2>0
    <3> QED BY <1>2, <1>3, <3>1
  <2>1. CASE i = 1 \/ j = 1
    BY <1>2, <2>0, <2>1
  <2>2. CASE i # 1 /\ j # 1
    <3>1. i - 1 \in 1..Len(pids) /\ j - 1 \in 1..Len(pids)
          /\ pids[i - 1] = pids[j - 1]
      BY <1>2, <2>2, Elements
    <3>2. i - 1 = j - 1
      BY <3>1 DEF PidInv, Unique
    <3> QED BY <3>2
  <2> QED BY <2>1, <2>2
<1>6. GapOK'
  <2> SUFFICES ASSUME NEW j \in 1..Len(pids'), last_pid + 1 < pids'[j],
                      pids'[j] < next_safe
               PROVE  FALSE
    BY DEF Quick, GapOK
  <2>0. j # 1
    BY <1>1, <1>2
  <2>1. j \in 2..(Len(pids) + 1) /\ j - 1 \in 1..Len(pids) /\ pids'[j] = pids[j - 1]
    BY <1>1, <1>2, <2>0
  <2>2. ~(last_pid < pids[j - 1] /\ pids[j - 1] < next_safe)
    BY <2>1 DEF PidInv, GapOK, Quick
  <2>3. pids[j - 1] \in Int /\ last_pid \in Int
    BY <2>1, Elements
  <2> QED BY <2>1, <2>2, <2>3
<1> QED BY <1>4, <1>5, <1>6 DEF PidInv, ScanOK, PassedOver, Quick

LEMMA BeginStep == PidInv /\ Begin => PidInv'
BY PidAssumption DEF PidInv, Begin, Stepped, PidTypeOK, Unique, GapOK, ScanOK,
   PassedOver, Between

LEMMA InUseStep == PidInv /\ InUse => PidInv'
<1> SUFFICES ASSUME PidInv, InUse PROVE PidInv'
  OBVIOUS
<1>1. PidTypeOK' /\ Unique' /\ GapOK'
  BY SMTT(30), PidAssumption DEF PidInv, InUse, PidTypeOK, Unique, GapOK, ScanOK
<1>2. ScanOK'
  <2>1. CASE last_pid + 1 >= next_safe
    BY <2>1, Elements, PidAssumption DEF PidInv, InUse, PidTypeOK, ScanOK
  <2>2. CASE last_pid + 1 < next_safe
    <3>1. /\ last_pid' = last_pid + 1 /\ at' = at + 1 /\ next_safe' = next_safe
          /\ pids' = pids /\ pids[at] = last_pid /\ at \in 1..Len(pids)
      BY <2>2, Elements DEF InUse
    <3>2. ASSUME NEW j \in 1..Len(pids), j < at'
          PROVE  pids[j] # last_pid' /\ ~(last_pid' < pids[j] /\ pids[j] < next_safe)
      BY SMTT(30), <2>2, <3>1, <3>2, Elements DEF PidInv, ScanOK
    <3>3. last_pid' < MAX_PID /\ Len(pids) < MAX_PROCESS
      BY <2>2, <3>1, Elements DEF PidInv, ScanOK, PidTypeOK
    <3> QED BY <3>1, <3>2, <3>3 DEF ScanOK
  <2> QED BY <2>1, <2>2, Elements
<1>3. last_pid \in UsedPids /\ UsedPids' = UsedPids
  BY DEF InUse, UsedPids
<1>4. PassedOver'
  BY <1>3, PidAssumption DEF PidInv, InUse, PidTypeOK, ScanOK, PassedOver, Between
<1> QED BY <1>1, <1>2, <1>4 DEF PidInv

LEMMA OtherStep == PidInv /\ Other => PidInv'
<1> SUFFICES ASSUME PidInv, Other PROVE PidInv'
  OBVIOUS
<1>1. pids[at] \in 1..(MAX_PID - 1) /\ UsedPids' = UsedPids
  BY Elements DEF Other, UsedPids
<1>2. PidTypeOK' /\ Unique' /\ GapOK' /\ ScanOK'
  BY <1>1, PidAssumption DEF PidInv, Other, PidTypeOK, Unique, GapOK, ScanOK
<1>3. PassedOver'
  BY <1>1 DEF PidInv, Other, PidTypeOK, PassedOver
<1> QED BY <1>2, <1>3 DEF PidInv

LEMMA ReturnStep == PidInv /\ Return => PidInv'
<1> SUFFICES ASSUME PidInv, Return PROVE PidInv'
  OBVIOUS
<1>1. /\ last_pid \in 1..(MAX_PID - 1) /\ pids \in Seq(1..(MAX_PID - 1))
      /\ pids' = <<last_pid>> \o pids /\ Len(pids) \in Nat /\ at = Len(pids) + 1
  BY PidAssumption DEF PidInv, PidTypeOK, ScanOK, Return, Hand
<1>2. /\ pids' \in Seq(1..(MAX_PID - 1)) /\ Len(pids') = Len(pids) + 1
      /\ pids'[1] = last_pid
      /\ \A k \in 2..(Len(pids) + 1) : pids'[k] = pids[k - 1]
  BY <1>1, HandFacts
<1>3. \A k \in 1..Len(pids) : /\ pids[k] # last_pid
                              /\ ~(last_pid < pids[k] /\ pids[k] < next_safe)
  BY <1>1 DEF PidInv, ScanOK
<1>4. PidTypeOK'
  BY <1>1, <1>2, PidAssumption DEF PidInv, PidTypeOK, ScanOK, Return
<1>5. Unique' /\ GapOK'
  BY SMTT(30), <1>1, <1>2, <1>3 DEF PidInv, Unique, GapOK, Return, PidTypeOK
<1> QED BY <1>4, <1>5 DEF PidInv, ScanOK, PassedOver, Return

LEMMA ReapStep ==
  ASSUME PidInv, NEW k \in 1..Len(pids), Reap(k)
  PROVE  PidInv'
<1>1. pids \in Seq(1..(MAX_PID - 1)) /\ Len(pids) \in Nat
  BY DEF PidInv, PidTypeOK
<1>2. /\ pids' \in Seq(1..(MAX_PID - 1)) /\ Len(pids') = Len(pids) - 1
      /\ \A j \in 1..(Len(pids) - 1) :
           pids'[j] = IF j < k THEN pids[j] ELSE pids[j + 1]
  BY <1>1, DropFacts DEF Reap
<1>3. PidTypeOK'
  <2>1. Len(pids') \in Nat /\ Len(pids') <= MAX_PROCESS
    BY <1>1, <1>2, PidAssumption DEF PidInv, PidTypeOK
  <2>2. at' = 0 /\ last_pid' = last_pid /\ next_safe' = next_safe /\ from' = from
    BY DEF Reap
  <2> QED BY <1>2, <2>1, <2>2 DEF PidInv, PidTypeOK
<1>4. Unique'
  <2> SUFFICES ASSUME NEW i \in 1..Len(pids'), NEW j \in 1..Len(pids'),
                      pids'[i] = pids'[j]
               PROVE  i = j
    BY DEF Unique
  <2> DEFINE old(x) == IF x < k THEN x ELSE x + 1
  <2>1. /\ old(i) \in 1..Len(pids) /\ old(j) \in 1..Len(pids)
        /\ pids'[i] = pids[old(i)] /\ pids'[j] = pids[old(j)]
    BY SMTT(30), <1>1, <1>2
  <2>2. old(i) = old(j)
    BY <2>1 DEF PidInv, Unique
  <2> QED BY <2>2
<1>5. GapOK'
  <2> SUFFICES ASSUME NEW j \in 1..Len(pids'), last_pid < pids'[j],
                      pids'[j] < next_safe
               PROVE  FALSE
    BY DEF Reap, GapOK
  <2>1. PICK i \in 1..Len(pids) : pids'[j] = pids[i]
    BY <1>1, <1>2
  <2> QED BY <2>1 DEF PidInv, GapOK, Reap
<1> QED BY <1>3, <1>4, <1>5 DEF PidInv, ScanOK, PassedOver, Reap

LEMMA PidStepOK == PidInv /\ [PidNext]_pidVars => PidInv'
<1> SUFFICES ASSUME PidInv, [PidNext]_pidVars PROVE PidInv'
  OBVIOUS
<1>1. CASE UNCHANGED pidVars
  BY <1>1 DEF pidVars, PidInv, PidTypeOK, Unique, GapOK, ScanOK, PassedOver, UsedPids
<1> QED BY <1>1, QuickStep, BeginStep, InUseStep, OtherStep, ReturnStep, ReapStep
        DEF PidNext, Scan

LEMMA PidInductive == PidSpec => []PidInv
BY PidInitOK, PidStepOK, PTL DEF PidSpec

-----------------------------------------------------------------------------
\* Pids stay between 1 and MAX_PID - 1 (get_pid, proc.c).
THEOREM PidTypeCorrect == PidSpec => []PidTypeOK
<1>1. PidInv => PidTypeOK
  BY DEF PidInv
<1> QED BY <1>1, PidInductive, PTL

\* get_pid: no two processes of proc_list ever have the same pid.
THEOREM UniqueCorrect == PidSpec => []Unique
<1>1. PidInv => Unique
  BY DEF PidInv
<1> QED BY <1>1, PidInductive, PTL

\* get_pid may skip its scan: what lies between last_pid and next_safe is
\* free, however many processes were forked and reaped since it was computed.
THEOREM GapCorrect == PidSpec => []GapOK
<1>1. PidInv => GapOK
  BY DEF PidInv
<1> QED BY <1>1, PidInductive, PTL

\* get_pid passes over a pid, wrapping around included, only if it is in use.
THEOREM PassedOverCorrect == PidSpec => []PassedOver
<1>1. PidInv => PassedOver
  BY DEF PidInv
<1> QED BY <1>1, PidInductive, PTL

\* get_pid skips only pids that are in use and relies on a gap only where
\* there is one, for every MAX_PID and every sequence of forks and reaps.
THEOREM SearchCorrect == PidSpec => []SearchOK
<1>1. PidInv => SearchOK
  BY DEF PidInv, SearchOK
<1> QED BY <1>1, PidInductive, PTL

----------------------------------------------------------------------------
(* Strides (Strides, StrideSpec) *)

\* Passes within BIG_STRIDE of each other lie in the same lap of the counter or
\* in neighbouring ones.
LEMMA Laps ==
  ASSUME NEW x \in Nat, NEW y \in Nat, NEW i \in Nat, NEW j \in Nat,
         NEW r \in 0..(2 * HALF - 1), NEW s \in 0..(2 * HALF - 1),
         x = i * (2 * HALF) + r, y = j * (2 * HALF) + s, Near(x, y)
  PROVE  \/ i = j
         \/ i = j + 1 /\ r - s < 0
         \/ j = i + 1 /\ s - r < 0
<1> DEFINE M == 2 * HALF
<1>1. M \in Nat /\ BIG_STRIDE < M
  BY StrideAssumption
<1>2. x - y = (i - j) * M + (r - s)
  BY <1>1
<1>3. r - s < M /\ s - r < M
  BY <1>1
<1>4. x - y <= BIG_STRIDE /\ y - x <= BIG_STRIDE
  BY DEF Near
<1>5. CASE i - j >= 2
  <2>1. (i - j) * M >= 2 * M
    BY <1>1, <1>5
  <2> QED BY <2>1, <1>1, <1>2, <1>3, <1>4, StrideAssumption
<1>6. CASE j - i >= 2
  <2>1. (j - i) * M >= 2 * M
    BY <1>1, <1>6
  <2>2. y - x = (j - i) * M + (s - r)
    BY <1>1
  <2> QED BY <2>1, <2>2, <1>1, <1>3, <1>4, StrideAssumption
<1>7. CASE i = j + 1
  <2>1. x - y = M + (r - s)
    BY <1>1, <1>2, <1>7
  <2> QED BY <2>1, <1>1, <1>4, <1>7, StrideAssumption
<1>8. CASE j = i + 1
  <2>1. y - x = M + (s - r)
    BY <1>1, <1>8
  <2> QED BY <2>1, <1>1, <1>4, <1>8, StrideAssumption
<1> QED BY <1>5, <1>6, <1>7, <1>8

\* Quotient and remainder of a pass.
LEMMA DivMod ==
  ASSUME NEW x \in Nat, NEW M \in Nat, M > 0
  PROVE  /\ x \div M \in Nat
         /\ x % M \in 0..(M - 1)
         /\ x = (x \div M) * M + (x % M)
<1>1. x % M \in 0..(M - 1)
  OBVIOUS
<1>2. x = (x \div M) * M + (x % M)
  OBVIOUS
<1>3. x \div M \in Int
  OBVIOUS
<1>4. CASE x \div M < 0
  <2>1. (x \div M) * M <= -M
    BY <1>3, <1>4
  <2> QED BY <2>1, <1>1, <1>2
<1> QED BY <1>1, <1>2, <1>3, <1>4

\* Small remainders of differences.
LEMMA SmallMod ==
  ASSUME NEW d \in Int, -(2 * HALF) < d, d < 2 * HALF
  PROVE  d % (2 * HALF) = IF d >= 0 THEN d ELSE d + 2 * HALF
<1>1. 2 * HALF \in Nat /\ 2 * HALF > 0
  BY StrideAssumption
<1> QED BY <1>1

\* proc_stride_comp_f orders two processes by their passes as long as those are
\* within BIG_STRIDE of each other: the wrapped difference is the true one.
THEOREM DiffIsTrue ==
  ASSUME NEW x \in Nat, NEW y \in Nat, Near(x, y)
  PROVE  Diff(x, y) = x - y
<1> DEFINE M == 2 * HALF
           r == x % M
           s == y % M
           i == x \div M
           j == y \div M
<1>1. M \in Nat /\ M > 0
  BY StrideAssumption
<1>2. /\ i \in Nat /\ r \in 0..(M - 1) /\ x = i * M + r
      /\ j \in Nat /\ s \in 0..(M - 1) /\ y = j * M + s
  BY <1>1, DivMod
<1>3. \/ i = j
      \/ i = j + 1 /\ r - s < 0
      \/ j = i + 1 /\ s - r < 0
  BY <1>2, Laps
<1>4. /\ i = j => x - y = r - s
      /\ i = j + 1 => x - y = r - s + M
      /\ j = i + 1 => x - y = r - s - M
  <2> HIDE DEF M, i, j, r, s
  <2>1. ASSUME i = j PROVE x - y = r - s
    BY <2>1, <1>1, <1>2
  <2>2. ASSUME i = j + 1 PROVE x - y = r - s + M
    <3>1. i * M = j * M + M
      BY <2>2, <1>1, <1>2
    <3> QED BY <3>1, <1>1, <1>2
  <2>3. ASSUME j = i + 1 PROVE x - y = r - s - M
    <3>1. j * M = i * M + M
      BY <2>3, <1>1, <1>2
    <3> QED BY <3>1, <1>1, <1>2
  <2> QED BY <2>1, <2>2, <2>3
<1>5. (r - s) % M = IF r - s >= 0 THEN r - s ELSE r - s + M
  <2>1. r - s \in Int /\ -M < r - s /\ r - s < M
    <3> HIDE DEF M, i, j, r, s
    <3> QED BY <1>1, <1>2
  <2> QED BY <2>1, SmallMod
<1>6. x - y <= BIG_STRIDE /\ y - x <= BIG_STRIDE
  BY DEF Near
<1>7. Diff(x, y) = LET d == (r - s) % M IN IF d < HALF THEN d ELSE d - M
  BY DEF Diff
<1> HIDE DEF M, i, j, r, s
<1>8. M = 2 * HALF
  BY DEF M
<1> QED BY <1>1, <1>2, <1>3, <1>4, <1>5, <1>6, <1>7, <1>8, StrideAssumption

----------------------------------------------------------------------------
(* The skew heap *)

\* A set of numbers that is not empty has a least one.
LEMMA LeastNat ==
  ASSUME NEW T \in SUBSET Nat, T # {}
  PROVE  \E n \in T : \A m \in T : n <= m
<1>1. IsWellFoundedOn(OpToRel(<, Nat), Nat)
  BY NatLessThanWellFounded
<1>2. PICK n \in T : \A m \in T : ~(<<m, n>> \in OpToRel(<, Nat))
  BY <1>1, WFMin
<1>3. ASSUME NEW m \in T, m < n PROVE FALSE
  <2>1. <<m, n>> \in OpToRel(<, Nat)
    BY <1>3 DEF OpToRel
  <2> QED BY <1>2, <2>1
<1>4. \A m \in T : n <= m
  BY <1>3, n \in Nat
<1> QED BY <1>4

\* Induction, over a set of numbers.
LEMMA SetInduction ==
  ASSUME NEW T \in SUBSET Nat, 0 \in T, \A n \in T : n + 1 \in T
  PROVE  T = Nat
<1>1. SUFFICES ASSUME Nat \ T # {} PROVE FALSE
  OBVIOUS
<1>2. PICK n \in Nat \ T : \A m \in Nat \ T : n <= m
  BY <1>1, LeastNat
<1>3. n # 0 /\ n - 1 \in Nat /\ n - 1 \in T
  BY <1>2
<1> QED BY <1>3, <1>2

\* s gives the processes of the subtree at each node, for the nodes of X.
Subtrees(h, s, X) ==
  /\ s \in [Nodes -> SUBSET Procs] /\ s[NULL] = {}
  /\ \A p \in X :
       /\ h.left[p] \in X \cup {NULL} /\ h.right[p] \in X \cup {NULL}
       /\ s[p] = {p} \cup s[h.left[p]] \cup s[h.right[p]]
       /\ p \notin s[h.left[p]] /\ p \notin s[h.right[p]]
       /\ s[h.left[p]] \cap s[h.right[p]] = {}
       /\ s[p] \subseteq X /\ \A q \in s[p] : s[q] \subseteq s[p]

Size(s, a, b) == Cardinality(s[a]) + Cardinality(s[b])

LEMMA Zero == NULL \notin Procs /\ IsFiniteSet(Procs)
BY SchedAssumption DEF NULL

LEMMA SizeNat ==
  ASSUME NEW h, NEW s, Subtrees(h, s, Procs), NEW a \in Nodes
  PROVE  IsFiniteSet(s[a]) /\ Cardinality(s[a]) \in Nat
         /\ Cardinality(s[a]) <= Cardinality(Procs) /\ Cardinality(Procs) \in Nat
<1>1. s[a] \subseteq Procs
  BY DEF Subtrees
<1> QED BY <1>1, Zero, FS_Subset, FS_CardinalityType

\* What skew_heap_merge goes on with is smaller than what it was given.
LEMMA Smaller ==
  ASSUME NEW h, NEW s, Subtrees(h, s, Procs), NEW a \in Procs, NEW c \in {h.left[a], h.right[a]}
  PROVE  c \in Nodes /\ Cardinality(s[c]) < Cardinality(s[a])
<1>1. c \in Nodes /\ a \in Nodes /\ s[c] \subseteq s[a] /\ a \in s[a] /\ a \notin s[c]
  BY DEF Subtrees, Nodes
<1>2. Cardinality(s[c]) <= Cardinality(s[a]) /\ Cardinality(s[c]) # Cardinality(s[a])
  BY <1>1, SizeNat, FS_Subset
<1> QED BY <1>1, <1>2, SizeNat

\* F and G answer the smaller calls alike.
Agree(s, F, G, n) ==
  \A c, d \in Nodes : Size(s, c, d) < n => F[<<c, d>>] = G[<<c, d>>]

LEMMA CallLocal ==
  ASSUME NEW h, NEW s, Subtrees(h, s, Procs), NEW F, NEW G,
         NEW a \in Nodes, NEW b \in Nodes, Agree(s, F, G, Size(s, a, b))
  PROVE  MergeCall(h, F, a, b) = MergeCall(h, G, a, b)
<1>1. CASE a = NULL \/ b = NULL
  BY <1>1 DEF MergeCall
<1>2. CASE a # NULL /\ b # NULL
  <2>1. a \in Procs /\ b \in Procs
    BY <1>2 DEF Nodes
  <2>2. h.right[a] \in Nodes /\ Cardinality(s[h.right[a]]) < Cardinality(s[a])
    BY <2>1, Smaller
  <2>3. h.right[b] \in Nodes /\ Cardinality(s[h.right[b]]) < Cardinality(s[b])
    BY <2>1, Smaller
  <2>4. Size(s, h.right[a], b) < Size(s, a, b) /\ Size(s, a, h.right[b]) < Size(s, a, b)
    BY <2>2, <2>3, SizeNat DEF Size
  <2>5. F[<<h.right[a], b>>] = G[<<h.right[a], b>>] /\ F[<<a, h.right[b]>>] = G[<<a, h.right[b]>>]
    BY <2>2, <2>3, <2>4 DEF Agree
  <2>6. ASSUME NEW P
        PROVE  MergeCall(h, P, a, b) =
                 IF Less(a, b)
                 THEN Linked(P[<<h.right[a], b>>], a, P[<<h.right[a], b>>].root, h.left[a])
                 ELSE Linked(P[<<a, h.right[b]>>], b, P[<<a, h.right[b]>>].root, h.left[b])
    BY <1>2, Zenon DEF MergeCall
  <2> DEFINE l == F[<<h.right[a], b>>]
             r == F[<<a, h.right[b]>>]
  <2>7. /\ MergeCall(h, F, a, b) = IF Less(a, b) THEN Linked(l, a, l.root, h.left[a])
                                   ELSE Linked(r, b, r.root, h.left[b])
        /\ MergeCall(h, G, a, b) = IF Less(a, b) THEN Linked(l, a, l.root, h.left[a])
                                   ELSE Linked(r, b, r.root, h.left[b])
    BY <2>5, <2>6
  <2> QED BY <2>7
<1> QED BY <1>1, <1>2

Pairs == Nodes \X Nodes

\* The merge of trees is defined: the recursion of skew_heap_merge ends.
LEMMA MergeDefined ==
  ASSUME NEW h, NEW s, Subtrees(h, s, Procs)
  PROVE  \E M : /\ M = [x \in Pairs |-> MergeCall(h, M, x[1], x[2])]
                /\ \A a, b \in Nodes : Merge(h, a, b) = M[<<a, b>>]
<1> DEFINE T == {n \in Nat : \E F : /\ F = [x \in Pairs |-> F[x]]
                                    /\ \A a, b \in Nodes : Size(s, a, b) < n =>
                                         F[<<a, b>>] = MergeCall(h, F, a, b)}
<1>0. \A a, b \in Nodes : Size(s, a, b) \in Nat
  BY SizeNat DEF Size
<1>1. 0 \in T
  <2> DEFINE F == [x \in Pairs |-> h]
  <2>1. F = [x \in Pairs |-> F[x]]
    OBVIOUS
  <2>2. \A a, b \in Nodes : ~(Size(s, a, b) < 0)
    BY <1>0
  <2> HIDE DEF F
  <2> QED BY <2>1, <2>2
<1>2. ASSUME NEW n \in T PROVE n + 1 \in T
  <2>1. PICK F : /\ F = [x \in Pairs |-> F[x]]
                 /\ \A a, b \in Nodes : Size(s, a, b) < n =>
                       F[<<a, b>>] = MergeCall(h, F, a, b)
    OBVIOUS
  <2>2. PICK G : /\ G = [x \in Pairs |-> G[x]]
                 /\ \A a, b \in Nodes : G[<<a, b>>] = IF Size(s, a, b) < n THEN F[<<a, b>>]
                                                      ELSE MergeCall(h, F, a, b)
    <3> DEFINE H == [x \in Pairs |-> IF Size(s, x[1], x[2]) < n THEN F[x]
                                     ELSE MergeCall(h, F, x[1], x[2])]
    <3>1. H = [x \in Pairs |-> H[x]]
      OBVIOUS
    <3>2. \A a, b \in Nodes : H[<<a, b>>] = IF Size(s, a, b) < n THEN F[<<a, b>>]
                                            ELSE MergeCall(h, F, a, b)
      BY DEF Pairs
    <3> HIDE DEF H
    <3> QED BY <3>1, <3>2
  <2>4. ASSUME NEW a \in Nodes, NEW b \in Nodes, Size(s, a, b) < n + 1
        PROVE  G[<<a, b>>] = MergeCall(h, G, a, b)
    <3>1. Agree(s, F, G, Size(s, a, b))
      BY <1>0, <2>2, <2>4 DEF Agree
    <3>2. MergeCall(h, F, a, b) = MergeCall(h, G, a, b)
      BY <3>1, CallLocal
    <3> QED BY <3>2, <2>1, <2>2, <2>4, <1>0
  <2> QED BY <2>2, <2>4
<1>3. T = Nat
  <2> HIDE DEF T
  <2>1. T \subseteq Nat
    BY DEF T
  <2> QED BY <1>1, <1>2, <2>1, SetInduction
<1>4. Cardinality(Procs) \in Nat
  BY Zero, FS_CardinalityType
<1>5. 2 * Cardinality(Procs) + 1 \in T
  BY <1>3, <1>4
<1>6. PICK F : /\ F = [x \in Pairs |-> F[x]]
               /\ \A a, b \in Nodes : Size(s, a, b) < 2 * Cardinality(Procs) + 1 =>
                     F[<<a, b>>] = MergeCall(h, F, a, b)
  BY <1>5
<1>7. \A a, b \in Nodes : Size(s, a, b) < 2 * Cardinality(Procs) + 1
  BY SizeNat DEF Size
<1>8. \A x \in Pairs : F[x] = MergeCall(h, F, x[1], x[2])
  BY <1>6, <1>7 DEF Pairs
<1>9. F = [x \in Pairs |-> MergeCall(h, F, x[1], x[2])]
  BY <1>6, <1>8, Zenon
<1> DEFINE C == CHOOSE M : M = [x \in Pairs |-> MergeCall(h, M, x[1], x[2])]
<1>10. C = [x \in Pairs |-> MergeCall(h, C, x[1], x[2])]
  BY <1>9, Zenon
<1>11. \A a, b \in Nodes : Merge(h, a, b) = C[<<a, b>>]
  BY Zenon DEF Merge, Pairs
<1> QED BY <1>10, <1>11, Zenon

----------------------------------------------------------------------------
(* What skew_heap_merge makes of two trees *)

Queues == [run_list : Seq(Procs), proc_num : Int, in : SUBSET Procs, root : Nodes,
           left : [Procs -> Nodes], right : [Procs -> Nodes], parent : [Procs -> Nodes]]

\* Parent links match the children of X.
Kids(h, X) == \A p \in X : \A c \in {h.left[p], h.right[p]} \ {NULL} : h.parent[c] = p

Sorted(s, X) == \A p \in X : \A q \in s[p] : NotAfter(p, q)

\* On X the comparison that the heap uses is the one it is for, and an order.
Total(X) ==
  \A p, q \in X :
    /\ NotAfter(p, p)
    /\ Less(p, q) => NotAfter(p, q)
    /\ ~Less(p, q) => NotAfter(q, p)
    /\ \A r \in X : NotAfter(p, q) /\ NotAfter(q, r) => NotAfter(p, r)

\* m is a tree of X, and outside X it is as h was.
Merged(h, s, X, m) ==
  /\ m \in Queues /\ m.run_list = h.run_list /\ m.proc_num = h.proc_num /\ m.in = h.in
  /\ \A p \in Procs \ X : m.left[p] = h.left[p] /\ m.right[p] = h.right[p]
                          /\ m.parent[p] = h.parent[p]
  /\ m.root # NULL => m.root \in X /\ m.parent[m.root] = h.parent[m.root]
  /\ m.root = NULL => X = {}
  /\ Kids(m, X)
  /\ \E t : /\ Subtrees(m, t, X) /\ t[m.root] = X
            /\ Total(X) /\ Sorted(s, X) => Sorted(t, X)

LinkedTo(h, a, l, r, k) ==
  /\ k \in Queues /\ k.run_list = h.run_list /\ k.proc_num = h.proc_num
  /\ k.in = h.in /\ k.root = a
  /\ \A p \in Procs : /\ k.left[p] = IF p = a THEN l ELSE h.left[p]
                      /\ k.right[p] = IF p = a THEN r ELSE h.right[p]
                      /\ k.parent[p] = IF p = l THEN a ELSE h.parent[p]

LEMMA LinkedIs ==
  ASSUME NEW h \in Queues, NEW a \in Procs, NEW l \in Procs, NEW r \in Nodes
  PROVE  LinkedTo(h, a, l, r, Linked(h, a, l, r))
<1> DEFINE k == Linked(h, a, l, r)
<1>1. l # NULL
  BY Zero
<1>2. Linked(h, a, l, r) =
        [h EXCEPT !.left = [h.left EXCEPT ![a] = l], !.right = [h.right EXCEPT ![a] = r],
                  !.root = a, !.parent = [h.parent EXCEPT ![l] = a]]
  BY <1>1 DEF Linked, Queues
<1>3. a \in Nodes /\ l \in Nodes
  BY DEF Nodes
<1> DEFINE ll == [h.left EXCEPT ![a] = l]
           rr == [h.right EXCEPT ![a] = r]
           pp == [h.parent EXCEPT ![l] = a]
<1>4. ll \in [Procs -> Nodes] /\ rr \in [Procs -> Nodes] /\ pp \in [Procs -> Nodes]
  BY <1>3 DEF Queues
<1>5. /\ \A p \in Procs : ll[p] = IF p = a THEN l ELSE h.left[p]
      /\ \A p \in Procs : rr[p] = IF p = a THEN r ELSE h.right[p]
      /\ \A p \in Procs : pp[p] = IF p = l THEN a ELSE h.parent[p]
  BY DEF Queues
<1> HIDE DEF ll, rr, pp
<1>6. /\ k \in Queues /\ k.run_list = h.run_list /\ k.proc_num = h.proc_num
      /\ k.in = h.in /\ k.root = a /\ k.left = ll /\ k.right = rr /\ k.parent = pp
  <2>1. k = [h EXCEPT !.left = ll, !.right = rr, !.root = a, !.parent = pp]
    BY <1>2 DEF ll, rr, pp
  <2> QED BY <2>1, <1>3, <1>4 DEF Queues
<1> QED BY <1>5, <1>6 DEF LinkedTo

\* The tree of one side alone.
LEMMA MergedOne ==
  ASSUME NEW h \in Queues, NEW s, Subtrees(h, s, Procs), NEW a \in Nodes, Kids(h, s[a])
  PROVE  Merged(h, s, s[a], [h EXCEPT !.root = a])
<1> DEFINE m == [h EXCEPT !.root = a]
<1>1. /\ m \in Queues /\ m.run_list = h.run_list /\ m.proc_num = h.proc_num
      /\ m.in = h.in /\ m.root = a
      /\ m.left = h.left /\ m.right = h.right /\ m.parent = h.parent
  BY DEF Queues
<1> HIDE DEF m
<1>2. a = NULL => s[a] = {}
  BY DEF Subtrees
<1>3. a # NULL => a \in Procs /\ a \in s[a]
  BY DEF Subtrees, Nodes
<1>4. s[a] \subseteq Procs /\ \A q \in s[a] : s[q] \subseteq s[a]
  BY <1>2, <1>3 DEF Subtrees
<1>5. Subtrees(m, s, s[a])
  <2> SUFFICES ASSUME NEW p \in s[a]
               PROVE  m.left[p] \in s[a] \cup {NULL} /\ m.right[p] \in s[a] \cup {NULL}
    BY <1>1, <1>4 DEF Subtrees
  <2>1. p \in Procs /\ s[p] \subseteq s[a]
    BY <1>4
  <2>2. \A c \in {h.left[p], h.right[p]} \ {NULL} : c \in Procs /\ c \in s[c] /\ s[c] \subseteq s[p]
    BY <2>1 DEF Subtrees
  <2> QED BY <1>1, <2>1, <2>2
<1>6. Kids(m, s[a])
  BY <1>1 DEF Kids
<1>7. Merged(h, s, s[a], m)
  BY <1>1, <1>2, <1>3, <1>5, <1>6 DEF Merged
<1> QED BY <1>7 DEF m

\* The children of a node lie in its subtree.
LEMMA Nested ==
  ASSUME NEW h, NEW s, NEW X \in SUBSET Procs, Subtrees(h, s, X), NEW p \in X
  PROVE  /\ p \in s[p] /\ s[p] \subseteq X
         /\ \A q \in s[p] : q \in X /\ q \in s[q] /\ s[q] \subseteq s[p]
         /\ \A c \in {h.left[p], h.right[p]} \ {NULL} :
              c \in X /\ c \in s[c] /\ c \in s[p] /\ c # p /\ s[c] \subseteq s[p] /\ p \notin s[c]
BY DEF Subtrees

\* u keeps its left child as the right one, and gets the merge of the rest, m0.
LEMMA MergedTwo ==
  ASSUME NEW h \in Queues, NEW s, Subtrees(h, s, Procs), NEW u \in Procs, NEW v \in Procs,
         s[u] \cap s[v] = {}, Kids(h, s[u] \cup s[v]),
         NEW m0, Merged(h, s, s[h.right[u]] \cup s[v], m0),
         Total(s[u] \cup s[v]) => NotAfter(u, v)
  PROVE  Merged(h, s, s[u] \cup s[v], Linked(m0, u, m0.root, h.left[u]))
<1> DEFINE X == s[u] \cup s[v]
           K == s[h.left[u]]
           R == s[h.right[u]] \cup s[v]
           m == Linked(m0, u, m0.root, h.left[u])
           r == m0.root
<1>1. /\ u \in s[u] /\ v \in s[v] /\ s[u] = {u} \cup K \cup s[h.right[u]]
      /\ u \notin K /\ u \notin R /\ K \cap R = {} /\ X = {u} \cup K \cup R
      /\ X \subseteq Procs /\ NULL \notin X
      /\ h.left[u] \in Nodes /\ (h.left[u] # NULL => h.left[u] \in K)
  <2>1. u \in s[u] /\ v \in s[v] /\ s[u] \subseteq Procs /\ s[v] \subseteq Procs
    BY Nested
  <2>2. s[u] = {u} \cup K \cup s[h.right[u]] /\ u \notin K /\ u \notin s[h.right[u]]
        /\ K \cap s[h.right[u]] = {}
    BY DEF Subtrees
  <2>3. h.left[u] \in Nodes /\ (h.left[u] # NULL => h.left[u] \in K)
    BY Nested DEF Queues
  <2> QED BY <2>1, <2>2, <2>3, Zero
<1>2. \A p \in K : s[p] \subseteq K /\ p \in s[p]
  <2>1. CASE h.left[u] = NULL
    BY <2>1 DEF Subtrees
  <2>2. CASE h.left[u] # NULL
    <3>1. h.left[u] \in Procs
      BY <2>2, Nested
    <3> QED BY <3>1, Nested
  <2> QED BY <2>1, <2>2
<1>3. /\ m0 \in Queues /\ m0.run_list = h.run_list /\ m0.proc_num = h.proc_num /\ m0.in = h.in
      /\ \A p \in Procs \ R : m0.left[p] = h.left[p] /\ m0.right[p] = h.right[p]
                              /\ m0.parent[p] = h.parent[p]
      /\ r # NULL /\ r \in R /\ r \in Procs /\ m0.parent[r] = h.parent[r]
      /\ Kids(m0, R)
  BY <1>1 DEF Merged
<1>4. PICK t0 : /\ Subtrees(m0, t0, R) /\ t0[r] = R
                /\ Total(R) /\ Sorted(s, R) => Sorted(t0, R)
  BY DEF Merged
<1>5. /\ m \in Queues /\ m.run_list = h.run_list /\ m.proc_num = h.proc_num
      /\ m.in = h.in /\ m.root = u
      /\ \A p \in Procs : /\ m.left[p] = IF p = u THEN r ELSE m0.left[p]
                          /\ m.right[p] = IF p = u THEN h.left[u] ELSE m0.right[p]
                          /\ m.parent[p] = IF p = r THEN u ELSE m0.parent[p]
  <2>1. h.left[u] \in Nodes /\ m0 \in Queues /\ r \in Procs
    BY <1>1, <1>3
  <2>2. m = Linked(m0, u, r, h.left[u])
    OBVIOUS
  <2> HIDE DEF m, r
  <2>3. LinkedTo(m0, u, r, h.left[u], m)
    BY <2>1, <2>2, LinkedIs
  <2> QED BY <2>3, <1>3 DEF LinkedTo
<1> HIDE DEF X, K, R, m, r
<1>6. \A p \in Procs \ X : m.left[p] = h.left[p] /\ m.right[p] = h.right[p]
                           /\ m.parent[p] = h.parent[p]
  BY <1>1, <1>3, <1>5
<1>7. m.root \in X /\ m.parent[m.root] = h.parent[m.root]
  BY <1>1, <1>3, <1>5
<1>8. R \in SUBSET Procs /\ X \in SUBSET Procs /\ K \in SUBSET Procs
  BY <1>1
<1> DEFINE t == [x \in Nodes |-> IF x = u THEN X ELSE IF x \in R THEN t0[x] ELSE s[x]]
<1>9. t \in [Nodes -> SUBSET Procs] /\ t[NULL] = {}
      /\ \A x \in Procs : t[x] = IF x = u THEN X ELSE IF x \in R THEN t0[x] ELSE s[x]
  <2>1. \A x \in Nodes : t[x] = IF x = u THEN X ELSE IF x \in R THEN t0[x] ELSE s[x]
    OBVIOUS
  <2>2. /\ t0 \in [Nodes -> SUBSET Procs] /\ s \in [Nodes -> SUBSET Procs] /\ s[NULL] = {}
        /\ NULL \in Nodes /\ NULL # u /\ NULL \notin R /\ Procs \subseteq Nodes
    BY <1>1, <1>4, <1>8, Zero DEF Subtrees, Nodes
  <2>3. t \in [Nodes -> SUBSET Procs]
    BY <1>8, <2>2
  <2> HIDE DEF t
  <2> QED BY <2>1, <2>2, <2>3
<1> HIDE DEF t
\* The three kinds of nodes: below m0, in the part that stays, and u.
<1>10. ASSUME NEW p \in R
       PROVE  /\ m.left[p] = m0.left[p] /\ m.right[p] = m0.right[p] /\ p # u
              /\ \A c \in {m0.left[p], m0.right[p]} \ {NULL} :
                   c \in R /\ c # r /\ t[c] = t0[c] /\ m.parent[c] = p
              /\ t[p] = t0[p]
  <2>1. p # u /\ p \in Procs /\ m.left[p] = m0.left[p] /\ m.right[p] = m0.right[p]
    BY <1>1, <1>5, <1>8
  <2>2. ASSUME NEW c \in {m0.left[p], m0.right[p]} \ {NULL}
        PROVE  c \in R /\ c # r /\ t[c] = t0[c] /\ m.parent[c] = p
    <3>1. c \in R /\ p \notin t0[c]
      BY <1>4, <1>8, <2>2, Nested
    <3>2. c # r
      BY <3>1, <1>4
    <3>3. c \in Procs /\ c # u /\ m.parent[c] = m0.parent[c]
      BY <1>1, <1>5, <1>8, <3>1, <3>2
    <3> QED BY <1>3, <1>9, <3>1, <3>2, <3>3 DEF Kids
  <2> QED BY <2>1, <2>2, <1>9
<1>11. ASSUME NEW p \in K
       PROVE  /\ m.left[p] = h.left[p] /\ m.right[p] = h.right[p] /\ p # u /\ p \in Procs
              /\ \A c \in {h.left[p], h.right[p]} \ {NULL} :
                   c \in K /\ t[c] = s[c] /\ m.parent[c] = p
              /\ t[p] = s[p]
  <2>1. p # u /\ p \in Procs /\ p \notin R /\ m.left[p] = h.left[p] /\ m.right[p] = h.right[p]
    BY <1>1, <1>3, <1>5, <1>8
  <2>2. ASSUME NEW c \in {h.left[p], h.right[p]} \ {NULL}
        PROVE  c \in K /\ t[c] = s[c] /\ m.parent[c] = p
    <3>1. c \in s[p]
      BY <2>1, <2>2, Nested
    <3>2. c \in K /\ c \in Procs /\ c # u /\ c \notin R
      BY <1>1, <1>2, <1>8, <3>1
    <3>3. m.parent[c] = h.parent[c]
      BY <1>3, <1>5, <3>2
    <3>4. h.parent[c] = p
      BY <1>1, <2>2 DEF Kids, X, K
    <3> QED BY <1>9, <3>2, <3>3, <3>4
  <2> QED BY <2>1, <2>2, <1>9
<1>12. /\ m.left[u] = r /\ m.right[u] = h.left[u]
       /\ t[r] = R /\ t[h.left[u]] = K /\ t[u] = X /\ m.parent[r] = u
       /\ h.left[u] # NULL => m.parent[h.left[u]] = u
  <2>1. t[r] = R /\ t[u] = X
    BY <1>1, <1>3, <1>4, <1>9
  <2>2. t[h.left[u]] = K
    <3>1. CASE h.left[u] = NULL
      BY <3>1, <1>9 DEF K, Subtrees
    <3>2. CASE h.left[u] # NULL
      BY <3>2, <1>1, <1>8, <1>9 DEF K
    <3> QED BY <3>1, <3>2
  <2>3. ASSUME h.left[u] # NULL PROVE m.parent[h.left[u]] = u
    <3>1. h.left[u] \in Procs /\ h.left[u] \notin R /\ h.left[u] # r
      BY <2>3, <1>1, <1>3, <1>8
    <3>2. h.parent[h.left[u]] = u
      BY <2>3, <1>1 DEF Kids
    <3> QED BY <1>3, <1>5, <3>1, <3>2
  <2> QED BY <2>1, <2>2, <2>3, <1>3, <1>5
<1>13. Kids(m, X)
  BY <1>1, <1>3, <1>10, <1>11, <1>12 DEF Kids
<1>14. Subtrees(m, t, X)
  <2>1. ASSUME NEW p \in R
        PROVE  /\ m.left[p] \in X \cup {NULL} /\ m.right[p] \in X \cup {NULL}
               /\ t[p] = {p} \cup t[m.left[p]] \cup t[m.right[p]]
               /\ p \notin t[m.left[p]] /\ p \notin t[m.right[p]]
               /\ t[m.left[p]] \cap t[m.right[p]] = {}
               /\ t[p] \subseteq X /\ \A q \in t[p] : t[q] \subseteq t[p]
    <3>1. /\ m0.left[p] \in R \cup {NULL} /\ m0.right[p] \in R \cup {NULL}
          /\ t0[p] = {p} \cup t0[m0.left[p]] \cup t0[m0.right[p]]
          /\ p \notin t0[m0.left[p]] /\ p \notin t0[m0.right[p]]
          /\ t0[m0.left[p]] \cap t0[m0.right[p]] = {}
          /\ t0[p] \subseteq R /\ (\A q \in t0[p] : t0[q] \subseteq t0[p]) /\ t0[NULL] = {}
      BY <1>4 DEF Subtrees
    <3>2. \A q \in t0[p] : t[q] = t0[q]
      BY <1>10, <3>1
    <3>3. t[m0.left[p]] = t0[m0.left[p]] /\ t[m0.right[p]] = t0[m0.right[p]]
      BY <1>9, <1>10, <3>1
    <3> QED BY <1>1, <1>10, <3>1, <3>2, <3>3
  <2>2. ASSUME NEW p \in K
        PROVE  /\ m.left[p] \in X \cup {NULL} /\ m.right[p] \in X \cup {NULL}
               /\ t[p] = {p} \cup t[m.left[p]] \cup t[m.right[p]]
               /\ p \notin t[m.left[p]] /\ p \notin t[m.right[p]]
               /\ t[m.left[p]] \cap t[m.right[p]] = {}
               /\ t[p] \subseteq X /\ \A q \in t[p] : t[q] \subseteq t[p]
    <3>1. /\ s[p] = {p} \cup s[h.left[p]] \cup s[h.right[p]]
          /\ p \notin s[h.left[p]] /\ p \notin s[h.right[p]]
          /\ s[h.left[p]] \cap s[h.right[p]] = {}
          /\ s[p] \subseteq K /\ (\A q \in s[p] : s[q] \subseteq s[p]) /\ s[NULL] = {}
      BY <1>2, <1>8 DEF Subtrees
    <3>2. \A q \in s[p] : t[q] = s[q]
      BY <1>11, <3>1
    <3>3. t[h.left[p]] = s[h.left[p]] /\ t[h.right[p]] = s[h.right[p]]
          /\ h.left[p] \in K \cup {NULL} /\ h.right[p] \in K \cup {NULL}
      BY <1>9, <1>11, <3>1
    <3> QED BY <1>1, <1>11, <3>1, <3>2, <3>3
  <2>3. /\ m.left[u] \in X \cup {NULL} /\ m.right[u] \in X \cup {NULL}
        /\ t[u] = {u} \cup t[m.left[u]] \cup t[m.right[u]]
        /\ u \notin t[m.left[u]] /\ u \notin t[m.right[u]]
        /\ t[m.left[u]] \cap t[m.right[u]] = {}
        /\ t[u] \subseteq X /\ \A q \in t[u] : t[q] \subseteq t[u]
    <3>1. \A q \in X : t[q] \subseteq X
      BY <1>1, <1>12, <2>1, <2>2
    <3> QED BY <1>1, <1>3, <1>12, <3>1
  <2> QED BY <1>1, <1>9, <2>1, <2>2, <2>3 DEF Subtrees
<1>15. ASSUME Total(X), Sorted(s, X) PROVE Sorted(t, X)
  <2>1. Sorted(t0, R)
    BY <1>1, <1>4, <1>15 DEF Total, Sorted
  <2>2. \A q \in X : NotAfter(u, q)
    <3>1. \A q \in s[u] : NotAfter(u, q)
      BY <1>1, <1>15 DEF Sorted
    <3>2. \A q \in s[v] : NotAfter(v, q)
      BY <1>15, <1>1 DEF Sorted, X
    <3>3. NotAfter(u, v) /\ v \in X /\ u \in X
      BY <1>15, <1>1 DEF X
    <3>4. \A q \in s[v] : NotAfter(u, q)
      BY <1>15, <3>2, <3>3 DEF Total, X
    <3> QED BY <3>1, <3>4 DEF X
  <2>3. \A p \in R : \A q \in t[p] : NotAfter(p, q)
    BY <1>10, <2>1 DEF Sorted
  <2>4. \A p \in K : \A q \in t[p] : NotAfter(p, q)
    BY <1>1, <1>11, <1>15 DEF Sorted
  <2> QED BY <1>1, <1>12, <2>2, <2>3, <2>4 DEF Sorted
<1>16. m.root # NULL /\ t[m.root] = X
  BY <1>5, <1>7, <1>1, <1>12
<1>17. Merged(h, s, X, m)
  BY <1>5, <1>6, <1>7, <1>13, <1>14, <1>15, <1>16 DEF Merged
<1> QED BY <1>17 DEF X, m, r

\* skew_heap_merge makes one tree of two, puts the first of all at the root when
\* the comparison is an order, and leaves all other nodes alone.
LEMMA MergeGood ==
  ASSUME NEW h \in Queues, NEW s, Subtrees(h, s, Procs), NEW a \in Nodes, NEW b \in Nodes,
         s[a] \cap s[b] = {}, Kids(h, s[a] \cup s[b])
  PROVE  Merged(h, s, s[a] \cup s[b], Merge(h, a, b)) /\ Merge(h, a, b).root \in {a, b}
<1> DEFINE Good(c, d) == s[c] \cap s[d] = {} /\ Kids(h, s[c] \cup s[d]) =>
                           /\ Merged(h, s, s[c] \cup s[d], Merge(h, c, d))
                           /\ Merge(h, c, d).root \in {c, d}
           T == {n \in Nat : \A c, d \in Nodes : Size(s, c, d) < n => Good(c, d)}
<1>0. /\ \A c \in Nodes : Cardinality(s[c]) \in Nat
      /\ \A c, d \in Nodes : Size(s, c, d) \in Nat
  BY SizeNat DEF Size
<1>1. 0 \in T
  BY <1>0
<1>2. ASSUME NEW n \in T PROVE n + 1 \in T
  <2> HIDE DEF Good
  <2>0. n \in Nat /\ \A x, y \in Nodes : Size(s, x, y) < n => Good(x, y)
    OBVIOUS
  <2> SUFFICES ASSUME NEW c \in Nodes, NEW d \in Nodes, Size(s, c, d) < n + 1
               PROVE  Good(c, d)
    BY <2>0
  <2> HIDE DEF T
  <2> SUFFICES ASSUME s[c] \cap s[d] = {}, Kids(h, s[c] \cup s[d])
               PROVE  /\ Merged(h, s, s[c] \cup s[d], Merge(h, c, d))
                      /\ Merge(h, c, d).root \in {c, d}
    BY DEF Good
  <2>1. PICK M : \A x, y \in Nodes : /\ Merge(h, x, y) = M[<<x, y>>]
                                     /\ M[<<x, y>>] = MergeCall(h, M, x, y)
    <3>1. PICK M : /\ M = [x \in Pairs |-> MergeCall(h, M, x[1], x[2])]
                   /\ \A x, y \in Nodes : Merge(h, x, y) = M[<<x, y>>]
      BY MergeDefined
    <3>2. \A x, y \in Nodes : <<x, y>> \in Pairs
      BY DEF Pairs
    <3>3. \A x, y \in Nodes : M[<<x, y>>] = MergeCall(h, M, x, y)
      BY <3>1, <3>2
    <3> QED BY <3>1, <3>3
  <2>2. s[NULL] = {}
    BY DEF Subtrees
  <2>3. CASE c = NULL
    <3>1. Merge(h, c, d) = [h EXCEPT !.root = d]
      BY <2>1, <2>3 DEF MergeCall
    <3>2. s[c] \cup s[d] = s[d]
      BY <2>2, <2>3
    <3>3. Merged(h, s, s[d], [h EXCEPT !.root = d])
      BY <3>2, MergedOne
    <3>4. [h EXCEPT !.root = d].root = d
      BY DEF Queues
    <3> QED BY <3>1, <3>2, <3>3, <3>4
  <2>4. CASE c # NULL /\ d = NULL
    <3>1. Merge(h, c, d) = [h EXCEPT !.root = c]
      BY <2>1, <2>4 DEF MergeCall
    <3>2. s[c] \cup s[d] = s[c]
      BY <2>2, <2>4
    <3>3. Merged(h, s, s[c], [h EXCEPT !.root = c])
      BY <3>2, MergedOne
    <3>4. [h EXCEPT !.root = c].root = c
      BY DEF Queues
    <3> QED BY <3>1, <3>2, <3>3, <3>4
  <2>5. CASE c # NULL /\ d # NULL
    <3>0. c \in Procs /\ d \in Procs /\ c \in s[c] /\ d \in s[d]
      BY <2>5, Nested DEF Nodes
    <3>1. ASSUME Less(c, d)
          PROVE  /\ Merged(h, s, s[c] \cup s[d], Merge(h, c, d))
                 /\ Merge(h, c, d).root \in {c, d}
      <4>1. h.right[c] \in Nodes /\ Cardinality(s[h.right[c]]) < Cardinality(s[c])
            /\ s[h.right[c]] \subseteq s[c]
        <5>1. s[h.right[c]] \subseteq s[c]
          BY <3>0 DEF Subtrees
        <5> QED BY <3>0, <5>1, Smaller
      <4>2. Size(s, h.right[c], d) < n
        BY <4>1, <1>0, <2>0, Size(s, c, d) < n + 1 DEF Size
      <4>3. s[h.right[c]] \cap s[d] = {} /\ Kids(h, s[h.right[c]] \cup s[d])
        BY <4>1 DEF Kids
      <4>4. Merged(h, s, s[h.right[c]] \cup s[d], Merge(h, h.right[c], d))
        BY <2>0, <4>1, <4>2, <4>3 DEF Good
      <4>5. Total(s[c] \cup s[d]) => NotAfter(c, d)
        BY <3>0, <3>1 DEF Total
      <4> DEFINE m0 == Merge(h, h.right[c], d)
      <4>6. Merge(h, c, d) = Linked(m0, c, m0.root, h.left[c])
        <5>1. M[<<c, d>>] = Linked(M[<<h.right[c], d>>], c, M[<<h.right[c], d>>].root, h.left[c])
          BY <2>1, <2>5, <3>1 DEF MergeCall
        <5> QED BY <5>1, <2>1, <4>1
      <4> HIDE DEF m0
      <4>7. Merged(h, s, s[h.right[c]] \cup s[d], m0)
        BY <4>4 DEF m0
      <4>8. Linked(m0, c, m0.root, h.left[c]).root = c
        BY <4>7 DEF Merged, Queues, Linked
      <4> QED BY <3>0, <4>5, <4>6, <4>7, <4>8, MergedTwo
    <3>2. ASSUME ~Less(c, d)
          PROVE  /\ Merged(h, s, s[c] \cup s[d], Merge(h, c, d))
                 /\ Merge(h, c, d).root \in {c, d}
      <4>1. h.right[d] \in Nodes /\ Cardinality(s[h.right[d]]) < Cardinality(s[d])
            /\ s[h.right[d]] \subseteq s[d]
        <5>1. s[h.right[d]] \subseteq s[d]
          BY <3>0 DEF Subtrees
        <5> QED BY <3>0, <5>1, Smaller
      <4>2. Size(s, c, h.right[d]) < n
        BY <4>1, <1>0, <2>0, Size(s, c, d) < n + 1 DEF Size
      <4>3. s[c] \cap s[h.right[d]] = {} /\ Kids(h, s[c] \cup s[h.right[d]])
        BY <4>1 DEF Kids
      <4>4. Merged(h, s, s[c] \cup s[h.right[d]], Merge(h, c, h.right[d]))
        BY <2>0, <4>1, <4>2, <4>3 DEF Good
      <4>5. Total(s[d] \cup s[c]) => NotAfter(d, c)
        BY <3>0, <3>2 DEF Total
      <4> DEFINE m0 == Merge(h, c, h.right[d])
      <4>6. Merge(h, c, d) = Linked(m0, d, m0.root, h.left[d])
        <5>1. M[<<c, d>>] = Linked(M[<<c, h.right[d]>>], d, M[<<c, h.right[d]>>].root, h.left[d])
          BY <2>1, <2>5, <3>2 DEF MergeCall
        <5> QED BY <5>1, <2>1, <4>1
      <4>7. s[c] \cup s[d] = s[d] \cup s[c] /\ s[c] \cup s[h.right[d]] = s[h.right[d]] \cup s[c]
            /\ s[d] \cap s[c] = {}
        OBVIOUS
      <4> HIDE DEF m0
      <4>8. Merged(h, s, s[h.right[d]] \cup s[c], m0) /\ Kids(h, s[d] \cup s[c])
        BY <4>4, <4>7 DEF m0
      <4>9. Merged(h, s, s[d] \cup s[c], Linked(m0, d, m0.root, h.left[d]))
        BY <3>0, <4>5, <4>7, <4>8, MergedTwo
      <4>10. Linked(m0, d, m0.root, h.left[d]).root = d
        BY <4>8 DEF Merged, Queues, Linked
      <4> QED BY <4>6, <4>7, <4>9, <4>10
    <3> QED BY <3>1, <3>2
  <2> QED BY <2>3, <2>4, <2>5
<1>3. T = Nat
  <2> HIDE DEF T
  <2>1. T \subseteq Nat
    BY DEF T
  <2> QED BY <1>1, <1>2, <2>1, SetInduction
<1>4. Size(s, a, b) + 1 \in T
  BY <1>0, <1>3
<1>5. Size(s, a, b) < Size(s, a, b) + 1
  BY <1>0
<1> QED BY <1>4, <1>5

----------------------------------------------------------------------------
(* Insertion and removal *)

\* The heap of q is a tree of R, in order if ord says so; other nodes are loose.
Heap(q, R, ord) ==
  /\ q \in Queues /\ R \subseteq Procs
  /\ Kids(q, R)
  /\ q.root # NULL => q.parent[q.root] = NULL
  /\ \A p \in Procs \ R : q.left[p] = NULL /\ q.right[p] = NULL
  /\ \E s : Subtrees(q, s, Procs) /\ s[q.root] = R /\ (ord => Sorted(s, R))

SameList(q, m) == m.run_list = q.run_list /\ m.proc_num = q.proc_num /\ m.in = q.in

\* Loose nodes around a tree.
LEMMA HeapOf ==
  ASSUME NEW m \in Queues, NEW X \in SUBSET Procs, NEW t, NEW ord,
         Subtrees(m, t, X), t[m.root] = X, ord => Sorted(t, X), Kids(m, X),
         m.root # NULL => m.root \in X /\ m.parent[m.root] = NULL,
         \A p \in Procs \ X : m.left[p] = NULL /\ m.right[p] = NULL
  PROVE  Heap(m, X, ord)
<1> DEFINE s == [x \in Nodes |-> IF x \in Procs \ X THEN {x} ELSE t[x]]
<1>0. NULL \notin Procs /\ NULL \in Nodes /\ Procs \subseteq Nodes
  BY Zero DEF Nodes
<1>1. s \in [Nodes -> SUBSET Procs] /\ s[NULL] = {}
      /\ (\A x \in Procs \ X : s[x] = {x}) /\ \A x \in X : s[x] = t[x]
  <2>1. t \in [Nodes -> SUBSET Procs] /\ t[NULL] = {}
    BY DEF Subtrees
  <2> QED BY <1>0, <2>1
<1> HIDE DEF s
<1>2. ASSUME NEW p \in X
      PROVE  /\ m.left[p] \in X \cup {NULL} /\ m.right[p] \in X \cup {NULL}
             /\ s[p] = {p} \cup s[m.left[p]] \cup s[m.right[p]]
             /\ p \notin s[m.left[p]] /\ p \notin s[m.right[p]]
             /\ s[m.left[p]] \cap s[m.right[p]] = {}
             /\ s[p] \subseteq X /\ \A q \in s[p] : s[q] \subseteq s[p]
  <2>1. /\ m.left[p] \in X \cup {NULL} /\ m.right[p] \in X \cup {NULL}
        /\ t[p] = {p} \cup t[m.left[p]] \cup t[m.right[p]]
        /\ p \notin t[m.left[p]] /\ p \notin t[m.right[p]]
        /\ t[m.left[p]] \cap t[m.right[p]] = {}
        /\ t[p] \subseteq X /\ (\A q \in t[p] : t[q] \subseteq t[p]) /\ t[NULL] = {}
    BY DEF Subtrees
  <2>2. s[m.left[p]] = t[m.left[p]] /\ s[m.right[p]] = t[m.right[p]] /\ s[p] = t[p]
        /\ \A q \in t[p] : s[q] = t[q]
    BY <1>1, <2>1
  <2> QED BY <2>1, <2>2
<1>3. Subtrees(m, s, Procs)
  <2>1. ASSUME NEW p \in Procs \ X
        PROVE  /\ m.left[p] \in Procs \cup {NULL} /\ m.right[p] \in Procs \cup {NULL}
               /\ s[p] = {p} \cup s[m.left[p]] \cup s[m.right[p]]
               /\ p \notin s[m.left[p]] /\ p \notin s[m.right[p]]
               /\ s[m.left[p]] \cap s[m.right[p]] = {}
               /\ s[p] \subseteq Procs /\ \A q \in s[p] : s[q] \subseteq s[p]
    BY <1>1
  <2> QED BY <1>1, <1>2, <2>1 DEF Subtrees
<1>4. s[m.root] = X
  <2>1. CASE m.root = NULL
    BY <1>1, <2>1 DEF Subtrees
  <2>2. CASE m.root # NULL
    BY <1>1, <2>2
  <2> QED BY <2>1, <2>2
<1>5. ord => Sorted(s, X)
  BY <1>1 DEF Sorted
<1> QED BY <1>3, <1>4, <1>5 DEF Heap

\* skew_heap_insert
LEMMA InsertGood ==
  ASSUME NEW q, NEW R, NEW ord \in BOOLEAN, Heap(q, R, ord), NEW p \in Procs \ R,
         ord => Total(R \cup {p})
  PROVE  Heap(HeapInsert(q, p), R \cup {p}, ord) /\ SameList(q, HeapInsert(q, p))
<1> DEFINE h == [q EXCEPT !.left[p] = NULL, !.right[p] = NULL, !.parent[p] = NULL]
           X == R \cup {p}
           m == Merge(h, q.root, p)
<1>0. NULL \notin Procs /\ NULL \in Nodes /\ p \in Nodes /\ q.root \in Nodes /\ q \in Queues
  BY Zero DEF Nodes, Heap, Queues
<1>1. /\ h \in Queues /\ SameList(q, h)
      /\ \A x \in Procs : /\ h.left[x] = IF x = p THEN NULL ELSE q.left[x]
                          /\ h.right[x] = IF x = p THEN NULL ELSE q.right[x]
                          /\ h.parent[x] = IF x = p THEN NULL ELSE q.parent[x]
  BY <1>0 DEF Queues, SameList
<1>2. HeapInsert(q, p) = m
  BY DEF HeapInsert
<1>3. PICK s : Subtrees(q, s, Procs) /\ s[q.root] = R /\ (ord => Sorted(s, R))
  BY DEF Heap
<1> HIDE DEF h, m
<1>4. \A x \in Procs : h.left[x] = q.left[x] /\ h.right[x] = q.right[x]
  BY <1>1 DEF Heap
<1>5. Subtrees(h, s, Procs)
  BY <1>3, <1>4 DEF Subtrees
<1>6. s[p] = {p}
  BY <1>3 DEF Heap, Subtrees
<1>7. Kids(h, X)
  <2> SUFFICES ASSUME NEW u \in X, NEW c \in {h.left[u], h.right[u]} \ {NULL}
               PROVE  h.parent[c] = u
    BY DEF Kids
  <2>1. u # p /\ u \in R /\ u \in Procs /\ c \in {q.left[u], q.right[u]} \ {NULL}
    BY <1>1, <1>4 DEF Heap
  <2>2. c \in R /\ c \in Procs
    <3>1. q.root \in Procs
      BY <1>0, <1>3, <2>1 DEF Nodes, Subtrees
    <3>2. c \in s[u] /\ s[u] \subseteq R
      BY <1>3, <2>1, <3>1, Nested
    <3> QED BY <3>2, <1>3 DEF Heap
  <2>3. c # p
    BY <2>2
  <2> QED BY <1>1, <2>1, <2>2, <2>3 DEF Heap, Kids
<1>8. s[q.root] \cup s[p] = X /\ s[q.root] \cap s[p] = {} /\ X \in SUBSET Procs
  BY <1>3, <1>6 DEF Heap
<1>9. Merged(h, s, X, m) /\ m.root \in {q.root, p}
  BY <1>0, <1>1, <1>5, <1>7, <1>8, MergeGood DEF m
<1>10. m \in Queues /\ SameList(q, m)
       /\ \A x \in Procs \ X : m.left[x] = NULL /\ m.right[x] = NULL
  BY <1>1, <1>8, <1>9 DEF Merged, SameList, Heap
<1>11. PICK t : Subtrees(m, t, X) /\ t[m.root] = X /\ (Total(X) /\ Sorted(s, X) => Sorted(t, X))
  BY <1>9 DEF Merged
<1>12. ASSUME ord PROVE Sorted(t, X)
  <2>1. Total(X) /\ Sorted(s, R)
    BY <1>3, <1>12
  <2>2. NotAfter(p, p)
    BY <2>1 DEF Total
  <2>3. Sorted(s, X)
    BY <2>1, <2>2, <1>6 DEF Sorted
  <2> QED BY <1>11, <2>1, <2>3
<1>13. m.root # NULL => m.root \in X /\ m.parent[m.root] = NULL
  <2> SUFFICES ASSUME m.root # NULL PROVE m.root \in X /\ m.parent[m.root] = NULL
    OBVIOUS
  <2>1. m.root \in X /\ m.parent[m.root] = h.parent[m.root]
    BY <1>9 DEF Merged
  <2>2. h.parent[m.root] = NULL
    BY <1>1, <1>8, <1>9, <2>1 DEF Heap
  <2> QED BY <2>1, <2>2
<1>14. Kids(m, X)
  BY <1>9 DEF Merged
<1>15. Heap(m, X, ord)
  BY <1>8, <1>10, <1>11, <1>12, <1>13, <1>14, HeapOf
<1> QED BY <1>2, <1>10, <1>15

\* skew_heap_remove, as stride_dequeue uses it: for the root.
LEMMA RemoveGood ==
  ASSUME NEW q, NEW R, NEW ord \in BOOLEAN, Heap(q, R, ord), R # {}, ord => Total(R)
  PROVE  /\ q.root \in R
         /\ Heap(HeapRemove(q, q.root), R \ {q.root}, ord)
         /\ SameList(q, HeapRemove(q, q.root))
<1> DEFINE p == q.root
           X == R \ {p}
           m == Merge(q, q.left[p], q.right[p])
           m1 == IF m.root = NULL THEN m ELSE [m EXCEPT !.parent[m.root] = NULL]
           m2 == [m1 EXCEPT !.left[p] = NULL, !.right[p] = NULL, !.parent[p] = NULL]
<1>0. NULL \notin Procs /\ NULL \in Nodes /\ q.root \in Nodes /\ q \in Queues /\ R \subseteq Procs
  BY Zero DEF Nodes, Heap, Queues
<1>1. PICK s : Subtrees(q, s, Procs) /\ s[q.root] = R /\ (ord => Sorted(s, R))
  BY DEF Heap
<1>2. p \in Procs /\ p \in R /\ p # NULL
  BY <1>0, <1>1 DEF Nodes, Subtrees
<1>3. /\ q.left[p] \in Nodes /\ q.right[p] \in Nodes
      /\ s[q.left[p]] \cup s[q.right[p]] = X /\ s[q.left[p]] \cap s[q.right[p]] = {}
  BY <1>0, <1>1, <1>2 DEF Subtrees, Queues
<1>4. HeapRemove(q, p) = m2
  <2>1. q.parent[p] = NULL
    BY <1>2 DEF Heap
  <2> QED BY <2>1 DEF HeapRemove
<1> HIDE DEF m, m1, m2, p, X
<1>5. Kids(q, X) /\ X \in SUBSET Procs /\ X \subseteq R
  BY <1>0 DEF Heap, Kids, X
<1>6. Merged(q, s, X, m)
  <2>1. Kids(q, s[q.left[p]] \cup s[q.right[p]])
    BY <1>3, <1>5
  <2>2. Merged(q, s, s[q.left[p]] \cup s[q.right[p]], m)
    BY <1>0, <1>1, <1>3, <2>1, MergeGood DEF m
  <2> QED BY <1>3, <2>2
<1>7. /\ m \in Queues /\ SameList(q, m) /\ Kids(m, X)
      /\ m.root # NULL => m.root \in X
      /\ \A x \in Procs \ X : m.left[x] = q.left[x] /\ m.right[x] = q.right[x]
  BY <1>6 DEF Merged, SameList
<1>8. /\ m1 \in Queues /\ SameList(q, m1) /\ m1.root = m.root
      /\ m1.left = m.left /\ m1.right = m.right
      /\ \A x \in Procs : m1.parent[x] = IF x = m.root THEN NULL ELSE m.parent[x]
  <2>1. CASE m.root = NULL
    BY <2>1, <1>0, <1>7 DEF m1
  <2>2. CASE m.root # NULL
    <3>1. m1 = [m EXCEPT !.parent[m.root] = NULL] /\ m.root \in Procs
      BY <2>2, <1>5, <1>7 DEF m1
    <3> QED BY <3>1, <1>0, <1>7 DEF Queues, SameList
  <2> QED BY <2>1, <2>2
<1>9. /\ m2 \in Queues /\ SameList(q, m2) /\ m2.root = m.root
      /\ \A x \in Procs : /\ m2.left[x] = IF x = p THEN NULL ELSE m.left[x]
                          /\ m2.right[x] = IF x = p THEN NULL ELSE m.right[x]
                          /\ m2.parent[x] = IF x \in {p, m.root} THEN NULL ELSE m.parent[x]
  BY <1>0, <1>2, <1>8 DEF m2, Queues, SameList
<1>10. PICK t : Subtrees(m, t, X) /\ t[m.root] = X /\ (Total(X) /\ Sorted(s, X) => Sorted(t, X))
  BY <1>6 DEF Merged
<1>11. p \notin X
  BY DEF X
<1>12. Subtrees(m2, t, X)
  BY <1>5, <1>9, <1>10, <1>11 DEF Subtrees
<1>13. Kids(m2, X)
  <2> SUFFICES ASSUME NEW u \in X, NEW c \in {m2.left[u], m2.right[u]} \ {NULL}
               PROVE  m2.parent[c] = u
    BY DEF Kids
  <2>1. c \in {m.left[u], m.right[u]} \ {NULL}
    BY <1>5, <1>9, <1>11
  <2>2. c \in X /\ u \notin t[c]
    BY <1>5, <1>10, <2>1, Nested
  <2>3. c # m.root /\ c # p /\ c \in Procs
    BY <1>5, <1>10, <1>11, <2>2
  <2> QED BY <1>7, <1>9, <2>1, <2>3 DEF Kids
<1>14. ord => Sorted(t, X)
  <2> SUFFICES ASSUME ord PROVE Sorted(t, X)
    OBVIOUS
  <2>1. Total(X) /\ Sorted(s, X)
    BY <1>1, <1>5 DEF Total, Sorted
  <2> QED BY <1>10, <2>1
<1>15. \A x \in Procs \ X : m2.left[x] = NULL /\ m2.right[x] = NULL
  BY <1>7, <1>9 DEF Heap, X
<1>16. m2.root # NULL => m2.root \in X /\ m2.parent[m2.root] = NULL
  BY <1>5, <1>7, <1>9
<1>17. Heap(m2, X, ord)
  BY <1>5, <1>9, <1>10, <1>12, <1>13, <1>14, <1>15, <1>16, HeapOf
<1> QED BY <1>2, <1>4, <1>9, <1>17 DEF p, X

----------------------------------------------------------------------------
(* The queue: the list, the counter and, where there is one, the heap *)

TypeInv ==
  /\ policy \in Policies
  /\ state \in [Procs -> {"none", "sleeping", "runnable"}]
  /\ current \in Nodes /\ need_resched \in BOOLEAN /\ time_slice \in Nat
  /\ lab6_priority \in [Procs -> Nat \ {0}]
  /\ lab6_expected_runtime \in [Procs -> Nat \ {0}]
  /\ pass \in [Procs -> Nat] /\ mixed \in BOOLEAN

\* proc_stride_comp_f is an order on processes that are near each other, and
\* proc_sjf_comp on all.
LEMMA Ordered ==
  ASSUME TypeInv, UsesHeap, NEW R \in SUBSET Procs,
         policy = "STRIDE" => \A p, q \in R : Near(pass[p], pass[q])
  PROVE  Total(R)
<1>1. CASE policy = "STRIDE"
  <2>1. \A p \in R : pass[p] \in Nat
    BY DEF TypeInv
  <2>2. ASSUME NEW p \in R, NEW q \in R
        PROVE  Less(p, q) <=> pass[p] < pass[q]
    <3>1. Diff(pass[p], pass[q]) = pass[p] - pass[q]
      BY <1>1, <2>1, DiffIsTrue
    <3> QED BY <1>1, <2>1, <3>1 DEF Less
  <2> QED BY <1>1, <2>1, <2>2 DEF Total, NotAfter
<1>2. CASE policy # "STRIDE"
  <2> DEFINE e(p) == lab6_expected_runtime[p]
  <2>1. \A p \in R : e(p) \in Nat /\ p \in Nat
    BY SchedAssumption DEF TypeInv
  <2>2. \A p, q \in R : Less(p, q) <=> (e(p) < e(q) \/ (e(p) = e(q) /\ p < q))
    BY <1>2 DEF Less
  <2>3. \A p, q \in R : NotAfter(p, q) <=> p = q \/ Less(p, q)
    BY <1>2 DEF NotAfter
  <2> HIDE DEF e
  <2>4. \A p, q \in R : NotAfter(p, p) /\ (~Less(p, q) => NotAfter(q, p))
    BY <2>1, <2>2, <2>3
  <2>5. \A p, q, r \in R : NotAfter(p, q) /\ NotAfter(q, r) => NotAfter(p, r)
    BY <2>1, <2>2, <2>3
  <2> QED BY <2>3, <2>4, <2>5 DEF Total
<1> QED BY <1>1, <1>2

\* The list and the counter have R, once each.
Listed(q, R) ==
  /\ q \in Queues /\ R \subseteq Procs
  /\ \A i, j \in 1..Len(q.run_list) : q.run_list[i] = q.run_list[j] => i = j
  /\ ToSet(q.run_list) = R /\ q.in = R
  /\ q.proc_num = Cardinality(R) /\ Len(q.run_list) = q.proc_num

Queue(q, R, ord) == Listed(q, R) /\ (UsesHeap => Heap(q, R, ord))

LEMMA ElementsOf ==
  ASSUME NEW l \in Seq(Procs)
  PROVE  /\ Len(l) \in Nat /\ \A k \in 1..Len(l) : l[k] \in Procs
         /\ \A x : x \in ToSet(l) <=> \E k \in 1..Len(l) : l[k] = x
<1>1. DOMAIN l = 1..Len(l)
  OBVIOUS
<1> QED BY <1>1 DEF ToSet

LEMMA CardNat ==
  ASSUME NEW R \in SUBSET Procs
  PROVE  /\ IsFiniteSet(R) /\ Cardinality(R) \in Nat
         /\ \A p \in Procs \ R : Cardinality(R \cup {p}) = Cardinality(R) + 1
         /\ \A p \in R : Cardinality(R \ {p}) = Cardinality(R) - 1
         /\ Cardinality(R) = 0 <=> R = {}
<1>1. IsFiniteSet(R)
  BY Zero, FS_Subset
<1> QED BY <1>1, FS_CardinalityType, FS_AddElement, FS_RemoveElement, FS_EmptySet

Relisted(q, l, r, n) == [q EXCEPT !.run_list = l, !.in = r, !.proc_num = n]
Added(q, p) == Relisted(q, Append(q.run_list, p), q.in \cup {p}, q.proc_num + 1)
Dropped(q, p) == Relisted(q, Unlinked(q.run_list, p), q.in \ {p}, q.proc_num - 1)

SameHeap(q, m) ==
  m.root = q.root /\ m.left = q.left /\ m.right = q.right /\ m.parent = q.parent

LEMMA ListFields ==
  ASSUME NEW q \in Queues, NEW l \in Seq(Procs), NEW r \in SUBSET Procs, NEW n \in Int
  PROVE  /\ Relisted(q, l, r, n) \in Queues /\ SameHeap(q, Relisted(q, l, r, n))
         /\ Relisted(q, l, r, n).run_list = l /\ Relisted(q, l, r, n).in = r
         /\ Relisted(q, l, r, n).proc_num = n
BY DEF Queues, Relisted, SameHeap

LEMMA ListAdd ==
  ASSUME NEW q, NEW R, Listed(q, R), NEW p \in Procs \ R
  PROVE  Listed(Added(q, p), R \cup {p}) /\ SameHeap(q, Added(q, p))
<1> DEFINE q2 == Added(q, p)
           l == q.run_list
           n == Len(l)
           l2 == Append(l, p)
<1>1. q \in Queues /\ R \subseteq Procs /\ l \in Seq(Procs) /\ q.in \subseteq Procs
      /\ q.proc_num \in Int
  BY DEF Listed, Queues
<1>2. /\ l2 \in Seq(Procs) /\ Len(l2) = n + 1 /\ l2[n + 1] = p /\ n \in Nat
      /\ \A k \in 1..n : l2[k] = l[k]
  BY <1>1, AppendProperties
<1>3. q2 = Relisted(q, l2, q.in \cup {p}, q.proc_num + 1)
  BY DEF Added
<1> HIDE DEF l, l2, n, q2
<1>4. /\ q2 \in Queues /\ q2.run_list = l2 /\ q2.in = q.in \cup {p}
      /\ q2.proc_num = q.proc_num + 1 /\ SameHeap(q, q2)
  <2>1. q.in \cup {p} \in SUBSET Procs /\ q.proc_num + 1 \in Int
    BY <1>1
  <2> QED BY <1>1, <1>2, <1>3, <2>1, ListFields
<1>5. ToSet(l) = R /\ \A i, j \in 1..n : l[i] = l[j] => i = j
  BY DEF Listed, l, n
<1>6. \A k \in 1..n : l[k] # p
  BY <1>1, <1>5, ElementsOf DEF n
<1>7. \A i, j \in 1..(n + 1) : l2[i] = l2[j] => i = j
  BY <1>2, <1>5, <1>6
<1>8. ToSet(l2) = R \cup {p}
  <2>1. \A x : x \in ToSet(l2) <=> \E k \in 1..(n + 1) : l2[k] = x
    BY <1>2, ElementsOf
  <2>2. \A x : x \in R <=> \E k \in 1..n : l[k] = x
    BY <1>1, <1>5, ElementsOf DEF n
  <2>3. \A k \in 1..(n + 1) : k \in 1..n \/ k = n + 1
    BY <1>2
  <2>4. 1..n \subseteq 1..(n + 1) /\ n + 1 \in 1..(n + 1)
    BY <1>2
  <2> QED BY <1>2, <2>1, <2>2, <2>3, <2>4
<1>9. Cardinality(R \cup {p}) = Cardinality(R) + 1
  BY <1>1, CardNat
<1>10. q.in = R /\ q.proc_num = Cardinality(R) /\ n = q.proc_num
  BY DEF Listed, l, n
<1>11. R \cup {p} \subseteq Procs
  BY <1>1
<1> QED BY <1>1, <1>2, <1>4, <1>7, <1>8, <1>9, <1>10, <1>11 DEF Listed, q2

LEMMA ListDrop ==
  ASSUME NEW q, NEW R, Listed(q, R), NEW p \in R
  PROVE  Listed(Dropped(q, p), R \ {p}) /\ SameHeap(q, Dropped(q, p))
<1> DEFINE q2 == Dropped(q, p)
           l == q.run_list
           n == Len(l)
           k == CHOOSE i \in DOMAIN l : l[i] = p
           l2 == Unlinked(l, p)
<1>1. q \in Queues /\ R \subseteq Procs /\ l \in Seq(Procs) /\ q.in \subseteq Procs
      /\ q.proc_num \in Int /\ DOMAIN l = 1..n
  BY DEF Listed, Queues
<1>2. ToSet(l) = R /\ \A i, j \in 1..n : l[i] = l[j] => i = j
  BY DEF Listed
<1>3. k \in 1..n /\ l[k] = p
  <2>1. \E i \in 1..n : l[i] = p
    BY <1>1, <1>2, ElementsOf
  <2> QED BY <1>1, <2>1
<1>4. l2 = SubSeq(l, 1, k - 1) \o SubSeq(l, k + 1, Len(l))
  BY DEF Unlinked, RemoveAt
<1> HIDE DEF k, l2
<1>5. /\ l2 \in Seq(Procs) /\ Len(l2) = n - 1 /\ n \in Nat
      /\ \A j \in 1..(n - 1) : l2[j] = IF j < k THEN l[j] ELSE l[j + 1]
  <2>1. k \in 1..Len(l) /\ l \in Seq(Procs) /\ Len(l) \in Nat
    BY <1>1, <1>3, ElementsOf
  <2> HIDE DEF l
  <2>2. LET r == SubSeq(l, 1, k - 1) \o SubSeq(l, k + 1, Len(l)) IN
         /\ r \in Seq(Procs) /\ Len(r) = Len(l) - 1
         /\ \A j \in 1..(Len(l) - 1) : r[j] = IF j < k THEN l[j] ELSE l[j + 1]
    BY <2>1, DropFacts
  <2> QED BY <1>4, <2>1, <2>2
<1>6. q2 = Relisted(q, l2, q.in \ {p}, q.proc_num - 1)
  BY DEF Dropped, l2
<1> HIDE DEF l, n, q2
<1>7. /\ q2 \in Queues /\ q2.run_list = l2 /\ q2.in = q.in \ {p}
      /\ q2.proc_num = q.proc_num - 1 /\ SameHeap(q, q2)
  <2>1. q.in \ {p} \in SUBSET Procs /\ q.proc_num - 1 \in Int
    BY <1>1
  <2> QED BY <1>1, <1>5, <1>6, <2>1, ListFields
<1> DEFINE old(j) == IF j < k THEN j ELSE j + 1
<1>8. \A j \in 1..(n - 1) : old(j) \in 1..n /\ old(j) # k /\ l2[j] = l[old(j)]
  BY <1>3, <1>5
<1>9. \A i, j \in 1..(n - 1) : l2[i] = l2[j] => i = j
  <2> SUFFICES ASSUME NEW i \in 1..(n - 1), NEW j \in 1..(n - 1), l2[i] = l2[j] PROVE i = j
    OBVIOUS
  <2>1. old(i) = old(j)
    BY <1>2, <1>8
  <2> QED BY <1>3, <1>5, <2>1
<1>10. ToSet(l2) = R \ {p}
  <2>1. \A x : x \in ToSet(l2) <=> \E j \in 1..(n - 1) : l2[j] = x
    BY <1>5, ElementsOf
  <2>2. \A x : x \in R <=> \E j \in 1..n : l[j] = x
    BY <1>1, <1>2, ElementsOf DEF n
  <2>3. \A j \in 1..(n - 1) : l2[j] \in R /\ l2[j] # p
    <3>1. \A j \in 1..(n - 1) : l[old(j)] \in R
      BY <1>8, <2>2
    <3>2. \A j \in 1..(n - 1) : l[old(j)] # l[k]
      BY <1>2, <1>3, <1>8
    <3> QED BY <1>3, <1>8, <3>1, <3>2
  <2>4. ASSUME NEW x \in R \ {p} PROVE \E j \in 1..(n - 1) : l2[j] = x
    <3>1. PICK i \in 1..n : l[i] = x
      BY <2>2
    <3>2. i # k
      BY <1>3, <3>1
    <3>3. CASE i < k
      <4>1. i \in 1..(n - 1)
        BY <1>3, <1>5, <3>3
      <4> QED BY <1>5, <3>1, <3>3, <4>1
    <3>4. CASE i > k
      <4>1. i - 1 \in 1..(n - 1) /\ ~(i - 1 < k) /\ i - 1 + 1 = i
        BY <1>3, <1>5, <3>4
      <4>2. l2[i - 1] = l[i]
        BY <1>5, <4>1
      <4> QED BY <3>1, <4>1, <4>2
    <3> QED BY <1>3, <1>5, <3>2, <3>3, <3>4
  <2> QED BY <2>1, <2>3, <2>4
<1>11. Cardinality(R \ {p}) = Cardinality(R) - 1
  BY <1>1, CardNat
<1>12. q.in = R /\ q.proc_num = Cardinality(R) /\ n = q.proc_num
  BY DEF Listed, l, n
<1>13. R \ {p} \subseteq Procs
  BY <1>1
<1> QED BY <1>1, <1>5, <1>7, <1>9, <1>10, <1>11, <1>12, <1>13 DEF Listed, q2

LEMMA HeapAlone ==
  ASSUME NEW q, NEW R, NEW ord, Heap(q, R, ord), NEW m \in Queues, SameHeap(q, m)
  PROVE  Heap(m, R, ord)
BY DEF SameHeap, Heap, Kids, Subtrees

LEMMA ListAlone ==
  ASSUME NEW q, NEW R, Listed(q, R), NEW m \in Queues, SameList(q, m)
  PROVE  Listed(m, R)
BY DEF Listed, SameList

\* enqueue
LEMMA EnqueueGood ==
  ASSUME NEW q, NEW R, NEW ord \in BOOLEAN, Queue(q, R, ord), NEW p \in Procs \ R,
         UsesHeap /\ ord => Total(R \cup {p})
  PROVE  Queue(Enqueue(q, p), R \cup {p}, ord)
<1> DEFINE q2 == Added(q, p)
<1>1. Listed(q2, R \cup {p}) /\ SameHeap(q, q2)
  BY ListAdd DEF Queue
<1>2. Enqueue(q, p) = IF UsesHeap THEN HeapInsert(q2, p) ELSE q2
  <2>1. q \in Queues
    BY DEF Queue, Listed
  <2> QED BY <2>1 DEF Enqueue, Added, Relisted, Queues
<1> HIDE DEF q2
<1>3. CASE UsesHeap
  <2>1. Heap(q2, R, ord)
    BY <1>1, <1>3, HeapAlone DEF Queue, Listed
  <2>2. Heap(HeapInsert(q2, p), R \cup {p}, ord) /\ SameList(q2, HeapInsert(q2, p))
    BY <1>3, <2>1, InsertGood
  <2>3. Listed(HeapInsert(q2, p), R \cup {p})
    BY <1>1, <2>2, ListAlone DEF Heap
  <2> QED BY <1>2, <1>3, <2>2, <2>3 DEF Queue
<1>4. CASE ~UsesHeap
  BY <1>1, <1>2, <1>4 DEF Queue
<1> QED BY <1>3, <1>4

\* pick_next
LEMMA PickGood ==
  ASSUME NEW q, NEW R, NEW ord, Queue(q, R, ord)
  PROVE  /\ PickNext(q) = NULL <=> R = {}
         /\ PickNext(q) # NULL => PickNext(q) \in R
         /\ UsesHeap => PickNext(q) = q.root
<1>0. R \subseteq Procs /\ NULL \notin Procs
  BY Zero DEF Queue, Listed
<1>1. CASE UsesHeap
  <2>1. PICK s : Subtrees(q, s, Procs) /\ s[q.root] = R
    BY <1>1 DEF Queue, Heap
  <2>2. q.root \in Nodes
    BY <1>1 DEF Queue, Heap, Queues
  <2>3. q.root # NULL => q.root \in R
    BY <2>1, <2>2 DEF Nodes, Subtrees
  <2>4. q.root = NULL => R = {}
    BY <2>1 DEF Subtrees
  <2> QED BY <1>1, <2>3, <2>4 DEF PickNext
<1>2. CASE ~UsesHeap
  <2>1. q.run_list \in Seq(Procs) /\ ToSet(q.run_list) = R
    BY DEF Queue, Listed, Queues
  <2>2. CASE q.run_list = <<>>
    <3>1. R = {}
      <4>1. DOMAIN q.run_list = {}
        BY <2>2
      <4> QED BY <2>1, <4>1 DEF ToSet
    <3> QED BY <1>2, <2>2, <3>1 DEF PickNext
  <2>3. CASE q.run_list # <<>>
    <3>1. Head(q.run_list) = q.run_list[1] /\ 1 \in 1..Len(q.run_list)
      BY <2>1, <2>3
    <3>2. Head(q.run_list) \in R
      BY <2>1, <3>1, ElementsOf
    <3> QED BY <1>0, <1>2, <2>3, <3>2 DEF PickNext
  <2> QED BY <2>2, <2>3
<1> QED BY <1>1, <1>2

\* dequeue of the one that pick_next has found
LEMMA DequeueGood ==
  ASSUME NEW q, NEW R, NEW ord \in BOOLEAN, Queue(q, R, ord), NEW p \in R,
         UsesHeap => p = q.root, UsesHeap /\ ord => Total(R)
  PROVE  Queue(Dequeue(q, p), R \ {p}, ord)
<1> DEFINE q2 == Dropped(q, p)
<1>1. Listed(q2, R \ {p}) /\ SameHeap(q, q2)
  BY ListDrop DEF Queue
<1>2. Dequeue(q, p) = IF UsesHeap THEN HeapRemove(q2, p) ELSE q2
  <2>1. q \in Queues
    BY DEF Queue, Listed
  <2> QED BY <2>1 DEF Dequeue, Dropped, Relisted, Queues
<1> HIDE DEF q2
<1>3. CASE UsesHeap
  <2>1. Heap(q2, R, ord) /\ p = q2.root /\ R # {}
    BY <1>1, <1>3, HeapAlone DEF Queue, Listed, SameHeap
  <2>2. Heap(HeapRemove(q2, p), R \ {p}, ord) /\ SameList(q2, HeapRemove(q2, p))
    BY <1>3, <2>1, RemoveGood
  <2>3. Listed(HeapRemove(q2, p), R \ {p})
    BY <1>1, <2>2, ListAlone DEF Heap
  <2> QED BY <1>2, <1>3, <2>2, <2>3 DEF Queue
<1>4. CASE ~UsesHeap
  BY <1>1, <1>2, <1>4 DEF Queue
<1> QED BY <1>3, <1>4

----------------------------------------------------------------------------
(***************************************************************************)
(* The invariant.  The heap is in the order of the passes until two that   *)
(* are far apart have met (mixed); that the passes of those that can run   *)
(* stay together needs that the smallest one is picked, and the order of   *)
(* the heap needs that they are together.                                  *)
(***************************************************************************)
SlotOK ==
  /\ current # idle => state[current] = "runnable"
  /\ current # idle /\ policy \notin {"FIFO", "SJF"} => time_slice > 0 \/ need_resched

Apart == policy # "STRIDE" => ~mixed /\ pass = [p \in Procs |-> 0]

IInv ==
  /\ TypeInv /\ ~panic /\ SlotOK /\ Apart
  /\ Queue(rq, Ready, ~mixed)
  /\ Spread

\* A new order of the same processes: nothing that is queued has changed places.
LEMMA Carried ==
  ASSUME Queue(rq', Ready', ~mixed'), policy' = policy,
         \A p, q \in Ready' : NotAfter(p, q) => NotAfter(p, q)'
  PROVE  Queue(rq, Ready, ~mixed)'
<1>1. Ready' \subseteq Procs
  BY DEF Queue, Listed
<1>2. Listed(rq, Ready)'
  BY DEF Queue, Listed, Queues, Nodes
<1>3. ASSUME UsesHeap' PROVE Heap(rq, Ready, ~mixed)'
  <2>1. Heap(rq', Ready', ~mixed')
    BY <1>3 DEF Queue, UsesHeap
  <2>2. PICK s : Subtrees(rq', s, Procs) /\ s[rq'.root] = Ready' /\ (~mixed' => Sorted(s, Ready'))
    BY <2>1 DEF Heap
  <2>3. \A p \in Ready' : s[p] \subseteq Ready'
    <3>1. CASE Ready' = {}
      BY <3>1
    <3>2. CASE Ready' # {}
      <4>1. rq'.root \in Procs
        BY <2>1, <2>2, <3>2 DEF Heap, Queues, Nodes, Subtrees
      <4> QED BY <2>2, <4>1, Nested
    <3> QED BY <3>1, <3>2
  <2>4. ~mixed' => \A p \in Ready' : \A q \in s[p] : NotAfter(p, q)'
    BY <2>2, <2>3 DEF Sorted
  <2>5. /\ rq' \in Queues /\ Ready' \subseteq Procs /\ Kids(rq', Ready')
        /\ rq'.root # NULL => rq'.parent[rq'.root] = NULL
        /\ \A p \in Procs \ Ready' : rq'.left[p] = NULL /\ rq'.right[p] = NULL
    BY <2>1 DEF Heap
  <2> QED BY <2>2, <2>4, <2>5 DEF Heap, Sorted, Kids, Subtrees, Queues, Nodes
<1> QED BY <1>2, <1>3 DEF Queue

LEMMA ActiveFacts ==
  ASSUME TypeInv
  PROVE  Active \subseteq Procs /\ Ready \subseteq Active /\ Procs \subseteq Nodes
BY DEF Active, Ready, Nodes

\* Those that can run are ordered by the comparison as long as they are near.
LEMMA ActiveOrdered ==
  ASSUME TypeInv, Spread, UsesHeap, ~mixed, NEW R \in SUBSET Active
  PROVE  Total(R)
<1>1. R \subseteq Procs
  BY ActiveFacts
<1>2. policy = "STRIDE" => \A p, q \in R : Near(pass[p], pass[q])
  BY DEF Spread, Stride!Spread, Striding, Stride!Near, Near
<1> QED BY <1>1, <1>2, Ordered

LEMMA SliceNat == ASSUME TypeInv, NEW p \in Procs PROVE Slice(p) \in Nat /\ Slice(p) > 0
<1>1. /\ MAX_TIME_SLICE \in Nat /\ MAX_TIME_SLICE > 0
      /\ MAX_PRIORITY_SLICE \in Nat /\ MAX_PRIORITY_SLICE > 0
      /\ lab6_priority[p] \in Nat /\ lab6_priority[p] > 0
      /\ lab6_expected_runtime[p] \in Nat /\ lab6_expected_runtime[p] > 0
  BY SchedAssumption DEF TypeInv
<1>2. CalcTimeSlice(p) \in Nat /\ CalcTimeSlice(p) > 0
  <2> DEFINE n == Min2(IF lab6_priority[p] = 0 THEN 1 ELSE lab6_priority[p], MAX_PRIORITY_SLICE)
  <2>1. n \in Nat /\ n >= 1
    BY <1>1 DEF Min2
  <2>2. CalcTimeSlice(p) = MAX_TIME_SLICE * n
    BY DEF CalcTimeSlice
  <2> HIDE DEF n
  <2>3. MAX_TIME_SLICE * n \in Nat /\ MAX_TIME_SLICE * n >= MAX_TIME_SLICE
    BY <1>1, <2>1
  <2> QED BY <1>1, <2>2, <2>3
<1>3. Slice(p) \in {lab6_expected_runtime[p], CalcTimeSlice(p), MAX_TIME_SLICE}
  BY DEF Slice
<1> QED BY <1>1, <1>2, <1>3

\* What schedule() does to the queue: acts are those that can go on.
LEMMA ScheduleQueue ==
  ASSUME IInv, NEW st \in [Procs -> {"none", "sleeping", "runnable"}], NEW ps \in [Procs -> Nat],
         \A x \in Procs \ {current} : st[x] = state[x] /\ ps[x] = pass[x],
         current # idle /\ st[current] = "runnable" => ps = pass,
         Schedule(st, ps)
  PROVE  LET acts == {x \in Procs : st[x] = "runnable"} IN
         /\ ~panic' /\ current' \in Nodes /\ Active' = acts /\ acts \subseteq Active
         /\ current' = NULL => acts = {}
         /\ current' # NULL => current' \in acts
         /\ policy' = policy /\ mixed' = mixed
         /\ Queue(rq', Ready', ~mixed)
         /\ UsesHeap /\ ~mixed => \A x \in acts : current' # NULL => NotAfter(current', x)
<1> DEFINE acts == {x \in Procs : st[x] = "runnable"}
           again == current # idle /\ st[current] = "runnable"
           q == IF again THEN Enqueue(rq, current) ELSE rq
           p == PickNext(q)
<1>1. /\ TypeInv /\ ~panic /\ SlotOK /\ Queue(rq, Ready, ~mixed) /\ Spread
      /\ (current = idle \/ current \in Procs) /\ mixed \in BOOLEAN
      /\ NULL = 0 /\ idle = 0 /\ 0 \notin Procs
  BY Zero DEF IInv, TypeInv, Nodes, NULL, idle
<1>2. acts \subseteq Active
  BY <1>1 DEF Active, SlotOK
<1>3. acts = IF again THEN Ready \cup {current} ELSE Ready
  BY <1>1 DEF Active, Ready, SlotOK
<1>4. UsesHeap /\ ~mixed => Total(acts)
  BY <1>1, <1>2, ActiveOrdered
<1>5. Queue(q, acts, ~mixed)
  <2>1. CASE again
    <3>1. current \in Procs \ Ready
      BY <1>1, <2>1 DEF Ready
    <3>2. Queue(Enqueue(rq, current), Ready \cup {current}, ~mixed)
      BY <1>1, <1>3, <1>4, <2>1, <3>1, EnqueueGood
    <3> QED BY <1>3, <2>1, <3>2
  <2>2. CASE ~again
    BY <1>1, <1>3, <2>2
  <2> QED BY <2>1, <2>2
<1>6. /\ p = NULL <=> acts = {}
      /\ p # NULL => p \in acts
      /\ UsesHeap => p = q.root
  BY <1>5, PickGood
<1>7. /\ state' = st /\ current' = p /\ policy' = policy /\ mixed' = mixed
      /\ rq' = IF p = NULL THEN q ELSE Dequeue(q, p)
      /\ panic' = ((again /\ current \in rq.in) \/ (p # NULL /\ (p \notin q.in \/ q.proc_num = 0)))
  BY DEF Schedule
<1>8. Active' = acts /\ Ready' = acts \ {p}
  BY <1>7 DEF Active, Ready
<1>9. ~panic'
  <2>1. ~(again /\ current \in rq.in)
    BY <1>1 DEF Queue, Listed, Ready
  <2>2. p # NULL => p \in q.in /\ q.proc_num # 0
    <3>1. q.in = acts /\ q.proc_num = Cardinality(acts)
      BY <1>5 DEF Queue, Listed
    <3>2. p # NULL => Cardinality(acts) # 0
      BY <1>6, CardNat
    <3> QED BY <1>6, <3>1, <3>2
  <2> HIDE DEF p, q, again
  <2> QED BY <1>7, <2>1, <2>2
<1>10. Queue(rq', Ready', ~mixed)
  <2>1. CASE p = NULL
    <3>1. Ready' = acts
      BY <1>6, <1>8, <2>1
    <3> QED BY <1>5, <1>7, <2>1, <3>1
  <2>2. CASE p # NULL
    <3>1. Queue(Dequeue(q, p), acts \ {p}, ~mixed)
      <4> HIDE DEF p, q, acts
      <4> QED BY <1>1, <1>4, <1>5, <1>6, <2>2, DequeueGood
    <3> QED BY <1>7, <1>8, <2>2, <3>1
  <2> QED BY <2>1, <2>2
<1>11. ASSUME UsesHeap, ~mixed, p # NULL, NEW x \in acts PROVE NotAfter(p, x)
  <2>1. Heap(q, acts, ~mixed) /\ p = q.root /\ p \in acts
    BY <1>5, <1>6, <1>11 DEF Queue
  <2> HIDE DEF p, q, acts
  <2>2. PICK s : s[q.root] = acts /\ Sorted(s, acts)
    BY <1>11, <2>1 DEF Heap
  <2> QED BY <2>1, <2>2 DEF Sorted
<1>12. current' \in Nodes
  BY <1>6, <1>7, <1>1 DEF Nodes
<1> HIDE DEF p, q, acts, again
<1>13. /\ current' = NULL => acts = {}
       /\ current' # NULL => current' \in acts
       /\ UsesHeap /\ ~mixed => \A x \in acts : current' # NULL => NotAfter(current', x)
  BY <1>6, <1>7, <1>11
<1> QED BY <1>2, <1>7, <1>8, <1>9, <1>10, <1>12, <1>13 DEF acts

LEMMA HeapEmpty ==
  ASSUME NEW q \in Queues, NEW ord, q.root = NULL, q.left = NoLinks, q.right = NoLinks
  PROVE  Heap(q, {}, ord)
<1> DEFINE t == [x \in Nodes |-> {}]
<1>1. Subtrees(q, t, {}) /\ t[q.root] = {}
  BY DEF Subtrees, Nodes
<1>2. \A p \in Procs \ {} : q.left[p] = NULL /\ q.right[p] = NULL
  BY DEF NoLinks
<1> QED BY <1>1, <1>2, HeapOf DEF Kids, Sorted

LEMMA InitOK == Init => IInv
<1> SUFFICES ASSUME Init PROVE IInv
  OBVIOUS
<1>1. TypeInv
  <2>1. NULL \in Nodes /\ current = NULL /\ 1 \in Nat \ {0} /\ MAX_TIME_SLICE \in Nat \ {0}
    BY SchedAssumption DEF Init, Nodes, NULL, idle
  <2>2. /\ policy \in Policies /\ need_resched \in BOOLEAN /\ mixed \in BOOLEAN
        /\ time_slice \in Nat
    BY DEF Init
  <2>3. /\ state \in [Procs -> {"none", "sleeping", "runnable"}]
        /\ lab6_priority \in [Procs -> Nat \ {0}]
        /\ lab6_expected_runtime \in [Procs -> Nat \ {0}]
        /\ pass \in [Procs -> Nat]
    BY <2>1 DEF Init
  <2> QED BY <2>1, <2>2, <2>3 DEF TypeInv
<1>2. Active = {} /\ Ready = {} /\ SlotOK /\ Apart /\ ~panic
  BY DEF Init, Active, Ready, SlotOK, Apart
<1>3. rq \in Queues
  <2>1. NoLinks \in [Procs -> Nodes] /\ NULL \in Nodes /\ <<>> \in Seq(Procs)
    BY DEF NoLinks, Nodes
  <2> QED BY <2>1 DEF Init, Queues
<1>4. Listed(rq, {})
  <2>1. ToSet(<<>>) = {} /\ Len(<<>>) = 0
    BY DEF ToSet
  <2>2. Cardinality({}) = 0
    BY FS_EmptySet
  <2> QED BY <1>3, <2>1, <2>2 DEF Listed, Init
<1>5. Heap(rq, {}, ~mixed)
  BY <1>3, HeapEmpty DEF Init
<1>6. Spread
  BY <1>2 DEF Spread, Stride!Spread, Striding
<1> QED BY <1>1, <1>2, <1>4, <1>5, <1>6 DEF IInv, Queue

\* Where passes and running times stay as they are, the order does.
LEMMA NotAfterAlone ==
  ASSUME NEW R, policy' = policy,
         \A x \in R : pass'[x] = pass[x] /\ lab6_expected_runtime'[x] = lab6_expected_runtime[x]
  PROVE  \A p, q \in R : NotAfter(p, q) => NotAfter(p, q)'
<1> SUFFICES ASSUME NEW p \in R, NEW q \in R, NotAfter(p, q) PROVE NotAfter(p, q)'
  OBVIOUS
<1>1. CASE policy = "STRIDE"
  BY <1>1 DEF NotAfter
<1>2. CASE policy # "STRIDE"
  BY <1>2 DEF NotAfter, Less
<1> QED BY <1>1, <1>2

\* schedule() keeps the queue, whatever becomes of current.
LEMMA ScheduleCarried ==
  ASSUME IInv, NEW st \in [Procs -> {"none", "sleeping", "runnable"}], NEW ps \in [Procs -> Nat],
         \A x \in Procs \ {current} : st[x] = state[x] /\ ps[x] = pass[x],
         current # idle /\ st[current] = "runnable" => ps = pass,
         Schedule(st, ps),
         \A x \in Procs : st[x] = "runnable" =>
            lab6_expected_runtime'[x] = lab6_expected_runtime[x]
  PROVE  Queue(rq, Ready, ~mixed)'
<1> DEFINE acts == {x \in Procs : st[x] = "runnable"}
<1>1. /\ current' \in Nodes /\ Active' = acts /\ acts \subseteq Active
      /\ current' # NULL => current' \in acts
      /\ policy' = policy /\ mixed' = mixed
      /\ Queue(rq', Ready', ~mixed)
  BY ScheduleQueue
<1>2. Ready' = acts \ {current'}
  BY <1>1 DEF Ready
<1>3. ASSUME NEW x \in Ready' PROVE ps[x] = pass[x]
  <2>1. x \in Procs /\ st[x] = "runnable"
    BY <1>2
  <2>2. CASE x = current
    <3>1. current # idle
      BY <2>1, <2>2, Zero DEF idle, NULL
    <3> QED BY <2>1, <2>2, <3>1
  <2> QED BY <2>1, <2>2
<1>4. ASSUME NEW x \in Ready' PROVE pass'[x] = ps[x]
  <2>1. x # current' /\ x \in Procs
    BY <1>2
  <2>2. pass' = ps \/ pass' = [ps EXCEPT ![current'] = @ + Step(current')]
    BY DEF Schedule
  <2> QED BY <2>1, <2>2
<1>5. \A x \in Ready' : pass'[x] = pass[x] /\ lab6_expected_runtime'[x] = lab6_expected_runtime[x]
  BY <1>2, <1>3, <1>4
<1>6. \A p, q \in Ready' : NotAfter(p, q) => NotAfter(p, q)'
  BY <1>1, <1>5, NotAfterAlone
<1> QED BY <1>1, <1>6, Carried

\* What a process pays for running is at most BIG_STRIDE.
LEMMA StepSmall == ASSUME TypeInv, NEW p \in Procs PROVE Step(p) \in 0..BIG_STRIDE
<1>1. lab6_priority[p] \in Nat /\ lab6_priority[p] >= 1
  BY DEF TypeInv
<1>2. \A n \in Nat : n >= 1 => BIG_STRIDE \div n \in 0..BIG_STRIDE
  BY StrideAssumption
<1> QED BY <1>1, <1>2 DEF Step

\* The passes after those of E have gone.
Left(E) == [q \in Procs |-> IF q \in E THEN 0 ELSE pass[q]]

\* st is what schedule() finds: at most current has changed, and E is {current}
\* when it has ended.
Stopping(st, E) ==
  /\ st \in [Procs -> {"none", "sleeping", "runnable"}]
  /\ \A x \in Procs \ {current} : st[x] = state[x]
  /\ E \subseteq Procs \cap {current}
  /\ \A x \in E : st[x] # "runnable"

\* The new values of the slots.
SlotsKept(st) ==
  /\ lab6_priority' \in [Procs -> Nat \ {0}]
  /\ lab6_expected_runtime' \in [Procs -> Nat \ {0}]
  /\ \A x \in Procs : st[x] = "runnable" =>
        lab6_expected_runtime'[x] = lab6_expected_runtime[x]

LEMMA LeftFacts ==
  ASSUME TypeInv, NEW st, NEW E, Stopping(st, E)
  PROVE  /\ Left(E) \in [Procs -> Nat]
         /\ \A x \in Procs \ {current} : Left(E)[x] = pass[x]
         /\ \A x \in Procs : st[x] = "runnable" => Left(E)[x] = pass[x]
         /\ current # idle /\ st[current] = "runnable" => Left(E) = pass
<1>1. E \subseteq Procs
  BY DEF Stopping
<1>2. pass \in [Procs -> Nat]
  BY DEF TypeInv
<1>3. Left(E) \in [Procs -> Nat]
  BY <1>2 DEF Left
<1>4. ASSUME current # idle, st[current] = "runnable" PROVE Left(E) = pass
  <2>1. E = {}
    BY <1>4 DEF Stopping
  <2> QED BY <1>2, <2>1 DEF Left
<1>5. \A x \in Procs : x \notin E => Left(E)[x] = pass[x]
  BY DEF Left
<1> QED BY <1>3, <1>4, <1>5 DEF Stopping

\* schedule() keeps the invariant, but for Spread ...
LEMMA ScheduleGood ==
  ASSUME IInv, NEW st, NEW E, Stopping(st, E), Schedule(st, Left(E)), SlotsKept(st)
  PROVE  TypeInv' /\ ~panic' /\ SlotOK' /\ Apart' /\ Queue(rq, Ready, ~mixed)'
<1> DEFINE acts == {x \in Procs : st[x] = "runnable"}
           ps == Left(E)
           p == current'
<1>0. TypeInv /\ Apart /\ NULL \notin Procs /\ NULL = idle
  BY Zero DEF IInv, NULL, idle
<1>1. /\ ps \in [Procs -> Nat]
      /\ \A x \in Procs \ {current} : ps[x] = pass[x]
      /\ current # idle /\ st[current] = "runnable" => ps = pass
  BY <1>0, LeftFacts
<1>2. /\ st \in [Procs -> {"none", "sleeping", "runnable"}]
      /\ \A x \in Procs \ {current} : st[x] = state[x]
  BY DEF Stopping
<1>3. \A x \in Procs \ {current} : st[x] = state[x] /\ ps[x] = pass[x]
  BY <1>1, <1>2
<1>4. Queue(rq, Ready, ~mixed)'
  <2> HIDE DEF ps
  <2>1. \A x \in Procs : st[x] = "runnable" =>
            lab6_expected_runtime'[x] = lab6_expected_runtime[x]
    BY DEF SlotsKept
  <2>2. Schedule(st, ps)
    BY DEF ps
  <2> QED BY <1>1, <1>2, <1>3, <2>1, <2>2, ScheduleCarried
<1>5. /\ ~panic' /\ p \in Nodes /\ policy' = policy /\ mixed' = mixed
      /\ p # NULL => p \in acts
  <2> HIDE DEF ps
  <2>1. Schedule(st, ps)
    BY DEF ps
  <2> QED BY <1>1, <1>2, <1>3, <2>1, ScheduleQueue
<1>6. p # NULL => p \in Procs
  BY <1>5
<1>7. /\ state' = st /\ need_resched' = FALSE
      /\ time_slice' = IF p = NULL THEN 0 ELSE Slice(p)
      /\ pass' = IF p # NULL /\ policy = "STRIDE" THEN [ps EXCEPT ![p] = @ + Step(p)] ELSE ps
  BY DEF Schedule
<1> HIDE DEF ps, p, acts
<1>8. /\ p # NULL => Slice(p) \in Nat /\ Slice(p) > 0
      /\ p # NULL => Step(p) \in Nat
  <2>1. p # NULL => Step(p) \in 0..BIG_STRIDE
    BY <1>0, <1>6, StepSmall
  <2> QED BY <1>0, <1>6, <2>1, SliceNat, StrideAssumption
<1>9. time_slice' \in Nat /\ (p # NULL => time_slice' > 0)
  BY <1>7, <1>8
<1>10. pass' \in [Procs -> Nat]
  <2>1. CASE p # NULL /\ policy = "STRIDE"
    <3>1. ps[p] + Step(p) \in Nat
      BY <1>1, <1>6, <1>8, <2>1
    <3> QED BY <1>1, <1>7, <2>1, <3>1
  <2>2. CASE ~(p # NULL /\ policy = "STRIDE")
    BY <1>1, <1>7, <2>2
  <2> QED BY <2>1, <2>2
<1>11. TypeInv'
  <2>1. policy' \in Policies /\ mixed' \in BOOLEAN /\ need_resched' \in BOOLEAN
    BY <1>0, <1>5, <1>7 DEF TypeInv
  <2>2. state' \in [Procs -> {"none", "sleeping", "runnable"}] /\ current' \in Nodes
    BY <1>2, <1>5, <1>7 DEF p
  <2> QED BY <1>9, <1>10, <2>1, <2>2 DEF TypeInv, SlotsKept, Nodes
<1>12. SlotOK'
  <2>1. current' # idle => state'[current'] = "runnable" /\ time_slice' > 0
    BY <1>0, <1>5, <1>7, <1>9 DEF p, acts
  <2> QED BY <2>1 DEF SlotOK, idle
<1>13. Apart'
  <2> SUFFICES ASSUME policy # "STRIDE" PROVE ~mixed' /\ pass' = [q \in Procs |-> 0]
    BY <1>5 DEF Apart
  <2>1. ~mixed /\ pass = [q \in Procs |-> 0]
    BY <1>0 DEF Apart
  <2>2. ps = [q \in Procs |-> 0]
    BY <2>1 DEF ps, Left
  <2> QED BY <1>5, <1>7, <2>1, <2>2
<1> QED BY <1>4, <1>5, <1>11, <1>12, <1>13

\* ... and does what stride scheduling promises.
LEMMA ScheduleStride ==
  ASSUME IInv, NEW st, NEW E, Stopping(st, E), Schedule(st, Left(E)), SlotsKept(st)
  PROVE  [Stride!SNext]_(Stride!svars)
<1> DEFINE acts == {x \in Procs : st[x] = "runnable"}
           p == current'
<1>0. TypeInv /\ Apart /\ NULL \notin Procs
  BY Zero DEF IInv
<1>1. /\ Left(E) \in [Procs -> Nat]
      /\ \A x \in Procs \ {current} : st[x] = state[x] /\ Left(E)[x] = pass[x]
      /\ current # idle /\ st[current] = "runnable" => Left(E) = pass
      /\ st \in [Procs -> {"none", "sleeping", "runnable"}]
  BY <1>0, LeftFacts DEF Stopping
<1>2. /\ p \in Nodes /\ Active' = acts /\ acts \subseteq Active
      /\ p = NULL => acts = {}
      /\ p # NULL => p \in acts
      /\ policy' = policy /\ mixed' = mixed
      /\ UsesHeap /\ ~mixed => \A x \in acts : p # NULL => NotAfter(p, x)
  <2> DEFINE ps == Left(E)
  <2> HIDE DEF ps
  <2>1. Schedule(st, ps)
    BY DEF ps
  <2>2. ps \in [Procs -> Nat] /\ (\A x \in Procs \ {current} : st[x] = state[x] /\ ps[x] = pass[x])
        /\ (current # idle /\ st[current] = "runnable" => ps = pass)
    BY <1>1 DEF ps
  <2> QED BY <1>1, <2>1, <2>2, ScheduleQueue
<1>3. CASE policy # "STRIDE"
  <2>1. Striding = {} /\ Striding' = {} /\ mixed' = mixed
    BY <1>2, <1>3 DEF Striding
  <2>2. pass' = pass
    <3>1. Apart'
      BY ScheduleGood
    <3> QED BY <1>0, <1>2, <1>3, <3>1 DEF Apart
  <2> QED BY <2>1, <2>2 DEF Stride!svars
<1>4. CASE policy = "STRIDE"
  <2>1. Striding = Active /\ Striding' = acts
    BY <1>2, <1>4 DEF Striding
  <2>2. Left(E) = Stride!Cleared(E)
    BY DEF Left, Stride!Cleared
  <2>3. E \in SUBSET (Striding \ acts)
    <3>1. E \subseteq Procs /\ \A x \in E : x = current /\ x # NULL /\ x \notin acts
      BY <1>0 DEF Stopping
    <3>2. \A x \in E : x \in Active
      BY <1>0, <3>1 DEF Active, IInv, SlotOK, NULL, idle
    <3> QED BY <2>1, <3>1, <3>2
  <2>4. pass' = IF p = NULL THEN Left(E) ELSE [Left(E) EXCEPT ![p] = @ + Step(p)]
    BY <1>4 DEF Schedule
  <2>5. CASE p = NULL
    <3>1. Stride!Stop(E)
      BY <1>2, <2>1, <2>2, <2>4, <2>5 DEF Stride!Stop
    <3>2. E \in SUBSET Striding
      BY <2>3
    <3> QED BY <3>1, <3>2 DEF Stride!SNext
  <2>6. CASE p # NULL
    <3>1. p \in acts /\ acts \in SUBSET Striding /\ p \in Procs
      BY <1>2, <2>1, <2>6
    <3>2. ~mixed => \A q \in acts : pass[p] <= pass[q]
      BY <1>2, <1>4, <2>6 DEF NotAfter, UsesHeap
    <3> DEFINE d == Step(p)
    <3>3. d \in 0..BIG_STRIDE
      BY <1>0, <3>1, StepSmall
    <3>4. Stride!Run(p, acts, E, d)
      BY <1>2, <2>1, <2>2, <2>4, <2>6, <3>1, <3>2 DEF Stride!Run
    <3> HIDE DEF p, acts, d
    <3> QED BY <2>3, <3>1, <3>3, <3>4 DEF Stride!SNext
  <2> QED BY <2>5, <2>6
<1> QED BY <1>3, <1>4

\* enqueue of a process that comes to the ready ones.
LEMMA EnterGood ==
  ASSUME IInv, NEW p \in Procs, state[p] # "runnable", Enter(p)
  PROVE  /\ TypeInv' /\ ~panic' /\ SlotOK' /\ Apart' /\ Queue(rq, Ready, ~mixed)'
         /\ [Stride!SNext]_(Stride!svars)
<1>0. TypeInv /\ Apart /\ SlotOK /\ Spread /\ Queue(rq, Ready, ~mixed) /\ NULL = idle
      /\ NULL \notin Procs /\ Active \subseteq Procs
  BY Zero, ActiveFacts DEF IInv, NULL, idle
<1>1. /\ rq' = Enqueue(rq, p) /\ panic' = (p \in rq.in)
      /\ state' = [state EXCEPT ![p] = "runnable"]
      /\ mixed' = (mixed \/ (policy = "STRIDE" /\ \E q \in Active : ~Near(pass[p], pass[q])))
      /\ policy' = policy /\ current' = current /\ pass' = pass
      /\ need_resched' = need_resched /\ time_slice' = time_slice
      /\ lab6_priority' = lab6_priority /\ lab6_expected_runtime' = lab6_expected_runtime
  BY DEF Enter, slotVars
<1>2. /\ \A x \in Procs : state'[x] = IF x = p THEN "runnable" ELSE state[x]
      /\ state' \in [Procs -> {"none", "sleeping", "runnable"}]
  BY <1>0, <1>1 DEF TypeInv
<1>3. Active' = Active \cup {p} /\ p \notin Active /\ p # current
  <2>1. p # current
    BY <1>0 DEF SlotOK
  <2> QED BY <1>2, <2>1 DEF Active
<1>4. Ready' = Ready \cup {p} /\ p \in Procs \ Ready
  BY <1>1, <1>3 DEF Ready
<1>5. ~panic'
  BY <1>0, <1>1, <1>4 DEF Queue, Listed
<1>6. TypeInv'
  <2>1. mixed' \in BOOLEAN
    BY <1>0, <1>1 DEF TypeInv
  <2>2. Nodes' = Nodes
    BY DEF Nodes
  <2> QED BY <1>0, <1>1, <1>2, <2>1, <2>2 DEF TypeInv
<1>7. SlotOK'
  BY <1>0, <1>1, <1>2, <1>3 DEF SlotOK, idle, TypeInv, Nodes
<1>8. Apart'
  BY <1>0, <1>1 DEF Apart
<1>9. ~mixed' => ~mixed /\ (policy = "STRIDE" => \A q \in Active : Near(pass[p], pass[q]))
  BY <1>1
<1>10. UsesHeap /\ ~mixed' => Total(Ready \cup {p})
  <2> SUFFICES ASSUME UsesHeap, ~mixed' PROVE Total(Ready \cup {p})
    OBVIOUS
  <2>1. Ready \cup {p} \in SUBSET Procs
    BY <1>0, <1>4 DEF Ready
  <2>2. ASSUME policy = "STRIDE" PROVE \A x, y \in Ready \cup {p} : Near(pass[x], pass[y])
    <3>1. \A x, y \in Active : Near(pass[x], pass[y])
      BY <1>0, <1>9, <2>2 DEF Spread, Stride!Spread, Striding, Stride!Near, Near
    <3>2. \A x \in Active : Near(pass[p], pass[x]) /\ Near(pass[x], pass[p])
      BY <1>9, <2>2 DEF Near
    <3>3. Near(pass[p], pass[p])
      BY <1>0, StrideAssumption DEF Near, TypeInv
    <3> QED BY <3>1, <3>2, <3>3 DEF Ready
  <2> QED BY <1>0, <2>1, <2>2, Ordered
<1>11. Queue(rq, Ready, ~mixed')
  <2>1. Listed(rq, Ready) /\ (UsesHeap => Heap(rq, Ready, ~mixed))
    BY <1>0 DEF Queue
  <2>2. UsesHeap => Heap(rq, Ready, ~mixed')
    BY <1>9, <2>1 DEF Heap
  <2> QED BY <2>1, <2>2 DEF Queue
<1>12. Queue(rq', Ready', ~mixed')
  <2>1. mixed' \in BOOLEAN
    BY <1>6 DEF TypeInv
  <2>2. Queue(Enqueue(rq, p), Ready \cup {p}, ~mixed')
    BY <1>4, <1>10, <1>11, <2>1, EnqueueGood
  <2> QED BY <1>1, <1>4, <2>2
<1>13. Queue(rq, Ready, ~mixed)'
  <2>1. \A x, y \in Ready' : NotAfter(x, y) => NotAfter(x, y)'
    BY <1>1, NotAfterAlone
  <2> QED BY <1>1, <1>12, <2>1, Carried
<1>14. [Stride!SNext]_(Stride!svars)
  <2>1. CASE policy = "STRIDE"
    <3>1. Striding = Active /\ Striding' = Active \cup {p}
      BY <1>1, <1>3, <2>1 DEF Striding
    <3>2. mixed' = (mixed \/ \E q \in Striding : ~Stride!Near(pass[p], pass[q]))
      BY <1>1, <2>1, <3>1 DEF Near, Stride!Near
    <3>3. Stride!Join(p)
      BY <1>1, <1>3, <3>1, <3>2 DEF Stride!Join
    <3> QED BY <3>3 DEF Stride!SNext
  <2>2. CASE policy # "STRIDE"
    <3>1. Striding = {} /\ Striding' = {} /\ pass' = pass
      BY <1>1, <2>2 DEF Striding
    <3>2. mixed' = mixed
      <4>1. mixed \in BOOLEAN /\ mixed' \in BOOLEAN /\ (mixed' <=> mixed)
        BY <1>0, <1>1, <1>6, <2>2 DEF TypeInv
      <4> QED BY <4>1
    <3> QED BY <3>1, <3>2 DEF Stride!svars
  <2> QED BY <2>1, <2>2
<1> QED BY <1>5, <1>6, <1>7, <1>8, <1>13, <1>14

\* A step in which nobody comes, goes or changes places.
LEMMA StillGood ==
  ASSUME IInv, policy' = policy, state' = state, current' = current, rq' = rq,
         pass' = pass, mixed' = mixed, panic' = panic,
         need_resched' \in BOOLEAN, time_slice' \in Nat,
         lab6_priority' \in [Procs -> Nat \ {0}],
         lab6_expected_runtime' \in [Procs -> Nat \ {0}],
         \A x \in Procs \ {current} : lab6_expected_runtime'[x] = lab6_expected_runtime[x],
         current # idle /\ policy \notin {"FIFO", "SJF"} => time_slice' > 0 \/ need_resched'
  PROVE  /\ TypeInv' /\ ~panic' /\ SlotOK' /\ Apart' /\ Queue(rq, Ready, ~mixed)'
         /\ [Stride!SNext]_(Stride!svars)
<1>0. TypeInv /\ Apart /\ SlotOK /\ Queue(rq, Ready, ~mixed) /\ ~panic
  BY DEF IInv
<1>1. TypeInv'
  BY <1>0 DEF TypeInv, Nodes
<1>2. SlotOK'
  BY <1>0 DEF SlotOK
<1>3. Apart'
  BY <1>0 DEF Apart
<1>4. Active' = Active /\ Ready' = Ready /\ Striding' = Striding
  BY DEF Active, Ready, Striding
<1>5. Queue(rq', Ready', ~mixed')
  BY <1>0, <1>4
<1>6. \A x, y \in Ready' : NotAfter(x, y) => NotAfter(x, y)'
  <2>1. \A x \in Ready' : pass'[x] = pass[x] /\ lab6_expected_runtime'[x] = lab6_expected_runtime[x]
    BY <1>4 DEF Ready, Active
  <2> QED BY <2>1, NotAfterAlone
<1>7. Queue(rq, Ready, ~mixed)'
  BY <1>5, <1>6, Carried
<1>8. UNCHANGED Stride!svars
  BY <1>4 DEF Stride!svars
<1> QED BY <1>0, <1>1, <1>2, <1>3, <1>7, <1>8

LEMMA NextGood ==
  ASSUME IInv, [Next]_vars
  PROVE  /\ TypeInv' /\ ~panic' /\ SlotOK' /\ Apart' /\ Queue(rq, Ready, ~mixed)'
         /\ [Stride!SNext]_(Stride!svars)
<1> DEFINE Good == /\ TypeInv' /\ ~panic' /\ SlotOK' /\ Apart' /\ Queue(rq, Ready, ~mixed)'
                   /\ [Stride!SNext]_(Stride!svars)
<1>0. /\ TypeInv /\ SlotOK /\ NULL = idle /\ NULL \notin Procs
      /\ pass \in [Procs -> Nat] /\ state \in [Procs -> {"none", "sleeping", "runnable"}]
      /\ lab6_priority \in [Procs -> Nat \ {0}]
      /\ lab6_expected_runtime \in [Procs -> Nat \ {0}]
      /\ time_slice \in Nat /\ need_resched \in BOOLEAN
      /\ MAX_TIME_SLICE \in Nat \ {0}
  BY Zero, SchedAssumption DEF IInv, TypeInv, NULL, idle
<1>1. current # idle => current \in Procs
  BY <1>0 DEF TypeInv, Nodes
<1>2. CASE Resched
  <2>1. Left({}) = pass
    BY <1>0 DEF Left
  <2>2. Stopping(state, {}) /\ SlotsKept(state) /\ Schedule(state, Left({}))
    BY <1>0, <1>2, <2>1 DEF Stopping, SlotsKept, Resched, slotVars
  <2> QED BY <2>2, ScheduleGood, ScheduleStride
<1>3. CASE Sleep
  <2> DEFINE st == [state EXCEPT ![current] = "sleeping"]
  <2>1. Left({}) = pass
    BY <1>0 DEF Left
  <2>2. st \in [Procs -> {"none", "sleeping", "runnable"}] /\ \A x \in Procs \ {current} : st[x] = state[x]
    BY <1>0, <1>1, <1>3 DEF Sleep
  <2>3. Stopping(st, {})
    BY <2>2 DEF Stopping
  <2>4. SlotsKept(st) /\ Schedule(st, Left({}))
    BY <1>0, <1>3, <2>1 DEF SlotsKept, Sleep, slotVars
  <2> HIDE DEF st
  <2> QED BY <2>3, <2>4, ScheduleGood, ScheduleStride
<1>4. CASE Exit
  <2> DEFINE st == [state EXCEPT ![current] = "none"]
  <2>0. current \in Procs
    BY <1>1, <1>4 DEF Exit
  <2>1. Left({current}) = [pass EXCEPT ![current] = 0]
    BY <1>0 DEF Left
  <2>2. st \in [Procs -> {"none", "sleeping", "runnable"}] /\ (\A x \in Procs \ {current} : st[x] = state[x])
        /\ st[current] = "none"
    BY <1>0, <2>0
  <2>3. Stopping(st, {current})
    BY <2>0, <2>2 DEF Stopping
  <2>4. Schedule(st, Left({current}))
    BY <1>4, <2>1 DEF Exit
  <2>5. SlotsKept(st)
    <3>1. /\ lab6_priority' = [lab6_priority EXCEPT ![current] = 1]
          /\ lab6_expected_runtime' = [lab6_expected_runtime EXCEPT ![current] = MAX_TIME_SLICE]
      BY <1>4 DEF Exit
    <3>2. lab6_priority' \in [Procs -> Nat \ {0}] /\ lab6_expected_runtime' \in [Procs -> Nat \ {0}]
      BY <1>0, <2>0, <3>1
    <3>3. \A x \in Procs \ {current} : lab6_expected_runtime'[x] = lab6_expected_runtime[x]
      BY <1>0, <3>1
    <3> QED BY <2>2, <3>2, <3>3 DEF SlotsKept
  <2> HIDE DEF st
  <2> QED BY <2>3, <2>4, <2>5, ScheduleGood, ScheduleStride
<1>5. ASSUME NEW p \in Procs, Wakeup(p) \/ Fork(p) PROVE Good
  <2>1. state[p] # "runnable" /\ Enter(p)
    BY <1>5 DEF Wakeup, Fork
  <2> QED BY <2>1, EnterGood
<1>6. CASE Tick
  <2>1. /\ policy' = policy /\ state' = state /\ current' = current /\ rq' = rq
        /\ pass' = pass /\ mixed' = mixed /\ panic' = panic
        /\ lab6_priority' = lab6_priority /\ lab6_expected_runtime' = lab6_expected_runtime
    BY <1>6 DEF Tick, slotVars
  <2>2. CASE current = idle
    <3>1. need_resched' = TRUE /\ time_slice' = time_slice
      BY <1>6, <2>2 DEF Tick
    <3> QED BY <1>0, <2>1, <2>2, <3>1, StillGood
  <2>3. CASE current # idle
    <3> DEFINE left == IF time_slice > 0 THEN time_slice - 1 ELSE 0
    <3>1. left \in Nat /\ Slice(current) \in Nat /\ Slice(current) > 0
      BY <1>0, <1>1, <2>3, SliceNat
    <3>2. CASE policy \in {"FIFO", "SJF"}
      <4>1. need_resched' = need_resched /\ time_slice' = Slice(current)
        BY <1>6, <2>3, <3>2 DEF Tick
      <4> QED BY <1>0, <2>1, <3>1, <3>2, <4>1, StillGood
    <3>3. CASE policy \notin {"FIFO", "SJF"}
      <4>1. /\ time_slice' = IF left = 0 /\ policy = "PRIO_RR" THEN CalcTimeSlice(current) ELSE left
            /\ need_resched' = (need_resched \/ left = 0)
        BY <1>6, <2>3, <3>3 DEF Tick
      <4>2. policy = "PRIO_RR" => CalcTimeSlice(current) \in Nat
        BY <3>1 DEF Slice
      <4>3. need_resched' \in BOOLEAN
        BY <1>0, <4>1
      <4>4. left = 0 => need_resched'
        BY <4>1
      <4> HIDE DEF left
      <4>5. time_slice' \in Nat /\ (time_slice' > 0 \/ need_resched')
        BY <3>1, <4>1, <4>2, <4>4
      <4> QED BY <1>0, <2>1, <4>3, <4>5, StillGood
    <3> QED BY <3>2, <3>3
  <2> QED BY <2>2, <2>3
<1>7. CASE Yield
  <2>1. /\ policy' = policy /\ state' = state /\ current' = current /\ rq' = rq
        /\ pass' = pass /\ mixed' = mixed /\ panic' = panic
        /\ lab6_priority' = lab6_priority /\ lab6_expected_runtime' = lab6_expected_runtime
        /\ need_resched' = TRUE /\ time_slice' = time_slice
    BY <1>7 DEF Yield, slotVars
  <2> QED BY <1>0, <2>1, StillGood
<1>8. ASSUME NEW n \in Priorities, SetPriority(n) PROVE Good
  <2>1. /\ policy' = policy /\ state' = state /\ current' = current /\ rq' = rq
        /\ pass' = pass /\ mixed' = mixed /\ panic' = panic
        /\ lab6_expected_runtime' = lab6_expected_runtime
        /\ need_resched' = need_resched /\ time_slice' = time_slice
        /\ lab6_priority' = [lab6_priority EXCEPT ![current] = IF n = 0 THEN 1 ELSE n]
    BY <1>8 DEF SetPriority
  <2>2. (IF n = 0 THEN 1 ELSE n) \in Nat \ {0}
    BY SchedAssumption
  <2>3. lab6_priority' \in [Procs -> Nat \ {0}]
    BY <1>0, <2>1, <2>2
  <2> QED BY <1>0, <2>1, <2>3, StillGood DEF SlotOK
<1>9. ASSUME NEW n \in Runtimes, SetRuntime(n) PROVE Good
  <2>1. /\ policy' = policy /\ state' = state /\ current' = current /\ rq' = rq
        /\ pass' = pass /\ mixed' = mixed /\ panic' = panic
        /\ lab6_priority' = lab6_priority
        /\ need_resched' = need_resched /\ time_slice' = time_slice
        /\ lab6_expected_runtime' =
             [lab6_expected_runtime EXCEPT ![current] = IF n = 0 THEN MAX_TIME_SLICE ELSE n]
    BY <1>9 DEF SetRuntime
  <2>2. (IF n = 0 THEN MAX_TIME_SLICE ELSE n) \in Nat \ {0}
    BY <1>0, SchedAssumption
  <2>3. /\ lab6_expected_runtime' \in [Procs -> Nat \ {0}]
        /\ \A x \in Procs \ {current} : lab6_expected_runtime'[x] = lab6_expected_runtime[x]
    BY <1>0, <2>1, <2>2
  <2> QED BY <1>0, <2>1, <2>3, StillGood DEF SlotOK
<1>10. CASE UNCHANGED vars
  <2>1. /\ policy' = policy /\ state' = state /\ current' = current /\ rq' = rq
        /\ pass' = pass /\ mixed' = mixed /\ panic' = panic
        /\ lab6_priority' = lab6_priority /\ lab6_expected_runtime' = lab6_expected_runtime
        /\ need_resched' = need_resched /\ time_slice' = time_slice
    BY <1>10 DEF vars
  <2> QED BY <1>0, <2>1, StillGood DEF SlotOK
<1> QED BY <1>2, <1>3, <1>4, <1>5, <1>6, <1>7, <1>8, <1>9, <1>10 DEF Next

\* Picking the smallest pass keeps the passes together, because what it pays is
\* at most BIG_STRIDE.
LEMMA SpreadStep ==
  ASSUME TypeInv, Spread, [Stride!SNext]_(Stride!svars)
  PROVE  Spread'
<1>0. /\ Striding \subseteq Procs /\ \A q \in Procs : pass[q] \in Nat
      /\ pass \in [Procs -> Nat]
  BY DEF Striding, Active, TypeInv
<1>1. ~mixed => \A p, q \in Striding : Near(pass[p], pass[q])
  BY DEF Spread, Stride!Spread, Stride!Near, Near
<1>2. SUFFICES ASSUME ~mixed', NEW a \in Striding', NEW b \in Striding'
               PROVE  Near(pass'[a], pass'[b])
  BY DEF Spread, Stride!Spread, Stride!Near, Near
<1>3. ASSUME NEW p \in Procs, Stride!Join(p) PROVE Near(pass'[a], pass'[b])
  <2>1. ~mixed /\ pass' = pass /\ \A q \in Striding : Near(pass[p], pass[q])
    BY <1>2, <1>3 DEF Stride!Join, Stride!Near, Near
  <2>2. Near(pass[p], pass[p])
    BY <1>0, StrideAssumption DEF Near
  <2>3. a \in Striding \cup {p} /\ b \in Striding \cup {p}
    BY <1>3 DEF Stride!Join
  <2> QED BY <1>1, <2>1, <2>2, <2>3 DEF Near
<1>4. ASSUME NEW A \in SUBSET Striding, NEW E \in SUBSET (Striding \ A), NEW p \in A,
             NEW d \in 0..BIG_STRIDE, Stride!Run(p, A, E, d)
      PROVE  Near(pass'[a], pass'[b])
  <2>1. ~mixed /\ a \in A /\ b \in A /\ \A q \in A : pass[p] <= pass[q]
    BY <1>2, <1>4 DEF Stride!Run
  <2>2. \A q \in A : Stride!Cleared(E)[q] = pass[q]
    BY <1>0 DEF Stride!Cleared
  <2>3. \A q \in A : pass'[q] = IF q = p THEN pass[p] + d ELSE pass[q]
    BY <1>0, <1>4, <2>2 DEF Stride!Run, Stride!Cleared
  <2>4. \A q, u \in A : pass[q] - pass[u] <= BIG_STRIDE
    BY <1>1, <2>1 DEF Near
  <2>5. \A q \in A : pass[q] \in Nat
    BY <1>0
  <2> QED BY <2>1, <2>3, <2>4, <2>5, StrideAssumption DEF Near
<1>5. CASE \E E \in SUBSET Striding : Stride!Stop(E)
  BY <1>2, <1>5 DEF Stride!Stop
<1>6. CASE UNCHANGED Stride!svars
  <2>1. Striding' = Striding /\ pass' = pass /\ mixed' = mixed
    BY <1>6 DEF Stride!svars
  <2> QED BY <1>1, <1>2, <2>1
<1> QED BY <1>3, <1>4, <1>5, <1>6 DEF Stride!SNext

LEMMA StepOK == IInv /\ [Next]_vars => IInv'
<1> SUFFICES ASSUME IInv, [Next]_vars PROVE IInv'
  OBVIOUS
<1>1. /\ TypeInv' /\ ~panic' /\ SlotOK' /\ Apart' /\ Queue(rq, Ready, ~mixed)'
      /\ [Stride!SNext]_(Stride!svars)
  BY NextGood
<1>2. Spread'
  BY <1>1, SpreadStep DEF IInv
<1> QED BY <1>1, <1>2 DEF IInv

\* The links up in a heap match the links down.
LEMMA Upward ==
  ASSUME NEW q, NEW R, NEW ord, Heap(q, R, ord), NEW p \in R, p # q.root
  PROVE  q.parent[p] \in R /\ p \in {q.left[q.parent[p]], q.right[q.parent[p]]}
<1>1. PICK s : Subtrees(q, s, Procs) /\ s[q.root] = R
  BY DEF Heap
<1>2. /\ R \subseteq Procs /\ q.root \in Nodes /\ Kids(q, R) /\ NULL \notin Procs
      /\ Procs \subseteq Nodes /\ s[NULL] = {}
  BY <1>1, Zero DEF Heap, Queues, Nodes, Subtrees
<1>3. q.root \in R /\ q.root \in Procs
  BY <1>1, <1>2 DEF Nodes, Subtrees
<1> DEFINE above == {u \in R : u # p /\ p \in s[u]}
           T == {Cardinality(s[u]) : u \in above}
<1>4. T \in SUBSET Nat /\ T # {}
  <2>1. \A u \in above : Cardinality(s[u]) \in Nat
    BY <1>1, <1>2, SizeNat
  <2>2. q.root \in above
    BY <1>1, <1>3
  <2> QED BY <2>1, <2>2
<1>5. PICK u \in above : \A v \in above : Cardinality(s[u]) <= Cardinality(s[v])
  <2>1. PICK n \in T : \A m \in T : n <= m
    BY <1>4, LeastNat
  <2> QED BY <2>1
<1>6. u \in R /\ u \in Procs /\ u # p /\ p \in s[u]
  BY <1>2, <1>5
<1>7. PICK c \in {q.left[u], q.right[u]} : p \in s[c]
  BY <1>1, <1>6 DEF Subtrees
<1>8. c # NULL /\ c \in R /\ Cardinality(s[c]) < Cardinality(s[u])
  <2>1. c # NULL
    BY <1>2, <1>7
  <2>2. c \in s[u] /\ s[u] \subseteq R
    <3>1. c \in s[u]
      BY <1>1, <1>6, <1>7, <2>1, Nested
    <3>2. s[u] \subseteq s[q.root]
      BY <1>1, <1>3, <1>6, Nested
    <3> QED BY <1>1, <3>1, <3>2
  <2>3. Cardinality(s[c]) < Cardinality(s[u])
    BY <1>1, <1>6, <1>7, Smaller
  <2> QED BY <2>1, <2>2, <2>3
<1>9. c = p
  <2>1. SUFFICES ASSUME c # p PROVE FALSE
    OBVIOUS
  <2>2. c \in above
    BY <1>7, <1>8, <2>1
  <2>3. Cardinality(s[u]) <= Cardinality(s[c])
    BY <1>5, <2>2
  <2>4. Cardinality(s[u]) \in Nat /\ Cardinality(s[c]) \in Nat
    BY <1>1, <1>2, <1>6, <1>8, SizeNat
  <2> QED BY <1>8, <2>3, <2>4
<1>10. q.parent[p] = u
  BY <1>2, <1>6, <1>7, <1>8, <1>9 DEF Kids
<1> QED BY <1>6, <1>7, <1>9, <1>10

\* The parts of QueueOK that are about the heap.
LEMMA HeapShape ==
  ASSUME NEW q, NEW R, NEW ord, Heap(q, R, ord)
  PROVE  /\ q.root = NULL <=> R = {}
         /\ q.root # NULL => q.root \in R /\ q.parent[q.root] = NULL
         /\ \A p \in R : /\ \/ Cardinality({q.left[p], q.right[p]} \ {NULL}) = 2
                            \/ q.left[p] = NULL \/ q.right[p] = NULL
                         /\ \A c \in {q.left[p], q.right[p]} \ {NULL} : c \in R /\ q.parent[c] = p
         /\ ord => \A p \in R : NotAfter(q.root, p)
<1>1. PICK s : Subtrees(q, s, Procs) /\ s[q.root] = R /\ (ord => Sorted(s, R))
  BY DEF Heap
<1>2. /\ R \subseteq Procs /\ q.root \in Nodes /\ Kids(q, R) /\ NULL \notin Procs
      /\ s[NULL] = {}
  BY <1>1, Zero DEF Heap, Queues, Subtrees
<1>3. q.root # NULL => q.root \in R /\ q.root \in Procs
  BY <1>1, <1>2 DEF Nodes, Subtrees
<1>4. q.root = NULL <=> R = {}
  BY <1>1, <1>2, <1>3
<1>5. q.root # NULL => q.parent[q.root] = NULL
  BY DEF Heap
<1>6. ASSUME NEW p \in R, NEW c \in {q.left[p], q.right[p]} \ {NULL}
      PROVE  c \in R /\ q.parent[c] = p
  <2>1. c \in s[p]
    BY <1>1, <1>2, Nested
  <2>2. s[p] \subseteq s[q.root]
    <3>1. q.root \in Procs
      BY <1>3, <1>4
    <3> QED BY <1>1, <1>2, <3>1, Nested
  <2> QED BY <1>1, <1>2, <2>1, <2>2 DEF Kids
<1>7. ASSUME NEW p \in R, q.left[p] # NULL, q.right[p] # NULL
      PROVE  Cardinality({q.left[p], q.right[p]} \ {NULL}) = 2
  <2> DEFINE l == q.left[p]
             r == q.right[p]
  <2>1. l \in s[l] /\ r \in s[r] /\ s[l] \cap s[r] = {}
    <3>1. l \in s[l]
      BY <1>1, <1>2, <1>7, Nested
    <3>2. r \in s[r]
      BY <1>1, <1>2, <1>7, Nested
    <3> QED BY <1>1, <1>2, <3>1, <3>2 DEF Subtrees
  <2>2. l # r /\ {l, r} \ {NULL} = {l} \cup {r}
    BY <1>7, <2>1
  <2> HIDE DEF l, r
  <2>3. IsFiniteSet({l}) /\ Cardinality({l}) = 1
    BY FS_Singleton
  <2>4. Cardinality({l} \cup {r}) = 2
    BY <2>2, <2>3, FS_AddElement
  <2> QED BY <2>2, <2>4 DEF l, r
<1>8. ASSUME ord, NEW p \in R PROVE NotAfter(q.root, p)
  BY <1>1, <1>3, <1>4, <1>8 DEF Sorted
<1> QED BY <1>3, <1>4, <1>5, <1>6, <1>7, <1>8

LEMMA InvImplies == IInv => QueueOK
<1> SUFFICES ASSUME IInv PROVE QueueOK
  OBVIOUS
<1>1. ~panic /\ SlotOK /\ Listed(rq, Ready) /\ (UsesHeap => Heap(rq, Ready, ~mixed))
  BY DEF IInv, Queue
<1>2. /\ rq.in = Ready /\ ToSet(rq.run_list) = Ready
      /\ rq.proc_num = Cardinality(Ready) /\ Len(rq.run_list) = rq.proc_num
  BY <1>1 DEF Listed
<1>3. ASSUME UsesHeap
      PROVE  /\ rq.root = NULL <=> Ready = {}
             /\ rq.root # NULL => rq.root \in Ready /\ rq.parent[rq.root] = NULL
             /\ \A p \in Ready :
                  /\ Cardinality(Children(p)) = 2 \/ rq.left[p] = NULL \/ rq.right[p] = NULL
                  /\ \A c \in Children(p) : c \in Ready /\ rq.parent[c] = p
             /\ ~mixed => \A p \in Ready : NotAfter(rq.root, p)
  <2>1. Heap(rq, Ready, ~mixed)
    BY <1>1, <1>3
  <2> QED BY <2>1, HeapShape DEF Children
<1>4. ASSUME UsesHeap, NEW p \in Ready, p # rq.root
      PROVE  rq.parent[p] \in Ready /\ p \in Children(rq.parent[p])
  <2>1. Heap(rq, Ready, ~mixed)
    BY <1>1, <1>4
  <2>2. rq.parent[p] \in Ready /\ p \in {rq.left[rq.parent[p]], rq.right[rq.parent[p]]}
    BY <1>4, <2>1, Upward
  <2>3. p # NULL
    BY Zero DEF Ready, Active
  <2> QED BY <2>2, <2>3 DEF Children
<1> QED BY <1>1, <1>2, <1>3, <1>4 DEF QueueOK, SlotOK

LEMMA IInvCorrect == Spec => []IInv
BY InitOK, StepOK, PTL DEF Spec

\* The run queue of every class holds the processes that can run, but for the
\* current one, once each, and no assertion in enqueue or dequeue fails; the skew
\* heap that skew_heap_merge, insert and remove leave is a tree of the same
\* processes with matching parent links and the one to run next at its root.
THEOREM QueueCorrect == Spec => []QueueOK
BY IInvCorrect, InvImplies, PTL

\* Picking the smallest stride and adding BIG_STRIDE / priority keeps the strides
\* of those that can run within BIG_STRIDE, as proc_stride_comp_f needs, until
\* one comes in from farther away.
THEOREM SpreadCorrect == Spec => []Spread
<1>1. IInv => Spread
  BY DEF IInv
<1> QED BY <1>1, IInvCorrect, PTL

\* stride_enqueue, stride_dequeue and stride_pick_next, with strides that wrap
\* and a skew heap, run the process with the smallest pass: what stride
\* scheduling promises with passes that never wrap.
THEOREM StrideRefines == Spec => StrideRefinement
<1>1. Init => Stride!SInit
  BY DEF Init, Stride!SInit, Striding, Active
<1>2. IInv /\ [Next]_vars => [Stride!SNext]_(Stride!svars)
  BY NextGood
<1> QED BY <1>1, <1>2, IInvCorrect, PTL DEF Spec, StrideRefinement, Stride!SSpec
=============================================================================
