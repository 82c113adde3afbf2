-------------------------- MODULE CheckSyncProofs --------------------------
(***************************************************************************)
(* For any number of philosophers and any number of rounds.  The test with *)
(* semaphores: mutual exclusion, exact hand-over of the forks, no          *)
(* neighbours eating, and the refinement of the abstract problem.  Then    *)
(* check_sync as a whole, with what MonitorProofs shows of the other test. *)
(***************************************************************************)
EXTENDS CheckSync, TLAPS

Sems == [value : Nat, queue : Seq(Phil)]

LEMMA Neighbours ==
  ASSUME NEW i \in Phil
  PROVE  /\ LEFT(i) \in Phil /\ RIGHT(i) \in Phil
         /\ LEFT(RIGHT(i)) = i /\ RIGHT(LEFT(i)) = i
BY PhilAssumption DEF Phil, LEFT, RIGHT

LEMMA DownFacts ==
  ASSUME NEW x \in Sems, NEW p \in Phil
  PROVE  /\ down(x, p) \in Sems
         /\ x.value > 0 => /\ down(x, p).value = x.value - 1
                           /\ down(x, p).queue = x.queue
         /\ x.value = 0 => /\ down(x, p).value = 0
                           /\ down(x, p).queue = Append(x.queue, p)
                           /\ \A q : Waits(down(x, p), q) <=> Waits(x, q) \/ q = p
<1>1. /\ x.value \in Nat /\ x.queue \in Seq(Phil)
      /\ x = [value |-> x.value, queue |-> x.queue]
  BY DEF Sems
<1>2. CASE x.value > 0
  BY <1>1, <1>2 DEF down, Sems
<1>3. CASE x.value = 0
  <2> DEFINE y == down(x, p)
  <2>1. y.value = 0 /\ y.queue = Append(x.queue, p) /\ y \in Sems
    BY <1>1, <1>3 DEF down, Sems
  <2>2. /\ Len(x.queue) \in Nat /\ Len(y.queue) = Len(x.queue) + 1
        /\ y.queue[Len(x.queue) + 1] = p
        /\ \A k \in 1..Len(x.queue) : y.queue[k] = x.queue[k]
    BY <1>1, <2>1
  <2> HIDE DEF y
  <2>3. ASSUME NEW q PROVE Waits(y, q) <=> Waits(x, q) \/ q = p
    BY <2>2 DEF Waits
  <2> QED BY <1>3, <2>1, <2>3 DEF y
<1> QED BY <1>1, <1>2, <1>3

LEMMA UpFacts ==
  ASSUME NEW x \in Sems
  PROVE  /\ up(x) \in Sems
         /\ x.queue = <<>> => /\ up(x).value = x.value + 1
                              /\ up(x).queue = <<>>
         /\ x.queue # <<>> => /\ up(x).value = x.value
                              /\ up(x).queue = Tail(x.queue)
                              /\ \A q : Waits(up(x), q) => Waits(x, q)
                              /\ \A q : Waits(x, q) /\ ~Waits(up(x), q)
                                          => q = Head(x.queue)
<1>1. /\ x.value \in Nat /\ x.queue \in Seq(Phil)
      /\ x = [value |-> x.value, queue |-> x.queue]
  BY DEF Sems
<1>2. CASE x.queue = <<>>
  BY <1>1, <1>2 DEF up, Sems
<1>3. CASE x.queue # <<>>
  <2> DEFINE y == up(x)
  <2>1. y.value = x.value /\ y.queue = Tail(x.queue) /\ y \in Sems
    BY <1>1, <1>3 DEF up, Sems
  <2>2. /\ Len(x.queue) \in Nat /\ Len(x.queue) > 0
        /\ Len(y.queue) = Len(x.queue) - 1 /\ Head(x.queue) = x.queue[1]
        /\ \A k \in 1..(Len(x.queue) - 1) : y.queue[k] = x.queue[k + 1]
    BY <1>1, <1>3, <2>1
  <2> HIDE DEF y
  <2>3. ASSUME NEW q, Waits(y, q) PROVE Waits(x, q)
    BY <2>2, <2>3 DEF Waits
  <2>4. ASSUME NEW q, Waits(x, q), q # Head(x.queue) PROVE Waits(y, q)
    <3>1. PICK k \in 1..Len(x.queue) : x.queue[k] = q
      BY <2>4 DEF Waits
    <3>2. k - 1 \in 1..Len(y.queue) /\ y.queue[k - 1] = q
      BY <2>2, <2>4, <3>1
    <3> QED BY <3>2 DEF Waits
  <2> QED BY <1>3, <2>1, <2>3, <2>4 DEF y
<1> QED BY <1>1, <1>2, <1>3

-----------------------------------------------------------------------------
(***************************************************************************)
(* The inductive invariant: who sleeps where, which states go with which   *)
(* labels, and that a decision taken under mutex still holds when it is    *)
(* carried out.                                                            *)
(***************************************************************************)

\* mutex is closed while somebody is inside; who queues for it is on the way in.
MutexInv ==
  /\ MutexOK /\ mutex.value \in {0, 1}
  /\ \A i \in Phil : InCS(i) => mutex.value = 0
  /\ \A i \in Phil : Waits(mutex, i) => pc[i] \in {"hungry", "put"}

\* Only philosopher i sleeps on s[i], and only before eating.
SemInv ==
  \A i \in Phil :
    /\ s[i].queue = <<>> \/ s[i].queue = <<i>>
    /\ s[i].queue = <<i>> => pc[i] = "eat" /\ s[i].value = 0
    /\ s[i].value = 1 => pc[i] \in {"test", "grant", "acquire"}

StateInv ==
  \A i \in Phil :
    /\ pc[i] \in {"think", "hungry"} => state_sema[i] = "THINKING"
    /\ state_sema[i] = "HUNGRY" => pc[i] \in {"test", "grant", "acquire", "eat"}
    /\ pc[i] \in {"acquire", "eat"} => state_sema[i] # "THINKING"

GrantInv ==
  \A i \in Phil : pc[i] = "grant" => todo[i] # <<>> /\ MayEat(Head(todo[i]))

NeighboursInv ==
  \A i \in Phil : state_sema[i] = "EATING" /\ state_sema[RIGHT(i)] = "EATING"
                    => i = RIGHT(i)

IInv == /\ TypeOK /\ MutexInv /\ SemInv /\ StateInv /\ GrantOK /\ GrantInv
        /\ NeighboursInv

LEMMA Sleepers ==
  ASSUME IInv, NEW i \in Phil
  PROVE  /\ Waits(s[i], i) <=> s[i].queue = <<i>>
         /\ s[i] \in Sems /\ mutex \in Sems
<1>1. s[i] \in Sems /\ mutex \in Sems
  BY DEF IInv, TypeOK, Sems
<1>2. CASE s[i].queue = <<>>
  <2>1. Len(s[i].queue) = 0 /\ s[i].queue # <<i>>
    BY <1>2
  <2> QED BY <1>1, <2>1 DEF Waits
<1>3. CASE s[i].queue = <<i>>
  <2>1. Len(s[i].queue) = 1 /\ s[i].queue[1] = i
    BY <1>3
  <2> QED BY <1>1, <1>3, <2>1 DEF Waits
<1> QED BY <1>2, <1>3, <1>1 DEF IInv, SemInv

LEMMA InitOK == Init => IInv
<1> USE PhilAssumption
<1> SUFFICES ASSUME Init PROVE IInv
  OBVIOUS
<1>1. TypeOK
  BY DEF Init, TypeOK, sem_init
<1>2. /\ \A p : ~Waits(mutex, p)
      /\ \A i \in Phil : s[i].queue = <<>> /\ s[i].value = 0
  BY DEF Init, sem_init, Waits
<1>3. MutexInv
  BY <1>2 DEF Init, MutexInv, MutexOK, InCS, sem_init
<1>4. SemInv /\ StateInv /\ GrantInv
  BY <1>2 DEF Init, SemInv, StateInv, GrantInv
<1>5. GrantOK
  BY <1>2 DEF Init, GrantOK, HoldsForks
<1>6. NeighboursInv
  BY Neighbours DEF Init, NeighboursInv
<1> QED BY <1>1, <1>3, <1>4, <1>5, <1>6 DEF IInv

\* Steps that touch neither the semaphores nor state_sema.
LEMMA TestSteps ==
  ASSUME IInv, NEW i \in Phil, TestYes(i) \/ TestNo(i)
  PROVE  IInv'
<1>1. TypeOK'
  <2>1. CASE TestYes(i)
    BY <2>1 DEF IInv, TypeOK, TestYes, Goto
  <2>2. CASE TestNo(i)
    <3>1. Tail(todo[i]) \in Seq(Phil)
      BY <2>2 DEF IInv, TypeOK, TestNo
    <3> QED BY <2>2, <3>1 DEF IInv, TypeOK, TestNo
  <2> QED BY <2>1, <2>2
<1>2. \A j \in Phil : InCS(j)' <=> InCS(j)
  BY DEF IInv, TypeOK, TestYes, TestNo, Goto, At, InCS
<1>3. \A j \in Phil : HoldsForks(j)' <=> HoldsForks(j)
  BY DEF IInv, TypeOK, TestYes, TestNo, Goto, At, HoldsForks
<1>4. MutexInv'
  BY ZenonT(60), <1>2 DEF IInv, MutexInv, MutexOK, TestYes, TestNo, Goto, At, TypeOK
<1>5. SemInv' /\ StateInv'
  BY ZenonT(60) DEF IInv, TypeOK, SemInv, StateInv, TestYes, TestNo, Goto, At
<1>6. GrantOK'
  BY <1>3 DEF IInv, GrantOK, TestYes, TestNo
<1>7. GrantInv'
  BY DEF IInv, TypeOK, GrantInv, MayEat, TestYes, TestNo, Goto, At
<1>8. NeighboursInv'
  BY DEF IInv, NeighboursInv, TestYes, TestNo
<1> QED BY <1>1, <1>4, <1>5, <1>6, <1>7, <1>8 DEF IInv

\* Entering the critical section.
LEMMA EnterSteps ==
  ASSUME IInv, NEW i \in Phil, Take(i) \/ Put(i)
  PROVE  IInv'
<1>1. /\ mutex \in Sems /\ mutex' = down(mutex, i) /\ s' = s
      /\ ~Waits(mutex, i) /\ DOMAIN pc = Phil
  BY Sleepers DEF Take, Put, At, IInv, TypeOK
<1>2. mutex' \in Sems
  BY <1>1, DownFacts
<1>3. TypeOK'
  <2>1. Take(i) => iter' \in [Phil -> 0..TIMES]
    BY PhilAssumption DEF IInv, TypeOK, Take
  <2> QED BY <1>2, <2>1 DEF IInv, TypeOK, Take, Put, Goto, Sems
<1>4. /\ pc' = [pc EXCEPT ![i] = "hungry"] \/ pc' = [pc EXCEPT ![i] = "put"]
      /\ pc[i] \in {"think", "eat"}
  BY DEF Take, Put, Goto, At
<1>5. MutexInv'
  <2>1. CASE mutex.value = 0
    <3>1. /\ mutex'.value = 0
          /\ \A q : Waits(mutex', q) <=> Waits(mutex, q) \/ q = i
      BY <1>1, <2>1, DownFacts
    <3>2. \A j \in Phil : InCS(j)' => InCS(j)
      BY <1>1, <1>4, <3>1 DEF InCS
    <3> QED BY <1>1, <1>4, <3>1, <3>2 DEF IInv, MutexInv, MutexOK
  <2>2. CASE mutex.value = 1
    <3>1. /\ mutex'.value = 0
          /\ \A q : Waits(mutex', q) <=> Waits(mutex, q)
      BY <1>1, <2>2, DownFacts DEF Waits
    <3>2. \A j \in Phil : InCS(j)' => j = i
      BY <1>1, <1>4, <2>2, <3>1 DEF InCS, IInv, MutexInv
    <3> QED BY <1>1, <1>4, <3>1, <3>2 DEF IInv, MutexInv, MutexOK
  <2> QED BY <2>1, <2>2 DEF IInv, MutexInv
<1>6. \A j \in Phil : HoldsForks(j)' <=> HoldsForks(j)
  BY DEF IInv, TypeOK, Take, Put, Goto, At, HoldsForks
<1>7. GrantOK'
  BY <1>6 DEF IInv, GrantOK, Take, Put
<1>8. SemInv'
  <2>1. s[i].queue # <<i>>
    BY Sleepers DEF Take, Put, At
  <2> QED BY <1>1, <1>4, <2>1 DEF IInv, SemInv
<1>9. StateInv' /\ GrantInv' /\ NeighboursInv'
  <2>1. /\ pc[i] = "think" => state_sema[i] = "THINKING"
        /\ pc[i] = "eat" => state_sema[i] = "EATING"
    <3>1. pc[i] = "eat" => HoldsForks(i) /\ s[i].value = 0
      BY DEF Take, Put, At, HoldsForks, IInv, GrantOK, SemInv
    <3> QED BY <3>1 DEF IInv, StateInv, GrantOK
  <2> QED BY ZenonT(60), <1>4, <2>1 DEF IInv, TypeOK, StateInv, GrantInv, MayEat, NeighboursInv,
             Take, Put, Goto, At
<1> QED BY <1>3, <1>5, <1>7, <1>8, <1>9 DEF IInv

\* The steps taken inside: whoever takes one is alone.
LEMMA Alone ==
  ASSUME IInv, NEW i \in Phil, At(i, "hungry") \/ At(i, "test") \/ At(i, "grant")
                                 \/ At(i, "put"),
         NEW j \in Phil, j # i
  PROVE  /\ InCS(i) /\ mutex.value = 0 /\ ~InCS(j)
         /\ pc[j] \notin {"test", "grant"}
BY DEF At, InCS, IInv, MutexInv, MutexOK

LEMMA HungryStep ==
  ASSUME IInv, NEW i \in Phil, Hungry(i)
  PROVE  IInv'
<1>1. TypeOK'
  <2>1. <<i>> \in Seq(Phil)
    OBVIOUS
  <2> QED BY <2>1 DEF IInv, TypeOK, Hungry, Goto
<1>2. \A j \in Phil : (InCS(j)' <=> InCS(j)) /\ (HoldsForks(j)' <=> HoldsForks(j))
  BY DEF IInv, TypeOK, Hungry, Goto, At, InCS, HoldsForks
<1>3. MutexInv'
  BY <1>2 DEF IInv, MutexInv, MutexOK, Hungry, Goto, At, TypeOK
<1>4. SemInv' /\ StateInv'
  BY DEF IInv, TypeOK, SemInv, StateInv, Hungry, Goto, At
<1>5. GrantOK'
  BY <1>2 DEF IInv, TypeOK, GrantOK, StateInv, Hungry, At
<1>6. GrantInv'
  BY Alone DEF IInv, TypeOK, GrantInv, Hungry, Goto
<1>7. NeighboursInv'
  BY Neighbours DEF IInv, TypeOK, NeighboursInv, Hungry
<1> QED BY <1>1, <1>3, <1>4, <1>5, <1>6, <1>7 DEF IInv

LEMMA PutDownStep ==
  ASSUME IInv, NEW i \in Phil, PutDown(i)
  PROVE  IInv'
<1>0. LEFT(i) \in Phil /\ RIGHT(i) \in Phil
  BY Neighbours
<1>1. TypeOK'
  <2>1. <<LEFT(i), RIGHT(i)>> \in Seq(Phil)
    BY <1>0
  <2> QED BY <2>1 DEF IInv, TypeOK, PutDown, Goto
<1>2. \A j \in Phil : /\ InCS(j)' <=> InCS(j)
                      /\ HoldsForks(j)' <=> HoldsForks(j) /\ j # i
  BY DEF IInv, TypeOK, PutDown, Goto, At, InCS, HoldsForks
<1>3. MutexInv'
  BY <1>2 DEF IInv, MutexInv, MutexOK, PutDown, Goto, At, TypeOK
<1>4. SemInv' /\ StateInv'
  BY DEF IInv, TypeOK, SemInv, StateInv, PutDown, Goto, At
<1>5. GrantOK'
  BY <1>2 DEF IInv, TypeOK, GrantOK, SemInv, PutDown, At
<1>6. GrantInv'
  BY Alone DEF IInv, TypeOK, GrantInv, PutDown, Goto
<1>7. NeighboursInv'
  BY Neighbours DEF IInv, TypeOK, NeighboursInv, PutDown
<1> QED BY <1>1, <1>3, <1>4, <1>5, <1>6, <1>7 DEF IInv

\* The forks are given to t, which is hungry and does not hold them yet.
LEMMA GrantStep ==
  ASSUME IInv, NEW i \in Phil, Grant(i)
  PROVE  IInv'
<1>1. PICK t \in Phil : /\ t = Head(todo[i]) /\ MayEat(t)
                         /\ Tail(todo[i]) \in Seq(Phil)
  BY SMTT(30) DEF IInv, TypeOK, GrantInv, Grant, At
<1>2. /\ pc' = [pc EXCEPT ![i] = "test"] /\ pc[i] = "grant" /\ mutex' = mutex
      /\ s' = [s EXCEPT ![t] = up(@)] /\ iter' = iter
      /\ state_sema' = [state_sema EXCEPT ![t] = "EATING"]
      /\ todo' = [todo EXCEPT ![i] = Tail(@)]
  BY <1>1 DEF Grant, Goto, At
<1>3. s[t] \in Sems /\ (Waits(s[t], t) <=> s[t].queue = <<t>>)
  BY <1>1, Sleepers
<1>4. up(s[t]) \in Sems
  BY <1>3, UpFacts
<1>5. TypeOK'
  BY <1>1, <1>2, <1>4 DEF IInv, TypeOK, Sems
<1>6. /\ state_sema[t] = "HUNGRY" /\ ~HoldsForks(t) /\ s[t].value = 0
      /\ pc[t] \in {"test", "grant", "acquire", "eat"}
  BY <1>1 DEF MayEat, IInv, GrantOK, StateInv, SemInv, HoldsForks, TypeOK
<1>7. \/ /\ s[t].queue = <<t>> /\ s'[t].queue = <<>> /\ s'[t].value = 0
         /\ pc[t] = "eat"
      \/ /\ s[t].queue = <<>> /\ s'[t].queue = <<>> /\ s'[t].value = 1
         /\ pc[t] # "eat"
  <2>0. s'[t] = up(s[t])
    BY <1>1, <1>2 DEF IInv, TypeOK
  <2>1. CASE s[t].queue = <<t>>
    <3>1. s[t].queue # <<>> /\ Tail(s[t].queue) = <<>>
      BY <2>1, <1>1
    <3> QED BY <2>0, <2>1, <3>1, <1>1, <1>3, <1>6, UpFacts DEF IInv, SemInv
  <2>2. CASE s[t].queue = <<>>
    <3>1. s[t].queue # <<t>>
      BY <2>2
    <3>2. pc[t] # "eat"
      BY <1>3, <1>6, <3>1 DEF HoldsForks
    <3> QED BY <2>0, <2>2, <3>2, <1>3, <1>6, UpFacts
  <2> QED BY <1>1, <2>1, <2>2 DEF IInv, SemInv
<1>8. \A j \in Phil : j # t => s'[j] = s[j] /\ state_sema'[j] = state_sema[j]
  BY <1>1, <1>2 DEF IInv, TypeOK
<1>9. MutexInv'
  <2>1. \A j \in Phil : InCS(j)' <=> InCS(j)
    BY <1>2 DEF IInv, TypeOK, InCS
  <2> QED BY <1>2, <2>1 DEF IInv, TypeOK, MutexInv, MutexOK
<1>10. \A j \in Phil : pc'[j] = pc[j] \/ (pc[j] = "grant" /\ pc'[j] = "test")
  BY <1>2 DEF IInv, TypeOK
<1>11. SemInv'
  <2>1. <<>> # <<t>>
    OBVIOUS
  <2> QED BY <1>6, <1>7, <1>8, <1>10, <2>1 DEF IInv, SemInv
<1>12. state_sema'[t] = "EATING"
  BY <1>1, <1>2 DEF IInv, TypeOK
<1>13. StateInv'
  BY <1>6, <1>8, <1>10, <1>12 DEF IInv, StateInv
<1>14. GrantOK'
  <2>1. ~Waits(s'[t], t)
    <3>1. Len(s'[t].queue) = 0
      BY <1>7
    <3> QED BY <3>1 DEF Waits
  <2>2. \A j \in Phil : j # t => (HoldsForks(j)' <=> HoldsForks(j))
    BY <1>8, <1>10 DEF HoldsForks
  <2>3. HoldsForks(t)' <=> pc[t] = "eat"
    BY <1>1, <1>6, <1>10, <2>1 DEF HoldsForks
  <2> QED BY <1>7, <1>8, <1>12, <2>2, <2>3 DEF IInv, GrantOK
<1>15. GrantInv'
  <2>1. \A j \in Phil : pc'[j] # "grant"
    BY ZenonT(60), <1>2, Alone DEF IInv, TypeOK, Grant
  <2> QED BY <2>1 DEF GrantInv
<1>16. NeighboursInv'
  BY <1>1, <1>8, Neighbours DEF IInv, NeighboursInv, MayEat
<1> QED BY <1>5, <1>9, <1>11, <1>13, <1>14, <1>15, <1>16 DEF IInv

\* up(&mutex) lets at most the first in the queue in.
LEMMA LeaveStep ==
  ASSUME IInv, NEW i \in Phil, Leave(i)
  PROVE  IInv'
<1>1. /\ mutex \in Sems /\ mutex' = up(mutex) /\ s' = s /\ state_sema' = state_sema
      /\ ~Waits(mutex, i) /\ ~Waits(s[i], i) /\ pc[i] = "test" /\ todo' = todo
      /\ pc' = [pc EXCEPT ![i] = IF state_sema[i] = "THINKING" THEN "think"
                                 ELSE "acquire"]
  BY Sleepers DEF Leave, At, Goto
<1>2. mutex' \in Sems
  BY <1>1, UpFacts
<1>3. TypeOK'
  BY <1>1, <1>2 DEF IInv, TypeOK, Leave, Sems
<1>4. /\ \A j \in Phil : j # i => pc'[j] = pc[j]
      /\ pc'[i] \in {"think", "acquire"}
      /\ pc'[i] = "think" <=> state_sema[i] = "THINKING"
  BY <1>1 DEF IInv, TypeOK
<1>5. mutex.value = 0 /\ \A j \in Phil : j # i => ~InCS(j)
  BY <1>1 DEF IInv, MutexInv, MutexOK, InCS
<1>6. MutexInv'
  <2>1. CASE mutex.queue = <<>>
    <3>0. Len(mutex.queue) = 0
      BY <2>1
    <3>1. /\ mutex'.value = 1 /\ \A q : ~Waits(mutex', q) /\ ~Waits(mutex, q)
      BY <1>1, <1>5, <2>1, <3>0, UpFacts DEF Waits
    <3>2. \A j \in Phil : ~InCS(j)'
      BY <1>4, <1>5, <3>1 DEF InCS
    <3> QED BY <3>1, <3>2 DEF MutexInv, MutexOK
  <2>2. CASE mutex.queue # <<>>
    <3>1. /\ mutex'.value = 0
          /\ \A q : Waits(mutex', q) => Waits(mutex, q)
          /\ \A q : Waits(mutex, q) /\ ~Waits(mutex', q) => q = Head(mutex.queue)
      BY <1>1, <1>5, <2>2, UpFacts
    <3>2. \A j \in Phil : InCS(j)' => j = Head(mutex.queue)
      BY <1>4, <1>5, <3>1 DEF InCS
    <3>3. \A j \in Phil : Waits(mutex', j) => pc'[j] \in {"hungry", "put"}
      BY <1>1, <1>4, <3>1 DEF IInv, MutexInv
    <3> QED BY <3>1, <3>2, <3>3 DEF MutexInv, MutexOK
  <2> QED BY <2>1, <2>2
<1>7. \A j \in Phil : HoldsForks(j)' <=> HoldsForks(j)
  BY <1>1, <1>4 DEF HoldsForks
<1>8. GrantOK'
  BY <1>1, <1>7 DEF IInv, GrantOK
<1>9. SemInv'
  <2>1. s[i].value = 1 => state_sema[i] = "EATING"
    BY <1>1 DEF IInv, GrantOK, HoldsForks
  <2> QED BY <1>1, <1>4, <2>1 DEF IInv, SemInv
<1>10. StateInv' /\ GrantInv' /\ NeighboursInv'
  BY <1>1, <1>4 DEF IInv, TypeOK, StateInv, GrantInv, MayEat, NeighboursInv
<1> QED BY <1>3, <1>6, <1>8, <1>9, <1>10 DEF IInv

\* down(&s[i]): the forks are there, or i waits for them.
LEMMA AcquireStep ==
  ASSUME IInv, NEW i \in Phil, Acquire(i)
  PROVE  IInv'
<1>1. /\ s[i] \in Sems /\ s' = [s EXCEPT ![i] = down(@, i)] /\ mutex' = mutex
      /\ state_sema' = state_sema /\ todo' = todo /\ iter' = iter
      /\ ~Waits(mutex, i) /\ ~Waits(s[i], i) /\ pc[i] = "acquire"
      /\ pc' = [pc EXCEPT ![i] = "eat"] /\ s[i].queue # <<i>>
  BY Sleepers DEF Acquire, At, Goto
<1>2. down(s[i], i) \in Sems
  BY <1>1, DownFacts
<1>3. TypeOK'
  BY <1>1, <1>2 DEF IInv, TypeOK, Sems
<1>4. /\ \A j \in Phil : j # i => pc'[j] = pc[j] /\ s'[j] = s[j]
      /\ pc'[i] = "eat" /\ s'[i] = down(s[i], i)
  BY <1>1 DEF IInv, TypeOK
<1>5. MutexInv'
  <2>1. \A j \in Phil : InCS(j)' <=> InCS(j)
    BY <1>1, <1>4 DEF InCS
  <2> QED BY <1>1, <1>4, <2>1 DEF IInv, MutexInv, MutexOK
<1>6. \/ s[i].value = 1 /\ s'[i].value = 0 /\ s'[i].queue = <<>>
      \/ s[i].value = 0 /\ s'[i].value = 0 /\ s'[i].queue = <<i>> /\ Waits(s'[i], i)
  <2>1. s[i].queue = <<>>
    BY <1>1 DEF IInv, SemInv
  <2>2. Append(<<>>, i) = <<i>>
    OBVIOUS
  <2> QED BY <1>1, <1>4, <2>1, <2>2, DownFacts DEF IInv, GrantOK
<1>7. SemInv'
  <2>1. <<>> # <<i>>
    OBVIOUS
  <2> QED BY <1>4, <1>6, <2>1 DEF IInv, SemInv
<1>8. GrantOK'
  <2>1. s'[i].queue = <<>> => ~Waits(s'[i], i)
    <3>1. s'[i].queue = <<>> => Len(s'[i].queue) = 0
      OBVIOUS
    <3> QED BY <3>1 DEF Waits
  <2>2. HoldsForks(i)' <=> s[i].value = 1
    BY <1>4, <1>6, <2>1 DEF HoldsForks
  <2>3. \A j \in Phil : j # i => (HoldsForks(j)' <=> HoldsForks(j))
    BY <1>4 DEF HoldsForks
  <2>4. ~HoldsForks(i)
    BY <1>1 DEF HoldsForks
  <2> QED BY <1>1, <1>4, <1>6, <2>2, <2>3, <2>4 DEF IInv, GrantOK
<1>9. StateInv' /\ GrantInv' /\ NeighboursInv'
  BY <1>1, <1>4 DEF IInv, StateInv, GrantInv, MayEat, NeighboursInv
<1> QED BY <1>3, <1>5, <1>7, <1>8, <1>9 DEF IInv

LEMMA StepOK == IInv /\ [Next]_vars => IInv'
<1> SUFFICES ASSUME IInv, [Next]_vars PROVE IInv'
  OBVIOUS
<1>1. CASE UNCHANGED vars
  BY <1>1 DEF vars, IInv, TypeOK, MutexInv, MutexOK, InCS, SemInv, StateInv, GrantOK,
              HoldsForks, GrantInv, MayEat, NeighboursInv
<1>2. ASSUME NEW i \in Phil, Step(i) PROVE IInv'
  BY <1>2, TestSteps, EnterSteps, HungryStep, PutDownStep, GrantStep, LeaveStep,
     AcquireStep DEF Step
<1> QED BY <1>1, <1>2 DEF Next, Done

LEMMA Inductive == Spec => []IInv
BY InitOK, StepOK, PTL DEF Spec

-----------------------------------------------------------------------------
\* For any number of philosophers, the variables stay in their ranges (the
\* semaphore counters of sem.c never go below zero).
THEOREM TypeCorrect == Spec => []TypeOK
<1>1. IInv => TypeOK
  BY DEF IInv
<1> QED BY <1>1, Inductive, PTL

\* down/up of mutex (sem.c), hand-over included, admit one thread at a time.
THEOREM MutexCorrect == Spec => []MutexOK
<1>1. IInv => MutexOK
  BY DEF IInv, MutexInv
<1> QED BY <1>1, Inductive, PTL

\* phi_test_sema gives the forks exactly once: EATING is set exactly while a
\* unit of s[i] is on its way to philosopher i or has reached it.
THEOREM GrantCorrect == Spec => []GrantOK
<1>1. IInv => GrantOK
  BY DEF IInv
<1> QED BY <1>1, Inductive, PTL

\* Neighbours never eat at the same time (phi_take_forks_sema, phi_put_forks_sema).
THEOREM ExclusionCorrect == Spec => []NoNeighboursEat
<1>1. IInv => NoNeighboursEat
  <2> SUFFICES ASSUME IInv, NEW i \in Phil, HoldsForks(i), HoldsForks(RIGHT(i))
               PROVE  i = RIGHT(i)
    BY DEF NoNeighboursEat
  <2>1. \A j \in Phil : HoldsForks(j) => state_sema[j] = "EATING"
    BY DEF IInv, GrantOK, SemInv, HoldsForks
  <2> QED BY <2>1, Neighbours DEF IInv, NeighboursInv
<1> QED BY <1>1, Inductive, PTL

\* phi_test_sema decides under mutex, hands the forks over on s[i] exactly
\* once, and so keeps neighbours from eating together.
THEOREM SemaCorrect == Spec => []SemaOK
<1>1. MutexOK /\ GrantOK /\ NoNeighboursEat => SemaOK
  BY DEF SemaOK
<1> QED BY <1>1, MutexCorrect, GrantCorrect, ExclusionCorrect, PTL

\* check_sync.c implements the abstract problem: every change of state_sema
\* is a philosopher getting hungry, being given both forks, or returning them.
THEOREM RefinementCorrect == Spec => DiningRefinement
<1>1. Init => Dining!Init
  BY DEF Init, Dining!Init, Phil, Dining!Phil
<1>2. IInv /\ [Next]_vars => [Dining!Next]_state_sema
  <2> SUFFICES ASSUME IInv, [Next]_vars, state_sema' # state_sema
               PROVE  Dining!Next
    OBVIOUS
  <2>1. PICK i \in Phil : Step(i)
    BY DEF Next, Done, vars
  <2>2. Dining!Phil = Phil
    BY DEF Phil, Dining!Phil
  <2>3. CASE Hungry(i)
    <3>1. Dining!Hungry(i)
      BY <2>3 DEF Hungry, At, IInv, StateInv, Dining!Hungry
    <3> QED BY <2>2, <3>1 DEF Dining!Next
  <2>4. CASE PutDown(i)
    <3>1. HoldsForks(i) /\ s[i].value = 0
      BY <2>4 DEF PutDown, At, HoldsForks, IInv, GrantOK, SemInv
    <3>2. Dining!Done(i)
      BY <2>4, <3>1 DEF PutDown, IInv, GrantOK, Dining!Done
    <3> QED BY <2>2, <3>2 DEF Dining!Next
  <2>5. CASE Grant(i)
    <3>1. /\ Head(todo[i]) \in Phil /\ MayEat(Head(todo[i]))
      BY <2>5 DEF IInv, TypeOK, GrantInv, Grant, At
    <3>2. Dining!Eat(Head(todo[i]))
      BY <2>5, <3>1 DEF Grant, MayEat, Dining!Eat, Dining!Free, Dining!LEFT,
         Dining!RIGHT, LEFT, RIGHT
    <3> QED BY <2>2, <3>1, <3>2 DEF Dining!Next
  <2> QED BY <2>1, <2>3, <2>4, <2>5 DEF Step, Take, TestYes, TestNo, Leave, Acquire, Put
<1> QED BY <1>1, <1>2, Inductive, PTL DEF Spec, DiningRefinement, Dining!Spec

-----------------------------------------------------------------------------
(***************************************************************************)
(* Both tests, one after the other.                                        *)
(***************************************************************************)

Mon == INSTANCE MonitorProofs WITH
  mutex <- mt_mutex, next <- mt_next, next_count <- mt_next_count,
  cv <- mt_cv, count <- mt_count, pc <- mt_pc, iter <- mt_iter, todo <- mt_todo

\* Every step of check_sync is one of the first test's or leaves it alone.
LEMMA RunsSema == CSpec => Spec
<1>1. CInit => Init
  BY DEF CInit
<1>2. [CNext]_allVars => [Next]_vars
  BY DEF CNext, allVars, StartSecond, AllDone, SemaStep, MonitorStep, Next
<1> QED BY <1>1, <1>2, PTL DEF CSpec, Spec

\* MonitorProofs speaks of the same steps as CheckSync.
LEMMA SameStep ==
  ASSUME NEW i \in Phil, Monitor!Step(i) PROVE Mon!Step(i)
<1> USE DEF Monitor!At, Mon!At, Monitor!Asleep, Mon!Asleep, Monitor!Waits, Mon!Waits,
            Monitor!Goto, Mon!Goto, Monitor!down, Mon!down, Monitor!up, Mon!up,
            Monitor!mt, Mon!mt
<1>1. Monitor!Take(i) => Mon!Take(i)
  BY DEF Monitor!Take, Mon!Take
<1>2. Monitor!Hungry(i) => Mon!Hungry(i)
  BY DEF Monitor!Hungry, Mon!Hungry
<1>3. Monitor!TestYes(i) => Mon!TestYes(i)
  BY DEF Monitor!TestYes, Mon!TestYes, Monitor!MayEat, Mon!MayEat,
         Monitor!LEFT, Mon!LEFT, Monitor!RIGHT, Mon!RIGHT
<1>4. Monitor!TestNo(i) => Mon!TestNo(i)
  BY DEF Monitor!TestNo, Mon!TestNo, Monitor!MayEat, Mon!MayEat,
         Monitor!LEFT, Mon!LEFT, Monitor!RIGHT, Mon!RIGHT
<1>5. Monitor!Grant(i) => Mon!Grant(i)
  BY DEF Monitor!Grant, Mon!Grant
<1>6. Monitor!SignalUp(i) => Mon!SignalUp(i)
  BY DEF Monitor!SignalUp, Mon!SignalUp
<1>7. Monitor!SignalNone(i) => Mon!SignalNone(i)
  BY DEF Monitor!SignalNone, Mon!SignalNone
<1>8. Monitor!SignalDown(i) => Mon!SignalDown(i)
  BY DEF Monitor!SignalDown, Mon!SignalDown
<1>9. Monitor!SignalRet(i) => Mon!SignalRet(i)
  BY DEF Monitor!SignalRet, Mon!SignalRet
<1>10. Monitor!StillHungry(i) => Mon!StillHungry(i)
  BY DEF Monitor!StillHungry, Mon!StillHungry, Monitor!cond_wait, Mon!cond_wait,
         Monitor!PassOn, Mon!PassOn
<1>11. Monitor!WaitDown(i) => Mon!WaitDown(i)
  BY DEF Monitor!WaitDown, Mon!WaitDown
<1>12. Monitor!WaitRet(i) => Mon!WaitRet(i)
  BY DEF Monitor!WaitRet, Mon!WaitRet
<1>13. Monitor!BodyDone(i) => Mon!BodyDone(i)
  BY DEF Monitor!BodyDone, Mon!BodyDone
<1>14. Monitor!Leave(i) => Mon!Leave(i)
  BY DEF Monitor!Leave, Mon!Leave, Monitor!PassOn, Mon!PassOn
<1>15. Monitor!Put(i) => Mon!Put(i)
  BY DEF Monitor!Put, Mon!Put
<1>16. Monitor!PutDown(i) => Mon!PutDown(i)
  BY DEF Monitor!PutDown, Mon!PutDown, Monitor!LEFT, Mon!LEFT,
         Monitor!RIGHT, Mon!RIGHT
<1> QED BY <1>1, <1>2, <1>3, <1>4, <1>5, <1>6, <1>7, <1>8, <1>9, <1>10, <1>11,
           <1>12, <1>13, <1>14, <1>15, <1>16 DEF Monitor!Step, Mon!Step

\* Likewise for the second test.
LEMMA RunsMonitor == CSpec => Mon!Spec
<1>1. CInit => Mon!Init
  BY DEF CInit, Monitor!Init, Mon!Init, Monitor!sem_init, Mon!sem_init,
         Monitor!Phil, Mon!Phil
<1>2. [CNext]_allVars => [Mon!Next]_(Mon!vars)
  <2>1. ASSUME NEW i \in Phil, MonitorStep(i) PROVE Mon!Next
    BY <2>1, SameStep DEF MonitorStep, Mon!Next, Phil, Mon!Phil
  <2> QED BY <2>1 DEF CNext, allVars, mtVars, StartSecond, AllDone, SemaStep,
                      Mon!vars, Mon!mt
<1> QED BY <1>1, <1>2, PTL DEF CSpec, Mon!Spec

\* During the whole of check_sync the semaphores are sound: one thread inside,
\* forks handed over once, no two neighbours eating.
THEOREM CheckSyncSema == CSpec => []SemaOK /\ DiningRefinement
BY RunsSema, SemaCorrect, RefinementCorrect, PTL

\* During the whole of check_sync the monitor has one owner or is on its way to
\* one, its counters are right, and a signalled philosopher may eat.
THEOREM CheckSyncMonitor == CSpec => []MonitorOK
<1>1. Mon!MonitorOK => MonitorOK
  <2> USE DEF Monitor!Phil, Mon!Phil
  <2>1. Mon!TypeOK => Monitor!TypeOK
    BY DEF Monitor!TypeOK, Mon!TypeOK
  <2>2. ASSUME NEW i PROVE Monitor!Asleep(i) <=> Mon!Asleep(i)
    BY DEF Monitor!Asleep, Mon!Asleep, Monitor!Waits, Mon!Waits
  <2>3. Monitor!Active = Mon!Active
    BY <2>2 DEF Monitor!Active, Mon!Active
  <2>4. Monitor!Handed = Mon!Handed
    BY DEF Monitor!Handed, Mon!Handed
  <2>5. ASSUME NEW S PROVE Monitor!Cardinality(S) = Mon!Cardinality(S)
    BY DEF Monitor!Cardinality, Mon!Cardinality
  <2>6. Mon!BatonOK => Monitor!BatonOK
    BY <2>3, <2>4, <2>5 DEF Monitor!BatonOK, Mon!BatonOK
  <2>7. Mon!NextCountOK => Monitor!NextCountOK
    BY <2>5 DEF Monitor!NextCountOK, Mon!NextCountOK
  <2>8. Mon!SignalledEats => Monitor!SignalledEats
    BY <2>2 DEF Monitor!SignalledEats, Mon!SignalledEats
  <2> QED BY <2>1, <2>6, <2>7, <2>8 DEF MonitorOK, Monitor!MonitorOK, Mon!MonitorOK
<1>2. Mon!Spec => []Mon!MonitorOK
  BY Mon!MonitorCorrect, PhilAssumption
<1> QED BY <1>1, <1>2, RunsMonitor, PTL

\* The condition variables' state array implements the abstract problem during
\* the whole of check_sync.
THEOREM CheckSyncDining == CSpec => MonitorDining
<1>1. Mon!Spec => Mon!DiningRefinement
  BY Mon!MonitorRefines, PhilAssumption
<1>2. Mon!DiningRefinement => MonitorDining
  <2>1. Mon!Dining!Init => Monitor!Dining!Init
    BY DEF Mon!Dining!Init, Monitor!Dining!Init, Mon!Dining!Phil, Monitor!Dining!Phil
  <2>2. [Mon!Dining!Next]_state_condvar => [Monitor!Dining!Next]_state_condvar
    BY DEF Mon!Dining!Next, Monitor!Dining!Next, Mon!Dining!Phil, Monitor!Dining!Phil,
           Mon!Dining!Hungry, Monitor!Dining!Hungry, Mon!Dining!Eat, Monitor!Dining!Eat,
           Mon!Dining!Done, Monitor!Dining!Done, Mon!Dining!Free, Monitor!Dining!Free,
           Mon!Dining!LEFT, Monitor!Dining!LEFT, Mon!Dining!RIGHT, Monitor!Dining!RIGHT
  <2> QED BY <2>1, <2>2, PTL DEF MonitorDining, Monitor!DiningRefinement,
         Mon!DiningRefinement, Monitor!Dining!Spec, Mon!Dining!Spec
<1> QED BY <1>1, <1>2, RunsMonitor, PTL
=============================================================================
