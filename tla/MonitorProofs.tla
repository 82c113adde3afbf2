--------------------------- MODULE MonitorProofs ---------------------------
(***************************************************************************)
(* For any number of philosophers and any number of rounds: the monitor    *)
(* has one owner and is never lost, its counters are right, a signalled    *)
(* thread owns its forks, and the abstract problem is refined.             *)
(***************************************************************************)
EXTENDS PhilMonitor, FiniteSetTheorems, TLAPS

Sems == [value : 0..1, queue : Seq(Phil)]

\* Nobody sleeps twice, and nobody at all while there is a unit.
Orderly(x) ==
  /\ \A j, k \in 1..Len(x.queue) : x.queue[j] = x.queue[k] => j = k
  /\ x.queue # <<>> => x.value = 0

\* Who sleeps where, and from which call.
QueueInv ==
  /\ Orderly(mutex) /\ Orderly(next)
  /\ \A i \in Phil : Waits(mutex, i) => pc[i] \in {"hungry", "put"}
  /\ \A i \in Phil : Waits(next, i) => pc[i] = "sig_ret"
  /\ \A i \in Phil : /\ Orderly(cv[i])
                     /\ \A j \in Phil : Waits(cv[i], j) => j = i /\ pc[i] = "cv_ret"

\* A condition variable counts its philosopher from before it leaves the monitor
\* until it is back inside.
CountInv ==
  \A i \in Phil : count[i] = IF pc[i] \in {"cv_down", "cv_ret"} THEN 1 ELSE 0

Inside == {"hungry", "test", "grant", "signal", "sig_ret", "cv_ret", "leave", "put"}
InMonitor(i) == ~Asleep(i) /\ pc[i] \in Inside

\* Whoever has the monitor is the only one, and nothing is on its way.
OwnerInv ==
  \A i \in Phil : InMonitor(i) =>
    /\ mutex.value = 0 /\ next.value = 0
    /\ \A j \in Phil : cv[j].value = 0
    /\ \A j \in Phil : InMonitor(j) => j = i

\* A unit on its way is the only one.
UnitInv ==
  /\ mutex.value = 1 => next.value = 0 /\ \A j \in Phil : cv[j].value = 0
  /\ next.value = 1 => \A j \in Phil : cv[j].value = 0
  /\ \A i, j \in Phil : cv[i].value = 1 /\ cv[j].value = 1 => i = j

\* The monitor is somewhere.
NotLost == \/ mutex.value = 1 \/ next.value = 1
           \/ \E i \in Phil : cv[i].value = 1 \/ InMonitor(i)

\* What a philosopher's state is, where it stands.
StateInv ==
  \A i \in Phil :
    /\ pc[i] \in {"think", "hungry"} => state_condvar[i] = "THINKING"
    /\ pc[i] \in {"eat", "put"} => state_condvar[i] = "EATING"
    /\ pc[i] \in {"sig_down", "sig_ret"} =>
         state_condvar[i] = "THINKING" /\ todo[i] # <<>>
    /\ pc[i] = "leave" => state_condvar[i] # "HUNGRY"
    /\ pc[i] \in {"cv_down", "cv_ret"} => state_condvar[i] # "THINKING"
    /\ pc[i] \in {"test", "grant", "signal"} /\ state_condvar[i] # "THINKING"
         => todo[i] \in {<<>>, <<i>>}
    /\ pc[i] = "test" /\ state_condvar[i] = "EATING" => todo[i] = <<>>
    /\ cv[i].value = 1 => pc[i] = "cv_down" /\ state_condvar[i] = "EATING"

\* The test on behalf of a philosopher still holds when its state is set, and
\* the state when it is signalled.
GrantInv ==
  \A i \in Phil :
    /\ pc[i] = "grant" => todo[i] # <<>> /\ MayEat(Head(todo[i]))
    /\ pc[i] = "signal" => todo[i] # <<>> /\ state_condvar[Head(todo[i])] = "EATING"

\* Whoever is at the end of its down(&cv.sem) and does not sleep may eat.
SignalledInv ==
  \A i \in Phil : pc[i] = "cv_ret" /\ ~Waits(cv[i], i) => state_condvar[i] = "EATING"

\* Where everybody and the monitor are, and what the philosophers' states say.
PlaceInv == QueueInv /\ OwnerInv /\ UnitInv /\ NotLost
EatInv == StateInv /\ GrantInv /\ SignalledInv
IInv == TypeOK /\ PlaceInv /\ CountInv /\ EatInv /\ NextCountOK

-----------------------------------------------------------------------------
(***************************************************************************)
(* Semaphores and the table.                                               *)
(***************************************************************************)

LEMMA Neighbours ==
  ASSUME NEW i \in Phil PROVE LEFT(i) \in Phil /\ RIGHT(i) \in Phil
BY PhilAssumption DEF Phil, LEFT, RIGHT

\* y is x after up(): a unit more, or one sleeper less.
Passed(x, y) ==
  /\ y \in Sems /\ Orderly(y)
  /\ \/ /\ \A q \in Phil : ~Waits(x, q) /\ ~Waits(y, q)
        /\ y.value = 1
     \/ /\ \E h \in Phil : /\ Waits(x, h)
                           /\ \A q \in Phil : Waits(y, q) <=> Waits(x, q) /\ q # h
        /\ y.value = 0

\* y is x after down(): a unit less, or p asleep.
Taken(x, y, p) ==
  /\ y \in Sems /\ Orderly(y) /\ y.value = 0
  /\ \/ x.value = 1 /\ \A q \in Phil : Waits(y, q) <=> Waits(x, q)
     \/ x.value = 0 /\ \A q \in Phil : Waits(y, q) <=> Waits(x, q) \/ q = p

LEMMA DownTakes ==
  ASSUME NEW x \in Sems, Orderly(x), NEW p \in Phil, ~Waits(x, p)
  PROVE  Taken(x, down(x, p), p)
<1>1. /\ x.value \in {0, 1} /\ x.queue \in Seq(Phil) /\ Len(x.queue) \in Nat
      /\ x = [value |-> x.value, queue |-> x.queue]
  BY DEF Sems
<1> DEFINE y == down(x, p)
<1>2. CASE x.value = 1
  <2>1. y = [value |-> 0, queue |-> x.queue]
    BY <1>1, <1>2 DEF down
  <2>2. y.value = 0 /\ y.queue = x.queue /\ y \in Sems
    BY <2>1, <1>1 DEF Sems
  <2>3. x.queue = <<>> /\ Len(x.queue) = 0
    BY <1>2 DEF Orderly
  <2> HIDE DEF y
  <2>4. Orderly(y) /\ \A q \in Phil : Waits(y, q) <=> Waits(x, q)
    BY <2>2, <2>3 DEF Orderly, Waits
  <2> QED BY <1>2, <2>2, <2>4 DEF Taken, y
<1>3. CASE x.value = 0
  <2>1. y = [value |-> 0, queue |-> Append(x.queue, p)]
    BY <1>1, <1>3 DEF down, Sems
  <2>2. y.value = 0 /\ y.queue = Append(x.queue, p) /\ y \in Sems
    BY <2>1, <1>1 DEF Sems
  <2>3. /\ Len(y.queue) = Len(x.queue) + 1
        /\ y.queue[Len(x.queue) + 1] = p
        /\ \A k \in 1..Len(x.queue) : y.queue[k] = x.queue[k]
    BY <1>1, <2>2
  <2> HIDE DEF y
  <2>4. \A q \in Phil : Waits(y, q) <=> Waits(x, q) \/ q = p
    BY <1>1, <2>3 DEF Waits
  <2>5. \A k \in 1..Len(x.queue) : x.queue[k] # p
    BY DEF Waits
  <2>6. Orderly(y)
    BY <1>1, <2>2, <2>3, <2>5 DEF Orderly
  <2> QED BY <1>3, <2>2, <2>4, <2>6 DEF Taken, y
<1> QED BY <1>1, <1>2, <1>3

LEMMA UpPasses ==
  ASSUME NEW x \in Sems, Orderly(x), x.value = 0
  PROVE  Passed(x, up(x))
<1>1. /\ x.value \in {0, 1} /\ x.queue \in Seq(Phil) /\ Len(x.queue) \in Nat
      /\ x = [value |-> x.value, queue |-> x.queue]
  BY DEF Sems
<1> DEFINE y == up(x)
<1>2. CASE x.queue = <<>>
  <2>1. y = [value |-> 1, queue |-> x.queue]
    BY <1>1, <1>2 DEF up
  <2>2. y.value = 1 /\ y.queue = x.queue /\ y \in Sems /\ Len(x.queue) = 0
    BY <1>1, <1>2, <2>1 DEF Sems
  <2> HIDE DEF y
  <2>3. Orderly(y) /\ \A q \in Phil : ~Waits(x, q) /\ ~Waits(y, q)
    BY <1>2, <2>2 DEF Orderly, Waits
  <2> QED BY <2>2, <2>3 DEF Passed, y
<1>3. CASE x.queue # <<>>
  <2> DEFINE h == Head(x.queue)
  <2>1. y = [value |-> 0, queue |-> Tail(x.queue)]
    BY <1>1, <1>3 DEF up
  <2>2. y.value = 0 /\ y.queue = Tail(x.queue) /\ y \in Sems
    BY <2>1, <1>1, <1>3 DEF Sems
  <2>3. /\ Len(x.queue) > 0 /\ h = x.queue[1] /\ h \in Phil
        /\ Len(y.queue) = Len(x.queue) - 1
        /\ \A k \in 1..(Len(x.queue) - 1) : y.queue[k] = x.queue[k + 1]
    BY <1>1, <1>3, <2>2
  <2> HIDE DEF y, h
  <2>4. Orderly(y)
    <3>1. ASSUME NEW j \in 1..Len(y.queue), NEW k \in 1..Len(y.queue),
                 y.queue[j] = y.queue[k]
          PROVE  j = k
      <4>1. /\ j + 1 \in 1..Len(x.queue) /\ k + 1 \in 1..Len(x.queue)
            /\ x.queue[j + 1] = x.queue[k + 1]
        BY <1>1, <2>3, <3>1
      <4>2. j + 1 = k + 1
        BY <4>1 DEF Orderly
      <4> QED BY <4>2
    <3> QED BY <3>1, <2>2 DEF Orderly
  <2>5. Waits(x, h) /\ ~Waits(y, h)
    <3>1. 1 \in 1..Len(x.queue) /\ x.queue[1] = h
      BY <1>1, <2>3
    <3>2. ASSUME NEW k \in 1..Len(y.queue), y.queue[k] = h PROVE FALSE
      <4>1. k + 1 \in 1..Len(x.queue) /\ x.queue[k + 1] = h
        BY <1>1, <2>3, <3>2
      <4>2. k + 1 = 1
        BY <4>1, <3>1 DEF Orderly
      <4> QED BY <4>2
    <3> QED BY <3>1, <3>2 DEF Waits
  <2>6. ASSUME NEW q \in Phil, Waits(y, q) PROVE Waits(x, q)
    BY <1>1, <2>3, <2>6 DEF Waits
  <2>7. ASSUME NEW q \in Phil, Waits(x, q), q # h PROVE Waits(y, q)
    <3>1. PICK k \in 1..Len(x.queue) : x.queue[k] = q
      BY <2>7 DEF Waits
    <3>2. k - 1 \in 1..Len(y.queue) /\ y.queue[k - 1] = q
      BY <1>1, <2>3, <2>7, <3>1
    <3> QED BY <3>2 DEF Waits
  <2>8. \A q \in Phil : Waits(y, q) <=> Waits(x, q) /\ q # h
    BY <2>5, <2>6, <2>7
  <2>9. \E g \in Phil : /\ Waits(x, g)
                        /\ \A q \in Phil : Waits(y, q) <=> Waits(x, q) /\ q # g
    BY <2>3, <2>5, <2>8
  <2> QED BY <2>2, <2>4, <2>9 DEF Passed, y
<1> QED BY <1>2, <1>3

-----------------------------------------------------------------------------
(***************************************************************************)
(* Where everybody is.                                                     *)
(***************************************************************************)

LEMMA SemTypes ==
  ASSUME TypeOK
  PROVE  /\ mutex \in Sems /\ next \in Sems /\ mutex.value \in {0, 1}
         /\ next.value \in {0, 1}
         /\ \A i \in Phil : cv[i] \in Sems /\ cv[i].value \in {0, 1}
BY DEF TypeOK, Sems

\* At these places nobody sleeps, so whoever is there has the monitor.
LEMMA Alone ==
  ASSUME PlaceInv, NEW i \in Phil, InMonitor(i), NEW j \in Phil,
         pc[j] \in {"test", "grant", "signal", "leave"}
  PROVE  j = i
BY DEF PlaceInv, QueueInv, OwnerInv, InMonitor, Inside, Asleep

LEMMA InitOK == Init => IInv
<1> USE PhilAssumption
<1> SUFFICES ASSUME Init PROVE IInv
  OBVIOUS
<1>1. TypeOK
  BY DEF Init, TypeOK, sem_init
<1>2. /\ mutex.value = 1 /\ next.value = 0 /\ mutex.queue = <<>> /\ next.queue = <<>>
      /\ \A i \in Phil : cv[i].value = 0 /\ cv[i].queue = <<>>
  BY DEF Init, sem_init
<1>3. ASSUME NEW x, x.queue = <<>> PROVE Orderly(x) /\ \A q : ~Waits(x, q)
  <2>1. Len(x.queue) = 0
    BY <1>3
  <2> QED BY <1>3, <2>1 DEF Orderly, Waits
<1>4. QueueInv
  BY <1>2, <1>3 DEF QueueInv
<1>5. OwnerInv /\ UnitInv /\ NotLost
  BY <1>2 DEF Init, OwnerInv, UnitInv, NotLost, InMonitor, Inside
<1>6. CountInv /\ EatInv
  BY <1>2 DEF Init, CountInv, EatInv, StateInv, GrantInv, SignalledInv
<1>7. NextCountOK
  <2>1. {i \in Phil : pc[i] \in {"sig_down", "sig_ret"}} = {}
    BY DEF Init
  <2> QED BY <2>1, FS_EmptySet DEF Init, NextCountOK
<1> QED BY <1>1, <1>4, <1>5, <1>6, <1>7 DEF IInv, PlaceInv

\* The owner goes on inside.
LEMMA Stays ==
  ASSUME TypeOK, PlaceInv, NEW i \in Phil, InMonitor(i), NEW k \in Inside,
         Goto(i, k), UNCHANGED <<mutex, next, cv>>
  PROVE  PlaceInv'
<1>1. ~Waits(mutex, i) /\ ~Waits(next, i) /\ ~Waits(cv[i], i)
  BY DEF InMonitor, Asleep
<1>2. \A j \in Phil : pc'[j] = IF j = i THEN k ELSE pc[j]
  BY DEF Goto, TypeOK
<1>3. QueueInv'
  BY <1>1, <1>2 DEF PlaceInv, QueueInv
<1>4. \A j \in Phil : InMonitor(j)' <=> InMonitor(j)
  BY <1>2 DEF InMonitor, Asleep
<1>5. OwnerInv' /\ UnitInv' /\ NotLost'
  BY <1>4 DEF PlaceInv, OwnerInv, UnitInv, NotLost
<1> QED BY <1>3, <1>5 DEF PlaceInv

\* down(&mutex), the way in.
LEMMA Enters ==
  ASSUME TypeOK, PlaceInv, NEW i \in Phil, NEW k \in {"hungry", "put"},
         pc[i] \in {"think", "eat"},
         Goto(i, k), mutex' = down(mutex, i), UNCHANGED <<next, cv>>
  PROVE  PlaceInv'
<1>1. ~Waits(mutex, i) /\ ~Waits(next, i) /\ ~Waits(cv[i], i)
  BY DEF PlaceInv, QueueInv
<1>2. Taken(mutex, mutex', i)
  BY <1>1, DownTakes, SemTypes DEF PlaceInv, QueueInv
<1>3. \A j \in Phil : pc'[j] = IF j = i THEN k ELSE pc[j]
  BY DEF Goto, TypeOK
<1>4. QueueInv'
  BY <1>1, <1>2, <1>3 DEF PlaceInv, QueueInv, Taken
<1>5. CASE mutex.value = 1
  <2>1. /\ \A j \in Phil \ {i} : InMonitor(j)' <=> InMonitor(j)
        /\ InMonitor(i)' /\ mutex'.value = 0
    BY <1>1, <1>2, <1>3, <1>5 DEF InMonitor, Inside, Asleep, Taken
  <2>2. \A j \in Phil : ~InMonitor(j)
    BY <1>5 DEF PlaceInv, OwnerInv
  <2> QED BY <1>4, <1>5, <2>1, <2>2 DEF PlaceInv, OwnerInv, UnitInv, NotLost
<1>6. CASE mutex.value = 0
  <2>1. /\ \A j \in Phil : InMonitor(j)' <=> InMonitor(j)
        /\ mutex'.value = 0
    BY <1>1, <1>2, <1>3, <1>6 DEF InMonitor, Inside, Asleep, Taken
  <2> QED BY <1>4, <1>6, <2>1 DEF PlaceInv, OwnerInv, UnitInv, NotLost
<1> QED BY <1>5, <1>6, SemTypes

\* down(&next) of the signaller.
LEMMA WaitsForNext ==
  ASSUME TypeOK, PlaceInv, NEW i \in Phil, pc[i] = "sig_down",
         Goto(i, "sig_ret"), next' = down(next, i), UNCHANGED <<mutex, cv>>
  PROVE  PlaceInv'
<1>1. ~Waits(mutex, i) /\ ~Waits(next, i) /\ ~Waits(cv[i], i)
  BY DEF PlaceInv, QueueInv
<1>2. Taken(next, next', i)
  BY <1>1, DownTakes, SemTypes DEF PlaceInv, QueueInv
<1>3. \A j \in Phil : pc'[j] = IF j = i THEN "sig_ret" ELSE pc[j]
  BY DEF Goto, TypeOK
<1>4. QueueInv'
  BY <1>1, <1>2, <1>3 DEF PlaceInv, QueueInv, Taken
<1>5. CASE next.value = 1
  <2>1. /\ \A j \in Phil \ {i} : InMonitor(j)' <=> InMonitor(j)
        /\ InMonitor(i)' /\ next'.value = 0
    BY <1>1, <1>2, <1>3, <1>5 DEF InMonitor, Inside, Asleep, Taken
  <2>2. \A j \in Phil : ~InMonitor(j)
    BY <1>5 DEF PlaceInv, OwnerInv
  <2>3. mutex.value = 0
    BY <1>5, SemTypes DEF PlaceInv, UnitInv
  <2> QED BY <1>4, <1>5, <2>1, <2>2, <2>3 DEF PlaceInv, OwnerInv, UnitInv, NotLost
<1>6. CASE next.value = 0
  <2>1. /\ \A j \in Phil : InMonitor(j)' <=> InMonitor(j)
        /\ next'.value = 0
    BY <1>1, <1>2, <1>3, <1>6 DEF InMonitor, Inside, Asleep, Taken
  <2> QED BY <1>4, <1>6, <2>1 DEF PlaceInv, OwnerInv, UnitInv, NotLost
<1> QED BY <1>5, <1>6, SemTypes

\* down(&cv.sem) of the waiter.
LEMMA WaitsForSignal ==
  ASSUME TypeOK, PlaceInv, NEW i \in Phil, pc[i] = "cv_down",
         Goto(i, "cv_ret"), cv' = [cv EXCEPT ![i] = down(@, i)],
         UNCHANGED <<mutex, next>>
  PROVE  PlaceInv'
<1>1. ~Waits(mutex, i) /\ ~Waits(next, i) /\ \A j \in Phil : ~Waits(cv[i], j)
  BY DEF PlaceInv, QueueInv
<1>2. /\ \A j \in Phil \ {i} : cv'[j] = cv[j]
      /\ cv'[i] = down(cv[i], i)
  BY DEF TypeOK
<1>3. Taken(cv[i], cv'[i], i)
  BY <1>1, <1>2, DownTakes, SemTypes DEF PlaceInv, QueueInv
<1>4. \A j \in Phil : pc'[j] = IF j = i THEN "cv_ret" ELSE pc[j]
  BY DEF Goto, TypeOK
<1>5. QueueInv'
  BY <1>1, <1>2, <1>3, <1>4 DEF PlaceInv, QueueInv, Taken
<1>6. CASE cv[i].value = 1
  <2>1. /\ \A j \in Phil \ {i} : InMonitor(j)' <=> InMonitor(j)
        /\ InMonitor(i)' /\ cv'[i].value = 0
    BY <1>1, <1>2, <1>3, <1>4, <1>6 DEF InMonitor, Inside, Asleep, Taken
  <2>2. \A j \in Phil : ~InMonitor(j)
    BY <1>6 DEF PlaceInv, OwnerInv
  <2>3. /\ mutex.value = 0 /\ next.value = 0
        /\ \A j \in Phil : cv'[j].value = 0
    BY <1>2, <1>6, <2>1, SemTypes DEF PlaceInv, UnitInv
  <2> QED BY <1>5, <2>1, <2>2, <2>3 DEF PlaceInv, OwnerInv, UnitInv, NotLost
<1>7. CASE cv[i].value = 0
  <2>1. /\ \A j \in Phil : InMonitor(j)' <=> InMonitor(j)
        /\ \A j \in Phil : cv'[j].value = cv[j].value
    BY <1>1, <1>2, <1>3, <1>4, <1>7 DEF InMonitor, Inside, Asleep, Taken
  <2> QED BY <1>5, <2>1 DEF PlaceInv, OwnerInv, UnitInv, NotLost
<1> QED BY <1>6, <1>7, SemTypes

\* The owner leaves: cond_wait, or the end of either routine.
LEMMA Leaves ==
  ASSUME TypeOK, PlaceInv, NEW i \in Phil, InMonitor(i),
         NEW k \in {"think", "eat", "cv_down"}, Goto(i, k), PassOn, UNCHANGED cv
  PROVE  PlaceInv'
<1>1. ~Waits(mutex, i) /\ ~Waits(next, i) /\ ~Waits(cv[i], i)
  BY DEF InMonitor, Asleep
<1>2. /\ mutex.value = 0 /\ next.value = 0 /\ \A j \in Phil : cv[j].value = 0
      /\ \A j \in Phil : InMonitor(j) => j = i
  BY DEF PlaceInv, OwnerInv
<1>3. \A j \in Phil : pc'[j] = IF j = i THEN k ELSE pc[j]
  BY DEF Goto, TypeOK
<1>4. ~InMonitor(i)'
  BY <1>3 DEF InMonitor, Inside
<1>5. CASE next' = up(next) /\ UNCHANGED mutex
  <2>1. Passed(next, next')
    BY <1>2, <1>5, UpPasses, SemTypes DEF PlaceInv, QueueInv
  <2>2. QueueInv'
    BY <1>1, <1>3, <1>5, <2>1 DEF PlaceInv, QueueInv, Passed
  <2>3. CASE /\ \A q \in Phil : ~Waits(next, q) /\ ~Waits(next', q)
             /\ next'.value = 1
    <3>1. \A j \in Phil : ~InMonitor(j)'
      BY <1>2, <1>3, <1>4, <1>5, <2>3 DEF InMonitor, Asleep
    <3> QED BY <1>2, <1>5, <2>2, <2>3, <3>1 DEF PlaceInv, OwnerInv, UnitInv, NotLost
  <2>4. ASSUME NEW h \in Phil, Waits(next, h), next'.value = 0,
               \A q \in Phil : Waits(next', q) <=> Waits(next, q) /\ q # h
        PROVE  PlaceInv'
    <3>1. pc[h] = "sig_ret" /\ h # i
      BY <1>1, <2>4 DEF PlaceInv, QueueInv
    <3>2. InMonitor(h)'
      BY <1>3, <1>5, <2>4, <3>1 DEF PlaceInv, QueueInv, InMonitor, Inside, Asleep
    <3>3. \A j \in Phil \ {h} : ~InMonitor(j)'
      BY <1>2, <1>3, <1>4, <1>5, <2>4 DEF InMonitor, Asleep
    <3> QED BY <1>2, <1>5, <2>2, <2>4, <3>2, <3>3
               DEF PlaceInv, OwnerInv, UnitInv, NotLost
  <2> QED BY <2>1, <2>3, <2>4 DEF Passed
<1>6. CASE mutex' = up(mutex) /\ UNCHANGED next
  <2>1. Passed(mutex, mutex')
    BY <1>2, <1>6, UpPasses, SemTypes DEF PlaceInv, QueueInv
  <2>2. QueueInv'
    BY <1>1, <1>3, <1>6, <2>1 DEF PlaceInv, QueueInv, Passed
  <2>3. CASE /\ \A q \in Phil : ~Waits(mutex, q) /\ ~Waits(mutex', q)
             /\ mutex'.value = 1
    <3>1. \A j \in Phil : ~InMonitor(j)'
      BY <1>2, <1>3, <1>4, <1>6, <2>3 DEF InMonitor, Asleep
    <3> QED BY <1>2, <1>6, <2>2, <2>3, <3>1 DEF PlaceInv, OwnerInv, UnitInv, NotLost
  <2>4. ASSUME NEW h \in Phil, Waits(mutex, h), mutex'.value = 0,
               \A q \in Phil : Waits(mutex', q) <=> Waits(mutex, q) /\ q # h
        PROVE  PlaceInv'
    <3>1. pc[h] \in {"hungry", "put"} /\ h # i
      BY <1>1, <2>4 DEF PlaceInv, QueueInv
    <3>2. InMonitor(h)'
      BY <1>3, <1>6, <2>4, <3>1 DEF PlaceInv, QueueInv, InMonitor, Inside, Asleep
    <3>3. \A j \in Phil \ {h} : ~InMonitor(j)'
      BY <1>2, <1>3, <1>4, <1>6, <2>4 DEF InMonitor, Asleep
    <3> QED BY <1>2, <1>6, <2>2, <2>4, <3>2, <3>3
               DEF PlaceInv, OwnerInv, UnitInv, NotLost
  <2> QED BY <2>1, <2>3, <2>4 DEF Passed
<1> QED BY <1>5, <1>6 DEF PassOn

\* Whoever is counted by its condition variable and has not been signalled is
\* about to sleep on it or sleeps on it.
LEMMA Waiter ==
  ASSUME PlaceInv, CountInv, NEW i \in Phil, InMonitor(i), pc[i] = "signal",
         NEW w \in Phil, count[w] > 0
  PROVE  /\ w # i /\ ~Waits(mutex, w) /\ ~Waits(next, w)
         /\ pc[w] = "cv_down" \/ (pc[w] = "cv_ret" /\ Waits(cv[w], w))
<1>1. pc[w] \in {"cv_down", "cv_ret"}
  BY DEF CountInv
<1>2. w # i /\ ~Waits(mutex, w) /\ ~Waits(next, w)
  BY <1>1 DEF PlaceInv, QueueInv
<1>3. ~InMonitor(w)
  BY <1>2 DEF PlaceInv, OwnerInv
<1> QED BY <1>1, <1>2, <1>3 DEF InMonitor, Inside, Asleep

\* The owner hands the monitor to a waiter: up(&cv.sem) of cond_signal.
LEMMA Signals ==
  ASSUME TypeOK, PlaceInv, CountInv, NEW i \in Phil, InMonitor(i), pc[i] = "signal",
         NEW w \in Phil, count[w] > 0, Goto(i, "sig_down"),
         cv' = [cv EXCEPT ![w] = up(@)], UNCHANGED <<mutex, next>>
  PROVE  /\ PlaceInv'
         /\ cv'[w].value = 1 => pc[w] = "cv_down"
         /\ \A j \in Phil \ {w} : cv'[j] = cv[j]
<1>1. ~Waits(mutex, i) /\ ~Waits(next, i) /\ ~Waits(cv[i], i)
  BY DEF InMonitor, Asleep
<1>2. /\ mutex.value = 0 /\ next.value = 0 /\ \A j \in Phil : cv[j].value = 0
      /\ \A j \in Phil : InMonitor(j) => j = i
  BY DEF PlaceInv, OwnerInv
<1>3. \A j \in Phil : pc'[j] = IF j = i THEN "sig_down" ELSE pc[j]
  BY DEF Goto, TypeOK
<1>4. ~InMonitor(i)'
  BY <1>3 DEF InMonitor, Inside
<1>5. /\ \A j \in Phil \ {w} : cv'[j] = cv[j]
      /\ cv'[w] = up(cv[w])
  BY DEF TypeOK
<1>6. Passed(cv[w], cv'[w])
  BY <1>2, <1>5, UpPasses, SemTypes DEF PlaceInv, QueueInv
<1>7. /\ w # i /\ ~Waits(mutex, w) /\ ~Waits(next, w)
      /\ pc[w] = "cv_down" \/ (pc[w] = "cv_ret" /\ Waits(cv[w], w))
  BY Waiter
<1>8. QueueInv'
  BY <1>1, <1>3, <1>5, <1>6, <1>7 DEF PlaceInv, QueueInv, Passed
<1>9. CASE /\ \A q \in Phil : ~Waits(cv[w], q) /\ ~Waits(cv'[w], q)
           /\ cv'[w].value = 1
  <2>1. \A j \in Phil : ~InMonitor(j)'
    BY <1>2, <1>3, <1>4, <1>5, <1>7, <1>9 DEF InMonitor, Inside, Asleep
  <2> QED BY <1>2, <1>5, <1>7, <1>8, <1>9, <2>1
             DEF PlaceInv, OwnerInv, UnitInv, NotLost
<1>10. ASSUME NEW h \in Phil, Waits(cv[w], h), cv'[w].value = 0,
              \A q \in Phil : Waits(cv'[w], q) <=> Waits(cv[w], q) /\ q # h
       PROVE  PlaceInv'
  <2>1. h = w /\ pc[w] = "cv_ret"
    BY <1>10 DEF PlaceInv, QueueInv
  <2>2. InMonitor(w)'
    BY <1>3, <1>7, <1>10, <2>1 DEF InMonitor, Inside, Asleep
  <2>3. \A j \in Phil \ {w} : ~InMonitor(j)'
    BY <1>2, <1>3, <1>4, <1>5 DEF InMonitor, Asleep
  <2>4. \A j \in Phil : cv'[j].value = 0
    BY <1>2, <1>5, <1>10
  <2> QED BY <1>2, <1>8, <2>2, <2>3, <2>4 DEF PlaceInv, OwnerInv, UnitInv, NotLost
<1> QED BY <1>5, <1>6, <1>9, <1>10 DEF Passed

-----------------------------------------------------------------------------
(***************************************************************************)
(* Counters.                                                               *)
(***************************************************************************)

Signalling == {i \in Phil : pc[i] \in {"sig_down", "sig_ret"}}

LEMMA TableSize == IsFiniteSet(Phil) /\ Cardinality(Phil) = N
<1>1. IsFiniteSet(0 .. (N - 1)) /\ Cardinality(0 .. (N - 1)) = N
  BY FS_Interval, PhilAssumption
<1> QED BY <1>1 DEF Phil

LEMMA SignallingSize ==
  IsFiniteSet(Signalling) /\ Cardinality(Signalling) \in 0..N
<1>1. Signalling \subseteq Phil
  BY DEF Signalling
<1>2. IsFiniteSet(Signalling) /\ Cardinality(Signalling) <= Cardinality(Phil)
  BY <1>1, TableSize, FS_Subset
<1>3. Cardinality(Signalling) \in Nat
  BY <1>2, FS_CardinalityType
<1> QED BY <1>2, <1>3, TableSize, PhilAssumption

\* next_count follows the signallers.
LEMMA SameSignallers ==
  ASSUME TypeOK, NextCountOK, NEW i \in Phil, NEW k, Goto(i, k),
         (pc[i] \in {"sig_down", "sig_ret"}) <=> (k \in {"sig_down", "sig_ret"}),
         UNCHANGED next_count
  PROVE  NextCountOK'
<1>1. \A j \in Phil : pc'[j] = IF j = i THEN k ELSE pc[j]
  BY DEF Goto, TypeOK
<1>2. Signalling' = Signalling
  BY <1>1 DEF Signalling
<1> QED BY <1>2 DEF NextCountOK, Signalling

LEMMA OneMore ==
  ASSUME TypeOK, NextCountOK, NEW i \in Phil, pc[i] = "signal",
         Goto(i, "sig_down"), next_count' = next_count + 1
  PROVE  NextCountOK' /\ next_count' \in 0..N
<1>1. \A j \in Phil : pc'[j] = IF j = i THEN "sig_down" ELSE pc[j]
  BY DEF Goto, TypeOK
<1>2. Signalling' = Signalling \cup {i} /\ i \notin Signalling
  BY <1>1 DEF Signalling
<1>3. Cardinality(Signalling \cup {i}) = Cardinality(Signalling) + 1
  BY <1>2, SignallingSize, FS_AddElement
<1>4. next_count' = Cardinality(Signalling')
  BY <1>2, <1>3 DEF NextCountOK, Signalling
<1>5. Signalling' \subseteq Phil
  BY DEF Signalling
<1>6. IsFiniteSet(Signalling') /\ Cardinality(Signalling') <= Cardinality(Phil)
  BY <1>5, TableSize, FS_Subset
<1>7. Cardinality(Signalling') \in Nat
  BY <1>6, FS_CardinalityType
<1>8. next_count' \in 0..N
  BY <1>4, <1>6, <1>7, TableSize, PhilAssumption
<1> QED BY <1>4, <1>8 DEF NextCountOK, Signalling

LEMMA OneLess ==
  ASSUME TypeOK, NextCountOK, NEW i \in Phil, pc[i] = "sig_ret",
         Goto(i, "test"), next_count' = next_count - 1
  PROVE  NextCountOK' /\ next_count' \in 0..N
<1>1. \A j \in Phil : pc'[j] = IF j = i THEN "test" ELSE pc[j]
  BY DEF Goto, TypeOK
<1>2. Signalling' = Signalling \ {i} /\ i \in Signalling
  BY <1>1 DEF Signalling
<1>3. IsFiniteSet(Signalling \ {i}) /\ Cardinality(Signalling \ {i}) = Cardinality(Signalling) - 1
  BY <1>2, SignallingSize, FS_RemoveElement
<1>4. Cardinality(Signalling \ {i}) \in Nat
  BY <1>3, FS_CardinalityType
<1>5. next_count' = Cardinality(Signalling')
  BY <1>2, <1>3 DEF NextCountOK, Signalling
<1>6. next_count' \in 0..N
  BY <1>2, <1>3, <1>4, <1>5, SignallingSize, PhilAssumption
<1> QED BY <1>5, <1>6 DEF NextCountOK, Signalling

-----------------------------------------------------------------------------
(***************************************************************************)
(* The steps of a thread inside the monitor.                               *)
(***************************************************************************)

LEMMA Owner ==
  ASSUME IInv, NEW i \in Phil, NEW k \in Inside, At(i, k)
  PROVE  /\ TypeOK /\ PlaceInv /\ CountInv /\ EatInv /\ NextCountOK
         /\ pc[i] = k /\ InMonitor(i)
         /\ \A j \in Phil : pc[j] \in {"test", "grant", "signal", "leave"} => j = i
<1>1. PlaceInv /\ pc[i] = k /\ InMonitor(i)
  BY DEF IInv, At, InMonitor
<1> QED BY <1>1, Alone DEF IInv

LEMMA HungryStep ==
  ASSUME IInv, NEW i \in Phil, Hungry(i) PROVE IInv'
<1>1. /\ TypeOK /\ PlaceInv /\ CountInv /\ EatInv /\ NextCountOK
      /\ pc[i] = "hungry" /\ InMonitor(i)
      /\ \A j \in Phil : pc[j] \in {"test", "grant", "signal", "leave"} => j = i
  BY Owner DEF Hungry, Inside
<1>2. /\ \A j \in Phil : pc'[j] = IF j = i THEN "test" ELSE pc[j]
      /\ \A j \in Phil : state_condvar'[j] = IF j = i THEN "HUNGRY" ELSE state_condvar[j]
      /\ \A j \in Phil : todo'[j] = IF j = i THEN <<i>> ELSE todo[j]
      /\ UNCHANGED <<mutex, next, next_count, cv, count, iter>>
  BY <1>1 DEF Hungry, Goto, TypeOK, mt
<1>3. TypeOK'
  BY <1>1 DEF Hungry, Goto, TypeOK, mt
<1>4. PlaceInv' /\ NextCountOK'
  BY <1>1, <1>2, Stays, SameSignallers DEF Hungry, Inside
<1>5. CountInv'
  BY <1>1, <1>2 DEF CountInv
<1>6. EatInv'
  BY <1>1, <1>2 DEF EatInv, StateInv, GrantInv, SignalledInv
<1> QED BY <1>3, <1>4, <1>5, <1>6 DEF IInv

LEMMA PutDownStep ==
  ASSUME IInv, NEW i \in Phil, PutDown(i) PROVE IInv'
<1>1. /\ TypeOK /\ PlaceInv /\ CountInv /\ EatInv /\ NextCountOK
      /\ pc[i] = "put" /\ InMonitor(i)
      /\ \A j \in Phil : pc[j] \in {"test", "grant", "signal", "leave"} => j = i
  BY Owner DEF PutDown, Inside
<1>2. /\ \A j \in Phil : pc'[j] = IF j = i THEN "test" ELSE pc[j]
      /\ \A j \in Phil : state_condvar'[j] = IF j = i THEN "THINKING" ELSE state_condvar[j]
      /\ \A j \in Phil : j # i => todo'[j] = todo[j]
      /\ UNCHANGED <<mutex, next, next_count, cv, count, iter>>
  BY <1>1 DEF PutDown, Goto, TypeOK, mt
<1>3. TypeOK'
  <2>1. LEFT(i) \in Phil /\ RIGHT(i) \in Phil
    BY Neighbours
  <2>2. <<LEFT(i), RIGHT(i)>> \in Seq(Phil)
    BY <2>1
  <2>3. todo' \in [Phil -> Seq(Phil)]
    BY <1>1, <2>2 DEF PutDown, TypeOK
  <2> QED BY <1>1, <1>2, <2>3 DEF PutDown, Goto, TypeOK
<1>4. PlaceInv' /\ NextCountOK'
  BY <1>1, <1>2, Stays, SameSignallers DEF PutDown, Inside
<1>5. CountInv'
  BY <1>1, <1>2 DEF CountInv
<1>6. EatInv'
  BY <1>1, <1>2 DEF EatInv, StateInv, GrantInv, SignalledInv
<1> QED BY <1>3, <1>4, <1>5, <1>6 DEF IInv

LEMMA TestYesStep ==
  ASSUME IInv, NEW i \in Phil, TestYes(i) PROVE IInv'
<1>1. /\ TypeOK /\ PlaceInv /\ CountInv /\ EatInv /\ NextCountOK
      /\ pc[i] = "test" /\ InMonitor(i)
      /\ \A j \in Phil : pc[j] \in {"test", "grant", "signal", "leave"} => j = i
  BY Owner DEF TestYes, Inside
<1>2. /\ \A j \in Phil : pc'[j] = IF j = i THEN "grant" ELSE pc[j]
      /\ UNCHANGED <<state_condvar, mutex, next, next_count, cv, count, iter, todo>>
  BY <1>1 DEF TestYes, Goto, TypeOK, mt
<1>3. TypeOK'
  BY <1>1 DEF TestYes, Goto, TypeOK, mt
<1>4. PlaceInv' /\ NextCountOK'
  BY <1>1, <1>2, Stays, SameSignallers DEF TestYes, Inside
<1>5. CountInv'
  BY <1>1, <1>2 DEF CountInv
<1>6. StateInv' /\ SignalledInv'
  BY <1>1, <1>2 DEF EatInv, StateInv, SignalledInv
<1>7. MayEat(Head(todo[i]))'
  BY <1>2 DEF TestYes, MayEat
<1>8. GrantInv'
  BY <1>1, <1>2, <1>7 DEF EatInv, GrantInv, TestYes
<1> QED BY <1>3, <1>4, <1>5, <1>6, <1>8 DEF IInv, EatInv

\* What is left to do after a test.
LEMMA Shorter ==
  ASSUME TypeOK, NEW i \in Phil, todo[i] # <<>>, todo' = [todo EXCEPT ![i] = Tail(@)]
  PROVE  /\ Head(todo[i]) \in Phil /\ todo' \in [Phil -> Seq(Phil)]
         /\ todo[i] = <<i>> => todo'[i] = <<>>
         /\ \A j \in Phil : j # i => todo'[j] = todo[j]
<1>1. todo[i] \in Seq(Phil) /\ todo \in [Phil -> Seq(Phil)]
  BY DEF TypeOK
<1>2. Head(todo[i]) \in Phil /\ Tail(todo[i]) \in Seq(Phil)
  BY <1>1
<1>3. Tail(<<i>>) = <<>>
  OBVIOUS
<1> QED BY <1>1, <1>2, <1>3

LEMMA TestNoStep ==
  ASSUME IInv, NEW i \in Phil, TestNo(i) PROVE IInv'
<1>1. /\ TypeOK /\ PlaceInv /\ CountInv /\ EatInv /\ NextCountOK
      /\ pc[i] = "test" /\ InMonitor(i)
      /\ \A j \in Phil : pc[j] \in {"test", "grant", "signal", "leave"} => j = i
  BY Owner DEF TestNo, Inside
<1>2. /\ Head(todo[i]) \in Phil /\ todo' \in [Phil -> Seq(Phil)] /\ todo[i] # <<>>
      /\ todo[i] = <<i>> => todo'[i] = <<>>
      /\ \A j \in Phil : j # i => todo'[j] = todo[j]
  BY <1>1, Shorter DEF TestNo
<1>3. UNCHANGED <<state_condvar, mutex, next, next_count, cv, count, pc, iter>>
  BY DEF TestNo, mt
<1>4. TypeOK'
  BY <1>1, <1>2, <1>3 DEF TypeOK
<1>5. Goto(i, "test")
  BY <1>1, <1>3 DEF Goto, TypeOK
<1>6. PlaceInv' /\ NextCountOK'
  BY <1>1, <1>3, <1>5, Stays, SameSignallers DEF Inside
<1>7. CountInv'
  BY <1>1, <1>3 DEF CountInv
<1>8. state_condvar[i] # "THINKING" => todo'[i] = <<>>
  BY <1>1, <1>2 DEF EatInv, StateInv
<1>9. StateInv'
  BY <1>1, <1>2, <1>3, <1>8 DEF EatInv, StateInv
<1>10. GrantInv' /\ SignalledInv'
  BY <1>1, <1>2, <1>3 DEF EatInv, GrantInv, SignalledInv
<1> QED BY <1>4, <1>6, <1>7, <1>9, <1>10 DEF IInv, EatInv

LEMMA GrantStep ==
  ASSUME IInv, NEW i \in Phil, Grant(i) PROVE IInv'
<1>1. /\ TypeOK /\ PlaceInv /\ CountInv /\ EatInv /\ NextCountOK
      /\ pc[i] = "grant" /\ InMonitor(i)
      /\ \A j \in Phil : pc[j] \in {"test", "grant", "signal", "leave"} => j = i
  BY Owner DEF Grant, Inside
<1> DEFINE w == Head(todo[i])
<1>2. todo[i] # <<>> /\ MayEat(w)
  BY <1>1 DEF EatInv, GrantInv
<1>3. todo[i] \in Seq(Phil)
  BY <1>1 DEF TypeOK
<1>4. w \in Phil /\ state_condvar[w] = "HUNGRY"
  BY <1>2, <1>3 DEF MayEat
<1> HIDE DEF w
<1>5. /\ \A j \in Phil : pc'[j] = IF j = i THEN "signal" ELSE pc[j]
      /\ \A j \in Phil : state_condvar'[j] = IF j = w THEN "EATING" ELSE state_condvar[j]
      /\ UNCHANGED <<mutex, next, next_count, cv, count, iter, todo>>
  BY <1>1 DEF Grant, Goto, TypeOK, mt, w
<1>6. TypeOK'
  BY <1>1 DEF Grant, Goto, TypeOK, mt
<1>7. PlaceInv' /\ NextCountOK'
  BY <1>1, <1>5, Stays, SameSignallers DEF Grant, Inside
<1>8. CountInv'
  BY <1>1, <1>5 DEF CountInv
<1>9. state_condvar'[i] # "THINKING" => todo[i] \in {<<>>, <<i>>}
  BY <1>1, <1>4, <1>5 DEF EatInv, StateInv
<1>10. StateInv'
  BY <1>1, <1>4, <1>5, <1>9 DEF EatInv, StateInv
<1>11. GrantInv'
  BY <1>1, <1>2, <1>4, <1>5 DEF EatInv, GrantInv, w
<1>12. SignalledInv'
  BY <1>1, <1>5 DEF EatInv, SignalledInv
<1> QED BY <1>6, <1>7, <1>8, <1>10, <1>11, <1>12 DEF IInv, EatInv

LEMMA SignalNoneStep ==
  ASSUME IInv, NEW i \in Phil, SignalNone(i) PROVE IInv'
<1>1. /\ TypeOK /\ PlaceInv /\ CountInv /\ EatInv /\ NextCountOK
      /\ pc[i] = "signal" /\ InMonitor(i)
      /\ \A j \in Phil : pc[j] \in {"test", "grant", "signal", "leave"} => j = i
  BY Owner DEF SignalNone, Inside
<1>2. todo[i] # <<>>
  BY <1>1 DEF EatInv, GrantInv
<1>3. /\ todo' \in [Phil -> Seq(Phil)]
      /\ todo[i] = <<i>> => todo'[i] = <<>>
      /\ \A j \in Phil : j # i => todo'[j] = todo[j]
  BY <1>1, <1>2, Shorter DEF SignalNone
<1>4. /\ \A j \in Phil : pc'[j] = IF j = i THEN "test" ELSE pc[j]
      /\ UNCHANGED <<state_condvar, mutex, next, next_count, cv, count, iter>>
  BY <1>1 DEF SignalNone, Goto, TypeOK, mt
<1>5. TypeOK'
  BY <1>1, <1>3, <1>4 DEF SignalNone, Goto, TypeOK
<1>6. PlaceInv' /\ NextCountOK'
  BY <1>1, <1>4, Stays, SameSignallers DEF SignalNone, Inside
<1>7. CountInv'
  BY <1>1, <1>4 DEF CountInv
<1>8. state_condvar[i] # "THINKING" => todo'[i] = <<>>
  BY <1>1, <1>2, <1>3 DEF EatInv, StateInv
<1>9. StateInv'
  BY <1>1, <1>3, <1>4, <1>8 DEF EatInv, StateInv
<1>10. GrantInv' /\ SignalledInv'
  BY <1>1, <1>3, <1>4 DEF EatInv, GrantInv, SignalledInv
<1> QED BY <1>5, <1>6, <1>7, <1>9, <1>10 DEF IInv, EatInv

LEMMA SignalRetStep ==
  ASSUME IInv, NEW i \in Phil, SignalRet(i) PROVE IInv'
<1>1. /\ TypeOK /\ PlaceInv /\ CountInv /\ EatInv /\ NextCountOK
      /\ pc[i] = "sig_ret" /\ InMonitor(i)
      /\ \A j \in Phil : pc[j] \in {"test", "grant", "signal", "leave"} => j = i
  BY Owner DEF SignalRet, Inside
<1>2. todo[i] # <<>> /\ state_condvar[i] = "THINKING"
  BY <1>1 DEF EatInv, StateInv
<1>3. /\ todo' \in [Phil -> Seq(Phil)]
      /\ \A j \in Phil : j # i => todo'[j] = todo[j]
  BY <1>1, <1>2, Shorter DEF SignalRet
<1>4. /\ \A j \in Phil : pc'[j] = IF j = i THEN "test" ELSE pc[j]
      /\ UNCHANGED <<state_condvar, mutex, next, cv, count, iter>>
  BY <1>1 DEF SignalRet, Goto, TypeOK
<1>5. NextCountOK' /\ next_count' \in 0..N
  BY <1>1, OneLess DEF SignalRet
<1>6. TypeOK'
  BY <1>1, <1>3, <1>4, <1>5 DEF SignalRet, Goto, TypeOK
<1>7. PlaceInv'
  BY <1>1, <1>4, Stays DEF SignalRet, Inside
<1>8. CountInv'
  BY <1>1, <1>4 DEF CountInv
<1>9. StateInv'
  BY <1>1, <1>2, <1>3, <1>4 DEF EatInv, StateInv
<1>10. GrantInv' /\ SignalledInv'
  BY <1>1, <1>3, <1>4 DEF EatInv, GrantInv, SignalledInv
<1> QED BY <1>5, <1>6, <1>7, <1>8, <1>9, <1>10 DEF IInv, EatInv

LEMMA WaitRetStep ==
  ASSUME IInv, NEW i \in Phil, WaitRet(i) PROVE IInv'
<1>1. /\ TypeOK /\ PlaceInv /\ CountInv /\ EatInv /\ NextCountOK
      /\ pc[i] = "cv_ret" /\ InMonitor(i)
      /\ \A j \in Phil : pc[j] \in {"test", "grant", "signal", "leave"} => j = i
  BY Owner DEF WaitRet, Inside
<1>2. state_condvar[i] = "EATING" /\ count[i] = 1
  BY <1>1 DEF EatInv, SignalledInv, InMonitor, Asleep, CountInv
<1>3. /\ \A j \in Phil : pc'[j] = IF j = i THEN "leave" ELSE pc[j]
      /\ \A j \in Phil : count'[j] = IF j = i THEN 0 ELSE count[j]
      /\ UNCHANGED <<state_condvar, mutex, next, next_count, cv, iter, todo>>
  BY <1>1, <1>2 DEF WaitRet, Goto, TypeOK
<1>4. TypeOK'
  BY <1>1, <1>2 DEF WaitRet, Goto, TypeOK
<1>5. PlaceInv' /\ NextCountOK'
  BY <1>1, <1>3, Stays, SameSignallers DEF WaitRet, Inside
<1>6. CountInv'
  BY <1>1, <1>3 DEF CountInv
<1>7. EatInv'
  BY <1>1, <1>2, <1>3 DEF EatInv, StateInv, GrantInv, MayEat, SignalledInv
<1> QED BY <1>4, <1>5, <1>6, <1>7 DEF IInv

LEMMA BodyDoneStep ==
  ASSUME IInv, NEW i \in Phil, BodyDone(i) PROVE IInv'
<1>1. /\ TypeOK /\ PlaceInv /\ CountInv /\ EatInv /\ NextCountOK
      /\ pc[i] = "test" /\ InMonitor(i)
      /\ \A j \in Phil : pc[j] \in {"test", "grant", "signal", "leave"} => j = i
  BY Owner DEF BodyDone, Inside
<1>2. /\ \A j \in Phil : pc'[j] = IF j = i THEN "leave" ELSE pc[j]
      /\ UNCHANGED <<state_condvar, mutex, next, next_count, cv, count, iter, todo>>
  BY <1>1 DEF BodyDone, Goto, TypeOK, mt
<1>3. TypeOK'
  BY <1>1 DEF BodyDone, Goto, TypeOK, mt
<1>4. PlaceInv' /\ NextCountOK'
  BY <1>1, <1>2, Stays, SameSignallers DEF BodyDone, Inside
<1>5. CountInv'
  BY <1>1, <1>2 DEF CountInv
<1>6. EatInv'
  BY <1>1, <1>2 DEF BodyDone, EatInv, StateInv, GrantInv, MayEat, SignalledInv
<1> QED BY <1>3, <1>4, <1>5, <1>6 DEF IInv

-----------------------------------------------------------------------------
(***************************************************************************)
(* The steps through a semaphore.                                          *)
(***************************************************************************)

LEMMA TakeStep ==
  ASSUME IInv, NEW i \in Phil, Take(i) PROVE IInv'
<1>1. /\ TypeOK /\ PlaceInv /\ CountInv /\ EatInv /\ NextCountOK
      /\ pc[i] = "think" /\ state_condvar[i] = "THINKING"
  BY DEF Take, At, IInv, EatInv, StateInv
<1>2. /\ \A j \in Phil : pc'[j] = IF j = i THEN "hungry" ELSE pc[j]
      /\ UNCHANGED <<state_condvar, next, next_count, cv, count, todo>>
  BY <1>1 DEF Take, Goto, TypeOK
<1>3. PlaceInv' /\ NextCountOK'
  BY <1>1, <1>2, Enters, SameSignallers DEF Take
<1>4. TypeOK'
  <2>1. Taken(mutex, mutex', i)
    BY <1>1, DownTakes, SemTypes DEF Take, PlaceInv, QueueInv
  <2>2. iter' \in [Phil -> 0..TIMES]
    <3>1. iter \in [Phil -> 0..TIMES] /\ iter[i] < TIMES /\ TIMES \in Nat
      BY <1>1, PhilAssumption DEF Take, TypeOK
    <3>2. iter[i] + 1 \in 0..TIMES
      BY <3>1
    <3> QED BY <3>1, <3>2 DEF Take
  <2> QED BY <1>1, <1>2, <2>1, <2>2 DEF Take, Goto, TypeOK, Taken, Sems
<1>5. CountInv'
  BY <1>1, <1>2 DEF CountInv
<1>6. EatInv'
  BY <1>1, <1>2 DEF EatInv, StateInv, GrantInv, MayEat, SignalledInv
<1> QED BY <1>3, <1>4, <1>5, <1>6 DEF IInv

LEMMA PutStep ==
  ASSUME IInv, NEW i \in Phil, Put(i) PROVE IInv'
<1>1. /\ TypeOK /\ PlaceInv /\ CountInv /\ EatInv /\ NextCountOK
      /\ pc[i] = "eat" /\ state_condvar[i] = "EATING"
  BY DEF Put, At, IInv, EatInv, StateInv
<1>2. /\ \A j \in Phil : pc'[j] = IF j = i THEN "put" ELSE pc[j]
      /\ UNCHANGED <<state_condvar, next, next_count, cv, count, iter, todo>>
  BY <1>1 DEF Put, Goto, TypeOK
<1>3. PlaceInv' /\ NextCountOK'
  BY <1>1, <1>2, Enters, SameSignallers DEF Put
<1>4. TypeOK'
  <2>1. Taken(mutex, mutex', i)
    BY <1>1, DownTakes, SemTypes DEF Put, PlaceInv, QueueInv
  <2> QED BY <1>1, <1>2, <2>1 DEF Put, Goto, TypeOK, Taken, Sems
<1>5. CountInv'
  BY <1>1, <1>2 DEF CountInv
<1>6. EatInv'
  BY <1>1, <1>2 DEF EatInv, StateInv, GrantInv, MayEat, SignalledInv
<1> QED BY <1>3, <1>4, <1>5, <1>6 DEF IInv

LEMMA SignalDownStep ==
  ASSUME IInv, NEW i \in Phil, SignalDown(i) PROVE IInv'
<1>1. /\ TypeOK /\ PlaceInv /\ CountInv /\ EatInv /\ NextCountOK
      /\ pc[i] = "sig_down" /\ state_condvar[i] = "THINKING" /\ todo[i] # <<>>
  BY DEF SignalDown, At, IInv, EatInv, StateInv
<1>2. /\ \A j \in Phil : pc'[j] = IF j = i THEN "sig_ret" ELSE pc[j]
      /\ UNCHANGED <<state_condvar, mutex, next_count, cv, count, iter, todo>>
  BY <1>1 DEF SignalDown, Goto, TypeOK
<1>3. PlaceInv' /\ NextCountOK'
  BY <1>1, <1>2, WaitsForNext, SameSignallers DEF SignalDown
<1>4. TypeOK'
  <2>1. Taken(next, next', i)
    BY <1>1, DownTakes, SemTypes DEF SignalDown, PlaceInv, QueueInv
  <2> QED BY <1>1, <1>2, <2>1 DEF SignalDown, Goto, TypeOK, Taken, Sems
<1>5. CountInv'
  BY <1>1, <1>2 DEF CountInv
<1>6. EatInv'
  BY <1>1, <1>2 DEF EatInv, StateInv, GrantInv, MayEat, SignalledInv
<1> QED BY <1>3, <1>4, <1>5, <1>6 DEF IInv

LEMMA WaitDownStep ==
  ASSUME IInv, NEW i \in Phil, WaitDown(i) PROVE IInv'
<1>1. /\ TypeOK /\ PlaceInv /\ CountInv /\ EatInv /\ NextCountOK
      /\ pc[i] = "cv_down" /\ state_condvar[i] # "THINKING"
      /\ cv[i].value = 1 => state_condvar[i] = "EATING"
  BY DEF WaitDown, At, IInv, EatInv, StateInv
<1>2. /\ \A j \in Phil : pc'[j] = IF j = i THEN "cv_ret" ELSE pc[j]
      /\ \A j \in Phil : j # i => cv'[j] = cv[j]
      /\ cv'[i] = down(cv[i], i)
      /\ UNCHANGED <<state_condvar, mutex, next, next_count, count, iter, todo>>
  BY <1>1 DEF WaitDown, Goto, TypeOK
<1>3. PlaceInv' /\ NextCountOK'
  BY <1>1, <1>2, WaitsForSignal, SameSignallers DEF WaitDown
<1>4. Taken(cv[i], cv'[i], i)
  BY <1>1, <1>2, DownTakes, SemTypes DEF PlaceInv, QueueInv
<1>5. TypeOK'
  <2>1. cv' \in [Phil -> Sems]
    BY <1>1, <1>2, <1>4, SemTypes DEF WaitDown, TypeOK, Taken
  <2> QED BY <1>1, <1>2, <2>1 DEF WaitDown, Goto, TypeOK, Sems
<1>6. CountInv'
  BY <1>1, <1>2 DEF CountInv
<1>7. cv'[i].value = 0 /\ (state_condvar[i] = "EATING" \/ Waits(cv'[i], i))
  BY <1>1, <1>4 DEF Taken
<1>8. StateInv'
  BY <1>1, <1>2, <1>7 DEF EatInv, StateInv
<1>9. GrantInv' /\ SignalledInv'
  BY <1>1, <1>2, <1>7 DEF EatInv, GrantInv, MayEat, SignalledInv
<1> QED BY <1>3, <1>5, <1>6, <1>8, <1>9 DEF IInv, EatInv

LEMMA PassOnTypes ==
  ASSUME TypeOK, PlaceInv, NEW i \in Phil, InMonitor(i), PassOn
  PROVE  mutex' \in Sems /\ next' \in Sems
<1>1. mutex.value = 0 /\ next.value = 0 /\ Orderly(mutex) /\ Orderly(next)
  BY DEF PlaceInv, OwnerInv, QueueInv
<1>2. up(mutex) \in Sems /\ up(next) \in Sems
  BY <1>1, UpPasses, SemTypes DEF Passed
<1> QED BY <1>2, SemTypes DEF PassOn

LEMMA StillHungryStep ==
  ASSUME IInv, NEW i \in Phil, StillHungry(i) PROVE IInv'
<1>1. /\ TypeOK /\ PlaceInv /\ CountInv /\ EatInv /\ NextCountOK
      /\ pc[i] = "test" /\ InMonitor(i)
      /\ \A j \in Phil : pc[j] \in {"test", "grant", "signal", "leave"} => j = i
  BY Owner DEF StillHungry, Inside
<1>2. count[i] = 0 /\ state_condvar[i] = "HUNGRY"
  BY <1>1 DEF CountInv, StillHungry
<1>3. /\ \A j \in Phil : pc'[j] = IF j = i THEN "cv_down" ELSE pc[j]
      /\ \A j \in Phil : count'[j] = IF j = i THEN 1 ELSE count[j]
      /\ UNCHANGED <<state_condvar, next_count, cv, iter, todo>>
  BY <1>1, <1>2 DEF StillHungry, cond_wait, Goto, TypeOK
<1>4. PlaceInv' /\ NextCountOK'
  BY <1>1, <1>3, Leaves, SameSignallers DEF StillHungry, cond_wait
<1>5. TypeOK'
  <2>1. mutex' \in Sems /\ next' \in Sems
    BY <1>1, PassOnTypes DEF StillHungry, cond_wait
  <2> QED BY <1>1, <1>2, <1>3, <2>1 DEF StillHungry, cond_wait, Goto, TypeOK, Sems
<1>6. CountInv'
  BY <1>1, <1>3 DEF CountInv
<1>7. EatInv'
  BY <1>1, <1>2, <1>3 DEF EatInv, StateInv, GrantInv, MayEat, SignalledInv
<1> QED BY <1>4, <1>5, <1>6, <1>7 DEF IInv

LEMMA LeaveStep ==
  ASSUME IInv, NEW i \in Phil, Leave(i) PROVE IInv'
<1>1. /\ TypeOK /\ PlaceInv /\ CountInv /\ EatInv /\ NextCountOK
      /\ pc[i] = "leave" /\ InMonitor(i)
      /\ \A j \in Phil : pc[j] \in {"test", "grant", "signal", "leave"} => j = i
  BY Owner DEF Leave, Inside
<1>2. state_condvar[i] \in {"THINKING", "EATING"}
  BY <1>1 DEF EatInv, StateInv, TypeOK
<1> DEFINE k == IF state_condvar[i] = "THINKING" THEN "think" ELSE "eat"
<1>3. k \in {"think", "eat"} /\ Goto(i, k)
  BY DEF Leave
<1>4. /\ k = "think" => state_condvar[i] = "THINKING"
      /\ k = "eat" => state_condvar[i] = "EATING"
  BY <1>2
<1> HIDE DEF k
<1>5. /\ \A j \in Phil : pc'[j] = IF j = i THEN k ELSE pc[j]
      /\ UNCHANGED <<state_condvar, next_count, cv, count, iter, todo>>
  BY <1>1, <1>3 DEF Leave, Goto, TypeOK
<1>6. PlaceInv' /\ NextCountOK'
  BY <1>1, <1>3, <1>5, Leaves, SameSignallers DEF Leave
<1>7. TypeOK'
  <2>1. mutex' \in Sems /\ next' \in Sems
    BY <1>1, PassOnTypes DEF Leave
  <2> QED BY <1>1, <1>3, <1>5, <2>1 DEF Goto, TypeOK, Sems
<1>8. CountInv'
  BY <1>1, <1>3, <1>5 DEF CountInv
<1>9. EatInv'
  BY <1>1, <1>3, <1>4, <1>5 DEF EatInv, StateInv, GrantInv, MayEat, SignalledInv
<1> QED BY <1>6, <1>7, <1>8, <1>9 DEF IInv

LEMMA SignalUpStep ==
  ASSUME IInv, NEW i \in Phil, SignalUp(i) PROVE IInv'
<1>1. /\ TypeOK /\ PlaceInv /\ CountInv /\ EatInv /\ NextCountOK
      /\ pc[i] = "signal" /\ InMonitor(i)
      /\ \A j \in Phil : pc[j] \in {"test", "grant", "signal", "leave"} => j = i
  BY Owner DEF SignalUp, Inside
<1> DEFINE w == Head(todo[i])
<1>2. todo[i] # <<>> /\ state_condvar[w] = "EATING"
  BY <1>1 DEF EatInv, GrantInv
<1>3. todo[i] \in Seq(Phil)
  BY <1>1 DEF TypeOK
<1>4. w \in Phil /\ count[w] > 0
  BY <1>2, <1>3 DEF SignalUp
<1>5. todo[i] = <<i>> => w = i
  OBVIOUS
<1> HIDE DEF w
<1>6. w # i
  BY <1>1, <1>4, Waiter
<1>7. state_condvar[i] = "THINKING"
  BY <1>1, <1>2, <1>5, <1>6 DEF EatInv, StateInv
<1>8. cv' = [cv EXCEPT ![w] = up(@)]
  BY DEF SignalUp, w
<1>9. /\ PlaceInv'
      /\ cv'[w].value = 1 => pc[w] = "cv_down"
      /\ \A j \in Phil \ {w} : cv'[j] = cv[j]
  BY <1>1, <1>4, <1>8, Signals DEF SignalUp
<1>10. /\ \A j \in Phil : pc'[j] = IF j = i THEN "sig_down" ELSE pc[j]
       /\ UNCHANGED <<state_condvar, mutex, next, count, iter, todo>>
  BY <1>1 DEF SignalUp, Goto, TypeOK
<1>11. NextCountOK' /\ next_count' \in 0..N
  BY <1>1, OneMore DEF SignalUp
<1>12. TypeOK'
  <2>1. up(cv[w]) \in Sems
    <3>1. cv[w].value = 0 /\ Orderly(cv[w])
      BY <1>1, <1>4 DEF PlaceInv, OwnerInv, QueueInv
    <3> QED BY <1>1, <1>4, <3>1, UpPasses, SemTypes DEF Passed
  <2>2. cv' \in [Phil -> Sems]
    BY <1>1, <1>8, <2>1 DEF TypeOK, Sems
  <2> QED BY <1>1, <1>10, <1>11, <2>2 DEF SignalUp, Goto, TypeOK, Sems
<1>13. CountInv'
  BY <1>1, <1>10 DEF CountInv
<1>14. StateInv'
  BY <1>1, <1>2, <1>4, <1>6, <1>7, <1>9, <1>10 DEF EatInv, StateInv
<1>15. GrantInv'
  BY <1>1, <1>10 DEF EatInv, GrantInv, MayEat
<1>16. SignalledInv'
  BY <1>1, <1>2, <1>9, <1>10 DEF EatInv, SignalledInv
<1> QED BY <1>9, <1>11, <1>12, <1>13, <1>14, <1>15, <1>16 DEF IInv, EatInv

-----------------------------------------------------------------------------
(***************************************************************************)
(* The results.                                                            *)
(***************************************************************************)

LEMMA StepOK == IInv /\ [Next]_vars => IInv'
<1> SUFFICES ASSUME IInv, [Next]_vars PROVE IInv'
  OBVIOUS
<1>1. ASSUME NEW i \in Phil, Step(i) PROVE IInv'
  BY <1>1, TakeStep, HungryStep, TestYesStep, TestNoStep, GrantStep, SignalUpStep,
     SignalNoneStep, SignalDownStep, SignalRetStep, StillHungryStep, WaitDownStep,
     WaitRetStep, BodyDoneStep, LeaveStep, PutStep, PutDownStep DEF Step
<1>2. CASE UNCHANGED vars
  BY <1>2 DEF vars, mt, IInv, TypeOK, PlaceInv, QueueInv, OwnerInv, UnitInv, NotLost,
              InMonitor, Asleep, CountInv, EatInv, StateInv, GrantInv, MayEat,
              SignalledInv, NextCountOK
<1> QED BY <1>1, <1>2 DEF Next, Done

\* The invariant that the results below rest on, for any interleaving of the
\* threads of check_sync's second test.
THEOREM MonitorInvariant == Spec => []IInv
BY InitOK, StepOK, PTL DEF Spec

\* Of the ways the monitor can be open, on its way or owned, one is true.
LEMMA OneBaton == ASSUME IInv PROVE BatonOK
<1>1. TypeOK /\ OwnerInv /\ UnitInv /\ NotLost
  BY DEF IInv, PlaceInv
<1>2. Active = {i \in Phil : InMonitor(i)}
  BY DEF Active, InMonitor, Inside
<1>3. mutex.value \in {0, 1} /\ next.value \in {0, 1}
      /\ \A i \in Phil : cv[i].value \in {0, 1}
  BY <1>1, SemTypes
<1>4. Cardinality({}) = 0 /\ \A i : Cardinality({i}) = 1
  BY FS_EmptySet, FS_Singleton
<1>5. CASE \E i \in Phil : InMonitor(i)
  <2>1. PICK i \in Phil : InMonitor(i)
    BY <1>5
  <2>2. Active = {i} /\ Handed = {} /\ mutex.value = 0 /\ next.value = 0
    BY <1>1, <1>2, <2>1 DEF OwnerInv, Handed
  <2>3. Cardinality(Active) = 1 /\ Cardinality(Handed) = 0
    BY <1>4, <2>2
  <2> QED BY <2>2, <2>3 DEF BatonOK
<1>6. CASE ~\E i \in Phil : InMonitor(i)
  <2>1. Active = {}
    BY <1>2, <1>6
  <2>2. CASE \E i \in Phil : cv[i].value = 1
    <3>1. PICK i \in Phil : cv[i].value = 1
      BY <2>2
    <3>2. Handed = {i} /\ mutex.value = 0 /\ next.value = 0
      BY <1>1, <1>3, <3>1 DEF UnitInv, Handed
    <3> QED BY <1>4, <2>1, <3>2 DEF BatonOK
  <2>3. CASE ~\E i \in Phil : cv[i].value = 1
    <3>1. Handed = {}
      BY <2>3 DEF Handed
    <3>2. mutex.value + next.value = 1
      BY <1>1, <1>3, <1>6, <2>3 DEF UnitInv, NotLost
    <3> QED BY <1>3, <1>4, <2>1, <3>1, <3>2 DEF BatonOK
  <2> QED BY <2>2, <2>3
<1> QED BY <1>5, <1>6

\* cond_wait, cond_signal and the ends of the two routines pass the monitor on
\* so that it always has one owner or is on its way to one, with next_count
\* right and the condition of a signalled philosopher still true.
THEOREM MonitorCorrect == Spec => []MonitorOK
<1>1. IInv => MonitorOK
  BY OneBaton DEF IInv, EatInv, SignalledInv, MonitorOK, SignalledEats, Asleep
<1> QED BY <1>1, MonitorInvariant, PTL

\* The state array takes the steps of the abstract problem: a philosopher is
\* granted its forks, by itself or a neighbour, only while both are free.
THEOREM MonitorRefines == Spec => DiningRefinement
<1>1. Init => Dining!Init
  BY DEF Init, Dining!Init, Phil, Dining!Phil
<1>2. ASSUME IInv, [Next]_vars PROVE [Dining!Next]_state_condvar
  <2>1. CASE UNCHANGED state_condvar
    BY <2>1
  <2>2. ASSUME NEW i \in Phil, Hungry(i) PROVE Dining!Next
    <3>1. state_condvar[i] = "THINKING"
      BY <1>2, <2>2 DEF Hungry, At, IInv, EatInv, StateInv
    <3> QED BY <2>2, <3>1 DEF Hungry, Dining!Next, Dining!Hungry, Phil, Dining!Phil
  <2>3. ASSUME NEW i \in Phil, PutDown(i) PROVE Dining!Next
    <3>1. state_condvar[i] = "EATING"
      BY <1>2, <2>3 DEF PutDown, At, IInv, EatInv, StateInv
    <3> QED BY <2>3, <3>1 DEF PutDown, Dining!Next, Dining!Done, Phil, Dining!Phil
  <2>4. ASSUME NEW i \in Phil, Grant(i) PROVE Dining!Next
    <3> DEFINE w == Head(todo[i])
    <3>1. todo[i] # <<>> /\ MayEat(w)
      BY <1>2, <2>4 DEF Grant, At, IInv, EatInv, GrantInv
    <3>2. todo[i] \in Seq(Phil)
      BY <1>2 DEF IInv, TypeOK
    <3>3. w \in Phil
      BY <3>1, <3>2
    <3>4. state_condvar' = [state_condvar EXCEPT ![w] = "EATING"]
      BY <2>4 DEF Grant
    <3> HIDE DEF w
    <3>5. Dining!Free(w) /\ state_condvar[w] = "HUNGRY"
      BY <3>1 DEF MayEat, Dining!Free, LEFT, RIGHT, Dining!LEFT, Dining!RIGHT
    <3> QED BY <3>3, <3>4, <3>5 DEF Dining!Next, Dining!Eat, Phil, Dining!Phil
  <2> QED BY <1>2, <2>1, <2>2, <2>3, <2>4
     DEF Next, Done, Step, vars, Take, TestYes, TestNo, SignalUp, SignalNone,
         SignalDown, SignalRet, StillHungry, WaitDown, WaitRet, BodyDone, Leave, Put
<1> QED BY <1>1, <1>2, MonitorInvariant, PTL DEF Spec, DiningRefinement, Dining!Spec
=============================================================================
