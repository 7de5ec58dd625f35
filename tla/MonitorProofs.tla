----------------------------- MODULE MonitorProofs -----------------------------
(***************************************************************************)
(* The philosophers with a monitor implement Dining, for any number of     *)
(* philosophers and of meals, and the monitor has one owner at a time.     *)
(***************************************************************************)
EXTENDS Monitor, FiniteSetTheorems, TLAPS

\* The end of a procedure, where the array says that nobody eats or waits.
AwayPoint == {"loop", "take", "hungry", "quit", "testRight", "leavePut"}

(***************************************************************************)
(* What the point of a philosopher says about its entry in the array.      *)
(***************************************************************************)
PointOK(i) ==
  /\ pc[i] \in Point
  /\ pc[i] \in AwayPoint => phil[i] = "THINKING"
  /\ pc[i] \in {"put", "finish"} => phil[i] = "EATING"
  /\ pc[i] \in {"takeLoop", "wait", "waited"} => phil[i] \in {"HUNGRY", "EATING"}
  /\ pc[i] \in {"test", "signal", "signalled"} =>
       IF ret[i] = "takeLoop" THEN phil[i] \in {"HUNGRY", "EATING"}
       ELSE phil[i] = "THINKING" /\ ret[i] \in {"testRight", "leavePut"}

Inv ==
  /\ phil \in [Phil -> {"THINKING", "HUNGRY", "EATING"}]
  /\ pc \in [Phil -> Point]
  /\ ret \in [Phil -> Point]
  /\ \A i \in Phil : PointOK(i)

\* Neighbours are philosophers.
LEMMA NeighbourType == \A i \in Phil : Left(i) \in Phil /\ Right(i) \in Phil
  BY NAssumption DEF Phil, Left, Right

\* The threads start thinking.
LEMMA InitInv == Init => Inv
  BY DEF Init, Inv, PointOK, AwayPoint, Point

\* The philosopher that phi_test_condvar is called for is one.
LEMMA TestedType == \A i \in Phil : Tested(i) \in Phil
  BY NeighbourType DEF Tested

\* Every step preserves the invariant.
LEMMA NextInv == Inv /\ [Next]_vars => Inv'
<1> SUFFICES ASSUME Inv, [Next]_vars PROVE Inv'
  OBVIOUS
<1> USE DEF Inv, PointOK, AwayPoint, Point, Goto, At, semVars, counts, local
<1>1. ASSUME NEW i \in Phil, Dispatch(i) PROVE Inv'
  BY <1>1 DEF Dispatch
<1>2. ASSUME NEW i \in Phil, Think(i) PROVE Inv'
  BY <1>2 DEF Think
<1>3. ASSUME NEW i \in Phil, Enter(i) PROVE Inv'
  BY <1>3 DEF Enter
<1>4. ASSUME NEW i \in Phil, GetHungry(i) PROVE Inv'
  BY <1>4 DEF GetHungry
<1>5. ASSUME NEW i \in Phil, Finish(i) PROVE Inv'
  BY <1>5 DEF Finish
<1>6. ASSUME NEW i \in Phil, Test(i) PROVE Inv'
  <2> DEFINE j == Tested(i)
  <2>1. j \in Phil BY TestedType
  <2>2. /\ phil' = phil \/ (phil[j] = "HUNGRY" /\ phil' = [phil EXCEPT ![j] = "EATING"])
        /\ pc' = [pc EXCEPT ![i] = "signal"] \/ pc' = [pc EXCEPT ![i] = ret[i]]
        /\ ret' = ret /\ pc[i] = "test"
    BY <1>6 DEF Test, MayEat, Serve
  <2> HIDE DEF j
  <2>3. QED BY <2>1, <2>2
<1>7. ASSUME NEW i \in Phil, SignalWait(i) PROVE Inv'
  BY <1>7 DEF SignalWait
<1>8. ASSUME NEW i \in Phil, SignalEnd(i) PROVE Inv'
  BY <1>8 DEF SignalEnd
<1>9. ASSUME NEW i \in Phil, TestRight(i) PROVE Inv'
  BY <1>9 DEF TestRight
<1>10. ASSUME NEW i \in Phil, Wait(i) \/ WaitBlock(i) \/ WaitEnd(i) PROVE Inv'
  BY <1>10 DEF Wait, WaitBlock, WaitEnd
<1>11. ASSUME NEW i \in Phil, Leave(i) PROVE Inv'
  BY <1>11 DEF Leave
<1>12. CASE UNCHANGED vars BY <1>12 DEF vars
<1>13. QED
  BY <1>1, <1>2, <1>3, <1>4, <1>5, <1>6, <1>7, <1>8, <1>9, <1>10, <1>11, <1>12
  DEF Next, Step, Done

\* The invariant holds in every reachable state.
LEMMA Invariance == Spec => []Inv
  BY InitInv, NextInv, PTL DEF Spec

(***************************************************************************)
(* Every step changes the array as a step of Dining does, or not at all.   *)
(***************************************************************************)
LEMMA StepSim ==
  ASSUME Inv, [Next]_vars
  PROVE  [D!Next]_phil
<1> USE DEF At, Goto, D!Phil, Phil, D!Left, D!Right, Left, Right
<1>1. ASSUME NEW i \in Phil, GetHungry(i) PROVE D!Next
  BY <1>1 DEF GetHungry, D!Next, D!GetHungry, Inv, PointOK, AwayPoint
<1>2. ASSUME NEW i \in Phil, Finish(i) PROVE D!Next
  BY <1>2 DEF Finish, D!Next, D!Finish, Inv, PointOK
<1>3. ASSUME NEW i \in Phil, Test(i) PROVE [D!Next]_phil
  <2>1. CASE MayEat(Tested(i))
    <3>1. D!Eat(Tested(i))
      BY <1>3, <2>1 DEF Test, MayEat, Serve, D!Eat
    <3>2. QED BY <3>1, TestedType DEF D!Next
  <2>2. CASE ~MayEat(Tested(i)) BY <1>3, <2>2 DEF Test
  <2>3. QED BY <2>1, <2>2
<1>4. QED
  BY <1>1, <1>2, <1>3
  DEF Next, Dispatch, Step, Done, Think, Enter, SignalWait, SignalEnd, TestRight,
      Wait, WaitBlock, WaitEnd, Leave, vars

(***************************************************************************)
(* The monitor program implements Dining.                                  *)
(***************************************************************************)
THEOREM MonitorImplementsDining == Spec => ImplementsDining
<1>1. Init => D!Init BY DEF Init, D!Init, Phil, D!Phil
<1>2. Inv /\ [Next]_vars => [D!Next]_phil BY StepSim
<1>3. QED BY <1>1, <1>2, Invariance, PTL DEF Spec, ImplementsDining, D!Spec

-----------------------------------------------------------------------------
(***************************************************************************)
(* The queue a philosopher can wait in is known from its point.            *)
(***************************************************************************)
Place(i) ==
  IF pc[i] \in {"hungry", "finish"} THEN mutex
  ELSE IF pc[i] = "signalled" THEN next
  ELSE IF pc[i] = "waited" THEN cv(i)
  ELSE << "none", 0 >>

Signallers == {i \in Phil : pc[i] \in {"signal", "signalled"}}

QueueOK ==
  /\ \A x \in Sem : \A a, b \in 1..Len(queue[x]) : queue[x][a] = queue[x][b] => a = b
  /\ \A i \in Phil, x \in Sem : Waiting(i, x) => x = Place(i)

\* A thread between the halves of cond_signal or cond_wait has the CPU.
RunOK ==
  \A i \in Phil :
    /\ running = i => ~Blocked(i)
    /\ pc[i] \in {"signal", "wait"} => running = i

CountOK ==
  /\ next_count = Cardinality(Signallers)
  /\ count \in [Phil -> 0..1]
  /\ \A i \in Phil : count[i] = IF pc[i] \in {"wait", "waited"} THEN 1 ELSE 0

\* OneOwner without cardinalities.
OwnerOK ==
  /\ \A i, j \in Phil : Owner(i) /\ Owner(j) => i = j
  /\ value[mutex] = IF \E i \in Phil : Owner(i) THEN 0 ELSE 1

IterOK == iter \in [Phil -> 0..TIMES]

OwnerPoint == {"hungry", "finish", "test", "testRight", "signalled", "takeLoop",
               "waited", "leavePut"}

(***************************************************************************)
(* The inductive invariant of the monitor.  That no signal is stored rests *)
(* on the single owner: whoever counts the waiters of a semaphore owns the *)
(* monitor, so that the others are in the queues they have gone to.        *)
(***************************************************************************)
OwnerInv ==
  /\ Inv /\ SemTypeOK(Sem, Phil) /\ IterOK
  /\ QueueOK /\ RunOK /\ CountOK /\ OwnerOK
  /\ NoStoredSignal /\ SignalledEats

\* The semaphores are different ones.
LEMMA SemDistinct ==
  /\ mutex \in Sem /\ next \in Sem /\ mutex # next
  /\ \A i \in Phil : cv(i) \in Sem /\ cv(i) # mutex /\ cv(i) # next
  /\ \A i, j \in Phil : cv(i) = cv(j) => i = j
  /\ << "none", 0 >> \notin Sem
  BY DEF mutex, next, cv, Sem

\* A thread on the CPU is none of the absent one.
LEMMA RunningPhil == \A i \in Phil : i # NoThread
  BY NoThreadAssumption DEF Phil

\* A thread is blocked in the queue of its place or not at all.
LEMMA BlockedPlace ==
  ASSUME OwnerInv, NEW i \in Phil
  PROVE  Blocked(i) <=> Place(i) \in Sem /\ Waiting(i, Place(i))
  BY DEF OwnerInv, SemTypeOK, QueueOK, Blocked

\* A queue with somebody in it: up hands the unit to the first one.
LEMMA UpHands ==
  ASSUME OwnerInv, NEW x \in Sem, queue[x] # << >>, Up(x)
  PROVE  /\ value' = value /\ queue' \in [Sem -> Seq(Phil)]
         /\ \A y \in Sem : \A a, b \in 1..Len(queue'[y]) :
              queue'[y][a] = queue'[y][b] => a = b
         /\ \A t \in Phil, y \in Sem : Waiting(t, y)' => Waiting(t, y)
         /\ \E h \in Phil :
              /\ x = Place(h) /\ Blocked(h) /\ ~Blocked(h)'
              /\ \A t \in Phil \ {h} : Blocked(t)' <=> Blocked(t)
<1> DEFINE q == queue[x]
<1>1. /\ q \in Seq(Phil) /\ q # << >> /\ Len(q) \in Nat \ {0} /\ q[1] \in Phil
      /\ Tail(q) \in Seq(Phil) /\ Len(Tail(q)) = Len(q) - 1
      /\ \A k \in 1..Len(Tail(q)) : Tail(q)[k] = q[k + 1] /\ k + 1 \in 1..Len(q)
      /\ \A k \in 2..Len(q) : q[k] = Tail(q)[k - 1] /\ k - 1 \in 1..Len(Tail(q))
  BY DEF OwnerInv, SemTypeOK
<1>2. /\ value' = value /\ queue' = [queue EXCEPT ![x] = Tail(q)]
      /\ queue \in [Sem -> Seq(Phil)]
  BY DEF Up, OwnerInv, SemTypeOK
<1>3. queue' \in [Sem -> Seq(Phil)] /\ queue'[x] = Tail(q)
      /\ \A y \in Sem \ {x} : queue'[y] = queue[y]
  BY <1>1, <1>2
<1>4. \A a, b \in 1..Len(q) : q[a] = q[b] => a = b
  BY DEF OwnerInv, QueueOK
<1> HIDE DEF q
<1>5. \A t : Waiting(t, x) <=> \E k \in 1..Len(q) : q[k] = t
  BY DEF Waiting, q
<1>6. \A t : Waiting(t, x)' <=> \E k \in 1..Len(Tail(q)) : Tail(q)[k] = t
  BY <1>3 DEF Waiting
<1>7. \A t : Waiting(t, x)' <=> Waiting(t, x) /\ t # q[1]
  <2>1. ASSUME NEW t, Waiting(t, x)' PROVE Waiting(t, x) /\ t # q[1]
    <3>1. PICK k \in 1..Len(Tail(q)) : Tail(q)[k] = t BY <1>6, <2>1
    <3>2. q[k + 1] = t /\ k + 1 \in 1..Len(q) /\ k + 1 # 1 /\ 1 \in 1..Len(q)
      BY <1>1, <3>1
    <3>3. QED BY <1>4, <1>5, <3>2
  <2>2. ASSUME NEW t, Waiting(t, x), t # q[1] PROVE Waiting(t, x)'
    <3>1. PICK k \in 1..Len(q) : q[k] = t BY <1>5, <2>2
    <3>2. k \in 2..Len(q) BY <1>1, <2>2, <3>1
    <3>3. QED BY <1>1, <1>6, <3>1, <3>2
  <2>3. QED BY <2>1, <2>2
<1>8. \A t : \A y \in Sem \ {x} : Waiting(t, y)' <=> Waiting(t, y)
  BY <1>3 DEF Waiting
<1>9. \A y \in Sem : \A a, b \in 1..Len(queue'[y]) : queue'[y][a] = queue'[y][b] => a = b
  <2>1. \A a, b \in 1..Len(Tail(q)) : Tail(q)[a] = Tail(q)[b] => a = b
    BY <1>1, <1>4
  <2>2. QED BY <1>3, <2>1 DEF OwnerInv, QueueOK
<1>10. PICK h \in Phil : h = q[1] BY <1>1
<1>11. DOMAIN queue = Sem /\ DOMAIN queue' = Sem BY <1>2, <1>3
<1>12. Waiting(h, x) /\ x = Place(h) BY <1>1, <1>5, <1>10 DEF OwnerInv, QueueOK
<1>13. \A y \in Sem : ~Waiting(h, y)'
  BY <1>7, <1>8, <1>10, <1>12 DEF OwnerInv, QueueOK
<1>14. \A t : Blocked(t) <=> \E y \in Sem : Waiting(t, y) BY <1>11 DEF Blocked
<1>15. \A t : Blocked(t)' <=> \E y \in Sem : Waiting(t, y)' BY <1>11 DEF Blocked
<1>16. ASSUME NEW t \in Phil, NEW y \in Sem
       PROVE  Waiting(t, y)' <=> Waiting(t, y) /\ ~(t = h /\ y = x)
  BY <1>7, <1>8, <1>10
<1>17. Blocked(h) /\ ~Blocked(h)' /\ \A t \in Phil \ {h} : Blocked(t)' <=> Blocked(t)
  BY <1>12, <1>13, <1>14, <1>15, <1>16
<1>18. QED BY <1>2, <1>3, <1>9, <1>12, <1>16, <1>17

\* An empty queue: up counts the unit.
LEMMA UpCounts ==
  ASSUME SemTypeOK(Sem, Phil), NEW x \in Sem, queue[x] = << >>, Up(x)
  PROVE  /\ value' \in [Sem -> Nat] /\ queue' = queue /\ value'[x] = value[x] + 1
         /\ \A y \in Sem \ {x} : value'[y] = value[y]
  BY DEF SemTypeOK, Up

\* down without a unit puts the thread into the queue.
LEMMA DownBlocks ==
  ASSUME OwnerInv, NEW i \in Phil, running = i, NEW x \in Sem, value[x] = 0, Down(i, x)
  PROVE  /\ value' = value /\ queue' \in [Sem -> Seq(Phil)] /\ running' = NoThread
         /\ \A y \in Sem : \A a, b \in 1..Len(queue'[y]) :
              queue'[y][a] = queue'[y][b] => a = b
         /\ \A t \in Phil, y \in Sem : Waiting(t, y)' <=> Waiting(t, y) \/ (t = i /\ y = x)
         /\ Blocked(i)' /\ \A t \in Phil \ {i} : Blocked(t)' <=> Blocked(t)
<1> DEFINE q == queue[x]
<1>1. /\ q \in Seq(Phil) /\ Append(q, i) \in Seq(Phil) /\ Len(q) \in Nat
      /\ Len(Append(q, i)) = Len(q) + 1 /\ Append(q, i)[Len(q) + 1] = i
      /\ \A k \in 1..Len(q) : Append(q, i)[k] = q[k]
  BY DEF OwnerInv, SemTypeOK
<1>2. /\ value' = value /\ queue' = [queue EXCEPT ![x] = Append(q, i)]
      /\ queue \in [Sem -> Seq(Phil)] /\ running' = NoThread
  BY DEF Down, OwnerInv, SemTypeOK
<1>3. queue' \in [Sem -> Seq(Phil)] /\ queue'[x] = Append(q, i)
      /\ \A y \in Sem \ {x} : queue'[y] = queue[y]
  BY <1>1, <1>2
<1>4. \A a, b \in 1..Len(q) : q[a] = q[b] => a = b
  BY DEF OwnerInv, QueueOK
<1>5. DOMAIN queue = Sem /\ DOMAIN queue' = Sem BY <1>2, <1>3
<1>6. \A y \in Sem : ~Waiting(i, y)
  BY <1>5 DEF OwnerInv, RunOK, Blocked
<1> HIDE DEF q
<1>7. \A t : Waiting(t, x) <=> \E k \in 1..Len(q) : q[k] = t
  BY DEF Waiting, q
<1>8. \A t : Waiting(t, x)' <=> \E k \in 1..Len(Append(q, i)) : Append(q, i)[k] = t
  BY <1>3 DEF Waiting
<1>9. \A t : Waiting(t, x)' <=> Waiting(t, x) \/ t = i
  <2>1. ASSUME NEW t, Waiting(t, x)' PROVE Waiting(t, x) \/ t = i
    BY <1>1, <1>7, <1>8, <2>1
  <2>2. ASSUME NEW t, Waiting(t, x) PROVE Waiting(t, x)'
    BY <1>1, <1>7, <1>8, <2>2
  <2>3. Waiting(i, x)'
    <3>1. Len(q) + 1 \in 1..Len(Append(q, i)) BY <1>1
    <3>2. QED BY <1>1, <1>8, <3>1
  <2>4. QED BY <2>1, <2>2, <2>3
<1>10. \A t : \A y \in Sem \ {x} : Waiting(t, y)' <=> Waiting(t, y)
  BY <1>3 DEF Waiting
<1>11. \A y \in Sem : \A a, b \in 1..Len(queue'[y]) : queue'[y][a] = queue'[y][b] => a = b
  <2>1. \A k \in 1..Len(q) : q[k] # i BY <1>6, <1>7
  <2>2. \A a, b \in 1..Len(Append(q, i)) : Append(q, i)[a] = Append(q, i)[b] => a = b
    BY <1>1, <1>4, <2>1
  <2>3. QED BY <1>3, <2>2 DEF OwnerInv, QueueOK
<1>12. \A t : Blocked(t) <=> \E y \in Sem : Waiting(t, y) BY <1>5 DEF Blocked
<1>13. \A t : Blocked(t)' <=> \E y \in Sem : Waiting(t, y)' BY <1>5 DEF Blocked
<1>14. QED BY <1>2, <1>3, <1>9, <1>10, <1>11, <1>12, <1>13

\* The threads start outside the monitor.
LEMMA InitOwner == Init => OwnerInv
<1> SUFFICES ASSUME Init PROVE OwnerInv
  OBVIOUS
<1>1. Inv BY InitInv
<1>2. /\ \A x \in Sem : queue[x] = << >> /\ value[x] = IF x = mutex THEN 1 ELSE 0
      /\ DOMAIN queue = Sem /\ running = NoThread
      /\ SemTypeOK(Sem, Phil)
  BY DEF Init, SemInit, SemTypeOK
<1>3. \A t : \A x \in Sem : ~Waiting(t, x) BY <1>2 DEF Waiting
<1>4. \A t : ~Blocked(t) BY <1>2, <1>3 DEF Blocked
<1>5. QueueOK BY <1>2, <1>3 DEF QueueOK
<1>6. RunOK BY <1>2, <1>4, RunningPhil DEF RunOK, Init
<1>7. CountOK
  <2>1. Signallers = {} BY DEF Signallers, Init
  <2>2. QED BY <2>1, FS_EmptySet DEF CountOK, Init
<1>8. OwnerOK BY <1>2, SemDistinct DEF OwnerOK, Owner, Init
<1>9. NoStoredSignal /\ SignalledEats /\ IterOK
  BY <1>2, NAssumption DEF NoStoredSignal, SignalledEats, Init, IterOK
<1>10. QED BY <1>1, <1>2, <1>5, <1>6, <1>7, <1>8, <1>9 DEF OwnerInv

\* There are finitely many threads in cond_signal.
LEMMA SignallersFinite ==
  /\ IsFiniteSet(Signallers) /\ Cardinality(Signallers) \in 0..N
  /\ IsFiniteSet(Signallers')
<1>1. IsFiniteSet(Phil) /\ Cardinality(Phil) = N
  BY FS_Interval, NAssumption DEF Phil
<1>2. Signallers \in SUBSET Phil /\ Signallers' \in SUBSET Phil
  BY DEF Signallers, Phil
<1>3. QED BY <1>1, <1>2, FS_Subset, FS_CardinalityType, NAssumption

\* Queues from which threads have only gone keep their order and places.
LEMMA QueuesKept ==
  ASSUME OwnerInv, NEW i \in Phil, running = i,
         \A t \in Phil \ {i} : pc'[t] = pc[t],
         \A y \in Sem : \A a, b \in 1..Len(queue'[y]) : queue'[y][a] = queue'[y][b] => a = b,
         \A t \in Phil, y \in Sem : Waiting(t, y)' => Waiting(t, y)
  PROVE  QueueOK'
<1>1. DOMAIN queue = Sem BY DEF OwnerInv, SemTypeOK
<1>2. \A y \in Sem : ~Waiting(i, y) BY <1>1 DEF OwnerInv, RunOK, Blocked
<1>3. ASSUME NEW t \in Phil, NEW y \in Sem, Waiting(t, y)' PROVE y = Place(t)'
  <2>1. t # i /\ y = Place(t) BY <1>2, <1>3 DEF OwnerInv, QueueOK
  <2>2. QED BY <2>1 DEF Place, cv
<1>4. QED BY <1>3 DEF QueueOK

(***************************************************************************)
(* A step that leaves the semaphores alone, and in which a thread neither  *)
(* enters nor leaves the monitor.                                          *)
(***************************************************************************)
LEMMA Quiet ==
  ASSUME OwnerInv, NEW i \in Phil, running = i, running' \in {running, NoThread},
         UNCHANGED << value, queue >>,
         \A t \in Phil \ {i} : pc'[t] = pc[t],
         pc'[i] \notin {"signal", "wait"}, pc[i] \in OwnerPoint <=> pc'[i] \in OwnerPoint
  PROVE  /\ SemTypeOK(Sem, Phil)' /\ QueueOK' /\ RunOK' /\ OwnerOK' /\ NoStoredSignal'
         /\ \A t \in Phil : Blocked(t)' <=> Blocked(t)
<1>1. \A t \in Phil, y \in Sem : Waiting(t, y)' <=> Waiting(t, y) BY DEF Waiting
<1>2. \A t \in Phil : Blocked(t)' <=> Blocked(t) BY DEF Blocked, Waiting
<1>3. QueueOK' BY <1>1, QueuesKept DEF OwnerInv, QueueOK
<1>4. RunOK' BY <1>2, RunningPhil DEF OwnerInv, RunOK
<1>5. \A t \in Phil : Owner(t)' <=> Owner(t) BY <1>2 DEF Owner, OwnerPoint
<1>6. OwnerOK' BY <1>5 DEF OwnerInv, OwnerOK
<1>7. QED BY <1>2, <1>3, <1>4, <1>6, RunningPhil DEF OwnerInv, SemTypeOK, NoStoredSignal

\* A dispatched thread is not blocked.
LEMMA DispatchOwner ==
  ASSUME OwnerInv, NEW i \in Phil, Dispatch(i)
  PROVE  OwnerInv'
<1>1. Inv' BY NextInv DEF OwnerInv, Next
<1>2. UNCHANGED << value, queue, count, next_count, phil, iter, pc >> /\ running' = i
  BY DEF Dispatch, counts, local
<1>3. \A t \in Phil : Blocked(t)' <=> Blocked(t) BY <1>2 DEF Blocked, Waiting
<1>4. QueueOK' BY <1>2 DEF OwnerInv, QueueOK, Waiting, Place, cv
<1>5. RunOK' BY <1>2, <1>3, RunningPhil DEF OwnerInv, RunOK, Dispatch
<1>6. CountOK' BY <1>2 DEF OwnerInv, CountOK, Signallers
<1>7. OwnerOK' BY <1>2, <1>3 DEF OwnerInv, OwnerOK, Owner
<1>8. SemTypeOK(Sem, Phil)' /\ NoStoredSignal' /\ SignalledEats' /\ IterOK'
  BY <1>2, <1>3 DEF OwnerInv, SemTypeOK, NoStoredSignal, SignalledEats, IterOK
<1>9. QED BY <1>1, <1>4, <1>5, <1>6, <1>7, <1>8 DEF OwnerInv

\* The steps in which nobody enters or leaves the monitor.
LEMMA QuietOwner ==
  ASSUME OwnerInv, NEW i \in Phil,
         Think(i) \/ GetHungry(i) \/ Finish(i) \/ TestRight(i) \/ SignalEnd(i) \/ WaitEnd(i)
  PROVE  OwnerInv'
<1> USE DEF At, Goto, local, counts, semVars
<1>1. Inv' BY NextInv DEF OwnerInv, Next, Step
<1>2. /\ running = i /\ running' \in {running, NoThread} /\ UNCHANGED << value, queue >>
      /\ \A t \in Phil \ {i} : pc'[t] = pc[t] /\ phil'[t] = phil[t]
      /\ pc'[i] \notin {"signal", "wait", "waited"}
      /\ pc[i] \in OwnerPoint <=> pc'[i] \in OwnerPoint
  BY DEF OwnerInv, Inv, PointOK, Think, GetHungry, Finish, TestRight, SignalEnd, WaitEnd,
         OwnerPoint
<1>3. /\ SemTypeOK(Sem, Phil)' /\ QueueOK' /\ RunOK' /\ OwnerOK' /\ NoStoredSignal'
      /\ \A t \in Phil : Blocked(t)' <=> Blocked(t)
  BY <1>2, Quiet
<1>4. SignalledEats' BY <1>2, <1>3 DEF OwnerInv, SignalledEats
<1>5. next_count' = Cardinality(Signallers')
  <2>1. CASE SignalEnd(i)
    <3>1. Signallers' = Signallers \ {i} /\ i \in Signallers
      BY <2>1, <1>2 DEF OwnerInv, Inv, PointOK, SignalEnd, Signallers
    <3>2. QED BY <2>1, <3>1, SignallersFinite, FS_RemoveElement
          DEF OwnerInv, CountOK, SignalEnd
  <2>2. CASE ~SignalEnd(i)
    <3>1. Signallers' = Signallers /\ next_count' = next_count
      BY <2>2, <1>2 DEF OwnerInv, Inv, Think, GetHungry, Finish, TestRight, WaitEnd,
                        Signallers
    <3>2. QED BY <3>1 DEF OwnerInv, CountOK
  <2>3. QED BY <2>1, <2>2
<1>6. /\ count' \in [Phil -> 0..1]
      /\ \A j \in Phil : count'[j] = IF pc'[j] \in {"wait", "waited"} THEN 1 ELSE 0
  <2>1. /\ count' \in [Phil -> 0..1] /\ count'[i] = 0
        /\ \A j \in Phil \ {i} : count'[j] = count[j]
    BY DEF OwnerInv, CountOK, Inv, Think, GetHungry, Finish, TestRight, SignalEnd, WaitEnd
  <2>2. QED BY <1>2, <2>1 DEF OwnerInv, CountOK
<1>7. IterOK'
  BY NAssumption DEF OwnerInv, IterOK, Think, GetHungry, Finish, TestRight, SignalEnd, WaitEnd
<1>8. QED BY <1>1, <1>3, <1>4, <1>5, <1>6, <1>7 DEF OwnerInv, CountOK

(***************************************************************************)
(* down(&mutex): the thread becomes the owner of a free monitor, and waits *)
(* for one that is not free.                                               *)
(***************************************************************************)
LEMMA EnterOwner ==
  ASSUME OwnerInv, NEW i \in Phil, Enter(i)
  PROVE  OwnerInv'
<1> USE DEF Goto, local, counts
<1>1. Inv' BY NextInv DEF OwnerInv, Next, Step
<1>2. /\ running = i /\ pc[i] \in {"take", "put"} /\ pc'[i] \in {"hungry", "finish"}
      /\ \A t \in Phil \ {i} : pc'[t] = pc[t]
      /\ UNCHANGED << phil, count, next_count, iter >> /\ Down(i, mutex)
  BY DEF OwnerInv, Inv, Enter
<1>3. CountOK'
  <2>1. Signallers' = Signallers BY <1>2 DEF Signallers
  <2>2. QED BY <1>2, <2>1 DEF OwnerInv, CountOK
<1>4. IterOK' BY <1>2 DEF OwnerInv, IterOK
<1>5. CASE value[mutex] > 0
  <2>1. /\ value' = [value EXCEPT ![mutex] = @ - 1] /\ UNCHANGED << queue, running >>
        /\ value \in [Sem -> Nat] /\ \A t \in Phil : ~Owner(t) /\ value[mutex] = 1
    BY <1>2, <1>5 DEF Down, OwnerInv, SemTypeOK, OwnerOK
  <2>2. /\ value' \in [Sem -> Nat] /\ value'[mutex] = 0
        /\ \A y \in Sem \ {mutex} : value'[y] = value[y]
    BY <2>1, SemDistinct
  <2>3. /\ \A t \in Phil, y \in Sem : Waiting(t, y)' <=> Waiting(t, y)
        /\ \A t \in Phil : Blocked(t)' <=> Blocked(t)
    BY <2>1 DEF Blocked, Waiting
  <2>4. SemTypeOK(Sem, Phil)' /\ NoStoredSignal'
    BY <2>1, <2>2 DEF OwnerInv, SemTypeOK, NoStoredSignal
  <2>5. QueueOK' BY <1>2, <2>1, <2>3, QueuesKept DEF OwnerInv, QueueOK
  <2>6. RunOK' BY <1>2, <2>1, <2>3 DEF OwnerInv, RunOK
  <2>7. OwnerOK'
    <3>1. Owner(i)' BY <1>2, <2>3 DEF Owner, OwnerInv, RunOK
    <3>2. \A t \in Phil \ {i} : ~Owner(t)' BY <1>2, <2>1, <2>3 DEF Owner
    <3>3. QED BY <2>2, <3>1, <3>2 DEF OwnerOK
  <2>8. SignalledEats' BY <1>2, <2>3 DEF OwnerInv, SignalledEats
  <2>9. QED BY <1>1, <1>3, <1>4, <2>4, <2>5, <2>6, <2>7, <2>8 DEF OwnerInv
<1>6. CASE ~(value[mutex] > 0)
  <2>1. value[mutex] = 0 BY <1>6, SemDistinct DEF OwnerInv, SemTypeOK
  <2>2. /\ value' = value /\ queue' \in [Sem -> Seq(Phil)] /\ running' = NoThread
        /\ \A y \in Sem : \A a, b \in 1..Len(queue'[y]) :
             queue'[y][a] = queue'[y][b] => a = b
        /\ \A t \in Phil, y \in Sem : Waiting(t, y)' <=> Waiting(t, y) \/ (t = i /\ y = mutex)
        /\ Blocked(i)' /\ \A t \in Phil \ {i} : Blocked(t)' <=> Blocked(t)
    BY <1>2, <2>1, DownBlocks, SemDistinct
  <2>3. SemTypeOK(Sem, Phil)' /\ NoStoredSignal'
    BY <2>2 DEF OwnerInv, SemTypeOK, NoStoredSignal
  <2>4. QueueOK'
    <3>1. ASSUME NEW t \in Phil, NEW y \in Sem, Waiting(t, y)' PROVE y = Place(t)'
      <4>1. CASE t = i
        <5>1. DOMAIN queue = Sem /\ ~Blocked(i)
          BY <1>2 DEF OwnerInv, SemTypeOK, RunOK
        <5>2. ~Waiting(i, y) BY <5>1 DEF Blocked
        <5>3. QED BY <1>2, <2>2, <3>1, <4>1, <5>2 DEF Place, mutex
      <4>2. CASE t # i
        BY <1>2, <2>2, <3>1, <4>2 DEF Place, cv, OwnerInv, QueueOK
      <4>3. QED BY <4>1, <4>2
    <3>2. QED BY <2>2, <3>1 DEF QueueOK
  <2>5. RunOK' BY <1>2, <2>2, RunningPhil DEF OwnerInv, RunOK
  <2>6. OwnerOK'
    <3>1. \A t \in Phil : Owner(t)' <=> Owner(t) BY <1>2, <2>2 DEF Owner
    <3>2. QED BY <2>2, <3>1 DEF OwnerInv, OwnerOK
  <2>7. SignalledEats' BY <1>2, <2>2 DEF OwnerInv, SignalledEats
  <2>8. QED BY <1>1, <1>3, <1>4, <2>3, <2>4, <2>5, <2>6, <2>7 DEF OwnerInv
<1>7. QED BY <1>5, <1>6

(***************************************************************************)
(* The second halves of cond_signal and cond_wait: without a stored unit   *)
(* the thread blocks, as it does not own the monitor any more.             *)
(***************************************************************************)
LEMMA BlockOwner ==
  ASSUME OwnerInv, NEW i \in Phil, SignalWait(i) \/ WaitBlock(i)
  PROVE  OwnerInv'
<1> USE DEF At, Goto, local, counts
<1>1. Inv' BY NextInv DEF OwnerInv, Next, Step
<1> DEFINE x == IF pc[i] = "signal" THEN next ELSE cv(i)
<1>2. PICK s \in Sem : s = x BY SemDistinct
<1>3. /\ running = i
      /\ \/ pc[i] = "signal" /\ pc'[i] = "signalled" /\ s = next
         \/ pc[i] = "wait" /\ pc'[i] = "waited" /\ s = cv(i)
      /\ \A t \in Phil \ {i} : pc'[t] = pc[t]
      /\ UNCHANGED << phil, count, next_count, iter >> /\ Down(i, s)
  BY <1>2 DEF OwnerInv, Inv, SignalWait, WaitBlock
<1> HIDE DEF x
<1>4. value[s] = 0 BY <1>3, SemDistinct DEF OwnerInv, NoStoredSignal
<1>5. /\ value' = value /\ queue' \in [Sem -> Seq(Phil)] /\ running' = NoThread
      /\ \A y \in Sem : \A a, b \in 1..Len(queue'[y]) :
           queue'[y][a] = queue'[y][b] => a = b
      /\ \A t \in Phil, y \in Sem : Waiting(t, y)' <=> Waiting(t, y) \/ (t = i /\ y = s)
      /\ Blocked(i)' /\ \A t \in Phil \ {i} : Blocked(t)' <=> Blocked(t)
  BY <1>3, <1>4, DownBlocks
<1>6. SemTypeOK(Sem, Phil)' /\ NoStoredSignal' /\ IterOK'
  BY <1>3, <1>5 DEF OwnerInv, SemTypeOK, NoStoredSignal, IterOK
<1>7. QueueOK'
  <2>1. ASSUME NEW t \in Phil, NEW y \in Sem, Waiting(t, y)' PROVE y = Place(t)'
    <3>1. CASE t = i
      <4>1. DOMAIN queue = Sem /\ ~Blocked(i)
        BY <1>3 DEF OwnerInv, SemTypeOK, RunOK
      <4>2. ~Waiting(i, y) BY <4>1 DEF Blocked
      <4>3. QED BY <1>3, <1>5, <2>1, <3>1, <4>2 DEF Place, next, cv
    <3>2. CASE t # i
      BY <1>3, <1>5, <2>1, <3>2 DEF Place, cv, OwnerInv, QueueOK
    <3>3. QED BY <3>1, <3>2
  <2>2. QED BY <1>5, <2>1 DEF QueueOK
<1>8. RunOK' BY <1>3, <1>5, RunningPhil DEF OwnerInv, RunOK
<1>9. OwnerOK'
  <2>1. \A t \in Phil : Owner(t)' <=> Owner(t) BY <1>3, <1>5 DEF Owner
  <2>2. QED BY <1>5, <2>1 DEF OwnerInv, OwnerOK
<1>10. SignalledEats' BY <1>3, <1>5 DEF OwnerInv, SignalledEats
<1>11. CountOK'
  <2>1. Signallers' = Signallers BY <1>3 DEF Signallers
  <2>2. QED BY <1>3, <2>1 DEF OwnerInv, CountOK
<1>12. QED BY <1>1, <1>6, <1>7, <1>8, <1>9, <1>10, <1>11 DEF OwnerInv

(***************************************************************************)
(* phi_test_condvar: the owner finds a thread that it has counted as a     *)
(* waiter in the queue, and hands it the monitor.                          *)
(***************************************************************************)
LEMMA TestOwner ==
  ASSUME OwnerInv, NEW i \in Phil, Test(i)
  PROVE  OwnerInv'
<1> USE DEF At, Goto, local
<1>1. Inv' BY NextInv DEF OwnerInv, Next, Step
<1>2. PICK j \in Phil : j = Tested(i) BY TestedType
<1>3. /\ running = i /\ running' = i /\ pc[i] = "test" /\ UNCHANGED << count, iter >>
      /\ \A t \in Phil \ {i} : pc'[t] = pc[t]
      /\ ret[i] \in {"takeLoop", "testRight", "leavePut"}
  BY DEF Test, OwnerInv, Inv, PointOK
<1>4. IterOK' BY <1>3 DEF OwnerInv, IterOK
<1>5. Owner(i) BY <1>3 DEF Owner, OwnerInv, RunOK
<1>6. CASE MayEat(j) /\ HasWaiter(j)
  <2>1. /\ pc'[i] = "signal" /\ next_count' = next_count + 1 /\ Up(cv(j))
        /\ phil' = [phil EXCEPT ![j] = "EATING"]
    BY <1>2, <1>6 DEF Test, Signal, Serve, OwnerInv, Inv
  <2>2. pc[j] = "waited" /\ j # i /\ Blocked(j)
    <3>1. pc[j] \in {"wait", "waited"}
      BY <1>6 DEF HasWaiter, OwnerInv, CountOK
    <3>2. pc[j] = "waited" /\ j # i BY <1>3, <3>1 DEF OwnerInv, RunOK
    <3>3. QED BY <1>5, <3>2 DEF Owner, OwnerInv, OwnerOK
  <2>3. cv(j) \in Sem /\ queue[cv(j)] # << >>
    <3>1. Place(j) = cv(j) BY <2>2 DEF Place
    <3>2. Waiting(j, cv(j)) BY <2>2, <3>1, BlockedPlace
    <3>3. Len(<< >>) = 0 /\ 1..0 = {} OBVIOUS
    <3>4. QED BY <3>2, <3>3, SemDistinct DEF Waiting
  <2>4. /\ value' = value /\ queue' \in [Sem -> Seq(Phil)]
        /\ \A y \in Sem : \A a, b \in 1..Len(queue'[y]) :
             queue'[y][a] = queue'[y][b] => a = b
        /\ \A t \in Phil, y \in Sem : Waiting(t, y)' => Waiting(t, y)
        /\ ~Blocked(j)' /\ \A t \in Phil \ {j} : Blocked(t)' <=> Blocked(t)
    <3>1. PICK h \in Phil :
            /\ cv(j) = Place(h) /\ Blocked(h) /\ ~Blocked(h)'
            /\ \A t \in Phil \ {h} : Blocked(t)' <=> Blocked(t)
      BY <2>1, <2>3, UpHands
    <3>2. h = j BY <3>1, <2>3, SemDistinct DEF Place
    <3>3. QED BY <2>1, <2>3, <3>1, <3>2, UpHands
  <2>5. SemTypeOK(Sem, Phil)' /\ NoStoredSignal'
    BY <1>3, <2>4 DEF OwnerInv, SemTypeOK, NoStoredSignal
  <2>6. QueueOK' BY <1>3, <2>4, QueuesKept
  <2>7. RunOK' BY <1>3, <2>2, <2>4 DEF OwnerInv, RunOK
  <2>8. OwnerOK'
    <3>1. Owner(j)' BY <1>3, <2>2, <2>4 DEF Owner
    <3>2. ~Owner(i)' BY <2>1 DEF Owner
    <3>3. ASSUME NEW t \in Phil, t # i, t # j PROVE ~Owner(t)'
      <4>1. ~Owner(t) BY <1>5, <3>3 DEF OwnerInv, OwnerOK
      <4>2. QED BY <1>3, <2>4, <3>3, <4>1 DEF Owner
    <3>4. value'[mutex] = 0 BY <1>5, <2>4 DEF OwnerInv, OwnerOK
    <3>5. QED BY <3>1, <3>2, <3>3, <3>4 DEF OwnerOK
  <2>9. SignalledEats'
    BY <1>3, <2>1, <2>2, <2>4 DEF OwnerInv, Inv, SignalledEats
  <2>10. CountOK'
    <3>1. Signallers' = Signallers \cup {i} /\ i \notin Signallers
      BY <1>3, <2>1 DEF Signallers
    <3>2. next_count' = Cardinality(Signallers')
      BY <2>1, <3>1, SignallersFinite, FS_AddElement DEF OwnerInv, CountOK
    <3>3. QED BY <1>3, <2>1, <3>2 DEF OwnerInv, CountOK
  <2>11. QED BY <1>1, <1>4, <2>5, <2>6, <2>7, <2>8, <2>9, <2>10 DEF OwnerInv
<1>7. CASE ~(MayEat(j) /\ HasWaiter(j))
  <2>1. /\ pc'[i] = ret[i] /\ UNCHANGED << value, queue, next_count >>
        /\ phil' = phil \/ phil' = [phil EXCEPT ![j] = "EATING"]
    BY <1>2, <1>7 DEF Test, Serve, OwnerInv, Inv
  <2>2. /\ SemTypeOK(Sem, Phil)' /\ QueueOK' /\ RunOK' /\ OwnerOK' /\ NoStoredSignal'
        /\ \A t \in Phil : Blocked(t)' <=> Blocked(t)
    BY <1>3, <2>1, Quiet DEF OwnerPoint
  <2>3. SignalledEats'
    BY <1>3, <2>1, <2>2 DEF OwnerInv, Inv, SignalledEats
  <2>4. CountOK'
    <3>1. Signallers' = Signallers BY <1>3, <2>1 DEF Signallers
    <3>2. QED BY <1>3, <2>1, <3>1 DEF OwnerInv, CountOK
  <2>5. QED BY <1>1, <1>4, <2>2, <2>3, <2>4 DEF OwnerInv
<1>8. QED BY <1>6, <1>7

(***************************************************************************)
(* The owner that leaves hands the monitor to a signaller, if there is     *)
(* one: it is found in the queue.  Otherwise it goes to the first thread   *)
(* that waits for the mutex, or becomes free.                              *)
(***************************************************************************)
LEMMA ReleaseOwner ==
  ASSUME OwnerInv, NEW i \in Phil, Wait(i) \/ Leave(i)
  PROVE  OwnerInv'
<1> USE DEF At, Goto, local, counts
<1>1. Inv' BY NextInv DEF OwnerInv, Next, Step
<1>2. /\ running = i /\ pc[i] \in {"takeLoop", "leavePut"}
      /\ \A t \in Phil \ {i} : pc'[t] = pc[t] /\ count'[t] = count[t]
      /\ \/ pc'[i] = "wait" /\ running' = running /\ count'[i] = count[i] + 1
         \/ /\ pc'[i] \in {"put", "loop"} /\ running' \in {running, NoThread}
            /\ count'[i] = count[i]
      /\ DOMAIN count' = DOMAIN count
      /\ UNCHANGED << phil, next_count, iter >> /\ Release
  BY DEF OwnerInv, Inv, CountOK, Wait, Leave
<1>3. IterOK' BY <1>2 DEF OwnerInv, IterOK
<1>4. Owner(i) /\ \A t \in Phil \ {i} : ~Owner(t)
  BY <1>2 DEF Owner, OwnerInv, RunOK, OwnerOK
<1>5. value[mutex] = 0 BY <1>4 DEF OwnerInv, OwnerOK
<1>6. CountOK'
  <2>1. Signallers' = Signallers BY <1>2 DEF Signallers
  <2>2. count'[i] = IF pc'[i] = "wait" THEN 1 ELSE 0
    BY <1>2 DEF OwnerInv, CountOK
  <2>3. \A t \in Phil : count'[t] = IF pc'[t] \in {"wait", "waited"} THEN 1 ELSE 0
    BY <1>2, <2>2 DEF OwnerInv, CountOK
  <2>4. count' \in [Phil -> 0..1]
    <3>1. count' = count \/ count' = [count EXCEPT ![i] = @ + 1]
      BY DEF Wait, Leave
    <3>2. QED BY <2>3, <3>1 DEF OwnerInv, CountOK
  <2>5. QED BY <1>2, <2>1, <2>3, <2>4 DEF OwnerInv, CountOK
<1> DEFINE x == IF next_count > 0 THEN next ELSE mutex
<1>7. PICK s \in Sem : s = x BY SemDistinct
<1>8. Up(s) /\ (s = next \/ s = mutex) BY <1>2, <1>7 DEF Release
<1>9. s = next => queue[s] # << >>
  <2>1. SUFFICES ASSUME s = next PROVE queue[next] # << >>
    BY <1>7
  <2>2. next_count > 0 BY <2>1, <1>7, SemDistinct
  <2>3. Signallers # {}
    BY <2>2, FS_EmptySet DEF OwnerInv, CountOK
  <2>4. PICK j \in Phil : pc[j] \in {"signal", "signalled"} BY <2>3 DEF Signallers
  <2>5. pc[j] = "signalled" /\ j # i BY <1>2, <2>4 DEF OwnerInv, RunOK
  <2>6. Blocked(j) BY <1>4, <2>5 DEF Owner
  <2>7. Place(j) = next BY <2>5 DEF Place
  <2>8. Waiting(j, next) BY <2>6, <2>7, BlockedPlace
  <2>9. Len(<< >>) = 0 /\ 1..0 = {} OBVIOUS
  <2>10. QED BY <2>8, <2>9 DEF Waiting
<1> HIDE DEF x
<1>10. CASE queue[s] # << >>
  <2>1. PICK h \in Phil :
          /\ s = Place(h) /\ Blocked(h) /\ ~Blocked(h)'
          /\ \A t \in Phil \ {h} : Blocked(t)' <=> Blocked(t)
    BY <1>8, <1>10, UpHands
  <2>2. /\ value' = value /\ queue' \in [Sem -> Seq(Phil)]
        /\ \A y \in Sem : \A a, b \in 1..Len(queue'[y]) :
             queue'[y][a] = queue'[y][b] => a = b
        /\ \A t \in Phil, y \in Sem : Waiting(t, y)' => Waiting(t, y)
    BY <1>8, <1>10, UpHands
  <2>3. h # i /\ pc[h] \in {"hungry", "finish", "signalled"}
    <3>1. h # i BY <1>2, <2>1 DEF OwnerInv, RunOK
    <3>2. QED BY <1>8, <2>1, <3>1, SemDistinct DEF Place
  <2>4. SemTypeOK(Sem, Phil)' /\ NoStoredSignal'
    BY <1>2, <2>2 DEF OwnerInv, SemTypeOK, NoStoredSignal
  <2>5. QueueOK' BY <1>2, <2>2, QueuesKept
  <2>6. RunOK' BY <1>2, <2>1, <2>3, RunningPhil DEF OwnerInv, RunOK
  <2>7. OwnerOK'
    <3>1. Owner(h)' BY <1>2, <2>1, <2>3 DEF Owner
    <3>2. ~Owner(i)' BY <1>2 DEF Owner
    <3>3. \A t \in Phil \ {i, h} : ~Owner(t)' BY <1>2, <1>4, <2>1 DEF Owner
    <3>4. QED BY <1>5, <2>2, <3>1, <3>2, <3>3 DEF OwnerOK
  <2>8. SignalledEats' BY <1>2, <2>1, <2>3 DEF OwnerInv, SignalledEats
  <2>9. QED BY <1>1, <1>3, <1>6, <2>4, <2>5, <2>6, <2>7, <2>8 DEF OwnerInv
<1>11. CASE queue[s] = << >>
  <2>1. s = mutex BY <1>8, <1>9, <1>11
  <2>2. /\ value' \in [Sem -> Nat] /\ queue' = queue /\ value'[mutex] = 1
        /\ \A y \in Sem \ {mutex} : value'[y] = value[y]
    BY <1>5, <1>8, <1>11, <2>1, UpCounts DEF OwnerInv
  <2>3. /\ \A t \in Phil, y \in Sem : Waiting(t, y)' <=> Waiting(t, y)
        /\ \A t \in Phil : Blocked(t)' <=> Blocked(t)
    BY <2>2 DEF Blocked, Waiting
  <2>4. SemTypeOK(Sem, Phil)' /\ NoStoredSignal'
    BY <1>2, <2>2 DEF OwnerInv, SemTypeOK, NoStoredSignal
  <2>5. QueueOK' BY <1>2, <2>2, <2>3, QueuesKept DEF OwnerInv, QueueOK
  <2>6. RunOK' BY <1>2, <2>3, RunningPhil DEF OwnerInv, RunOK
  <2>7. OwnerOK'
    <3>1. \A t \in Phil : ~Owner(t)' BY <1>2, <1>4, <2>3 DEF Owner
    <3>2. QED BY <2>2, <3>1 DEF OwnerOK
  <2>8. SignalledEats' BY <1>2, <2>3 DEF OwnerInv, SignalledEats
  <2>9. QED BY <1>1, <1>3, <1>6, <2>4, <2>5, <2>6, <2>7, <2>8 DEF OwnerInv
<1>12. QED BY <1>10, <1>11

\* Every step preserves the invariant of the monitor.
LEMMA NextOwner == OwnerInv /\ [Next]_vars => OwnerInv'
<1>1. OwnerInv /\ UNCHANGED vars => OwnerInv'
  <2> SUFFICES ASSUME OwnerInv, UNCHANGED vars PROVE OwnerInv'
    OBVIOUS
  <2>1. UNCHANGED << value, queue, running, count, next_count, phil, iter, pc, ret >>
    BY DEF vars, semVars
  <2>2. Inv' BY <2>1, NextInv DEF OwnerInv, vars
  <2>3. (\A t \in Phil : Blocked(t)' <=> Blocked(t)) /\ QueueOK'
    BY <2>1 DEF OwnerInv, QueueOK, Blocked, Waiting, Place, cv
  <2>4. SemTypeOK(Sem, Phil)' /\ IterOK' /\ NoStoredSignal'
    BY <2>1 DEF OwnerInv, SemTypeOK, IterOK, NoStoredSignal
  <2>5. RunOK' /\ CountOK' /\ OwnerOK' /\ SignalledEats'
    BY <2>1, <2>3
    DEF OwnerInv, RunOK, CountOK, Signallers, OwnerOK, Owner, SignalledEats
  <2>6. QED BY <2>2, <2>3, <2>4, <2>5 DEF OwnerInv
<1>2. QED
  BY <1>1, DispatchOwner, QuietOwner, EnterOwner, TestOwner, BlockOwner, ReleaseOwner
  DEF Next, Step, Done

\* The invariant of the monitor holds in every reachable state.
LEMMA OwnerInvariance == Spec => []OwnerInv
  BY InitOwner, NextOwner, PTL DEF Spec

(***************************************************************************)
(* The variables of the monitor keep their types; no count exceeds N.      *)
(***************************************************************************)
THEOREM TypeCorrect == Spec => []TypeOK
<1>1. OwnerInv => TypeOK
  BY SignallersFinite DEF OwnerInv, Inv, IterOK, CountOK, TypeOK
<1>2. QED BY <1>1, OwnerInvariance, PTL

(***************************************************************************)
(* The monitor is free or has one owner, through mutex, next and all the   *)
(* condition variables (cond_signal, cond_wait and the ends of             *)
(* phi_take_forks_condvar and phi_put_forks_condvar).                      *)
(***************************************************************************)
THEOREM OneOwnerHolds == Spec => []OneOwner
<1>1. OwnerInv => OneOwner
  <2> SUFFICES ASSUME OwnerInv PROVE OneOwner
    OBVIOUS
  <2>1. CASE \E i \in Phil : Owner(i)
    <3>1. PICK i \in Phil : Owner(i) BY <2>1
    <3>2. {j \in Phil : Owner(j)} = {i} BY <3>1 DEF OwnerInv, OwnerOK
    <3>3. Cardinality({i}) = 1 BY FS_Singleton
    <3>4. value[mutex] = 0 BY <2>1 DEF OwnerInv, OwnerOK
    <3>5. QED BY <3>2, <3>3, <3>4 DEF OneOwner
  <2>2. CASE ~\E i \in Phil : Owner(i)
    <3>1. {j \in Phil : Owner(j)} = {} BY <2>2
    <3>2. QED BY <2>2, <3>1, FS_EmptySet DEF OneOwner, OwnerInv, OwnerOK
  <2>3. QED BY <2>1, <2>2
<1>2. QED BY <1>1, OwnerInvariance, PTL

(***************************************************************************)
(* No up of next or of a condition variable is stored: each finds the      *)
(* thread that next_count or count has promised (cond_signal, Release).    *)
(***************************************************************************)
THEOREM NoSignalStored == Spec => []NoStoredSignal
<1>1. OwnerInv => NoStoredSignal BY DEF OwnerInv
<1>2. QED BY <1>1, OwnerInvariance, PTL

(***************************************************************************)
(* A philosopher that cond_wait returns to has its forks: the while loop   *)
(* of phi_take_forks_condvar waits once at most.                           *)
(***************************************************************************)
THEOREM SignalKept == Spec => []SignalledEats
<1>1. OwnerInv => SignalledEats BY DEF OwnerInv
<1>2. QED BY <1>1, OwnerInvariance, PTL

=============================================================================
