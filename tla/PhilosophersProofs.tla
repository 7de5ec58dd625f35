-------------------------- MODULE PhilosophersProofs --------------------------
(***************************************************************************)
(* The philosophers with semaphores implement Dining, for any number of    *)
(* philosophers and of meals, and up and down of s[i] balance.             *)
(***************************************************************************)
EXTENDS Philosophers, TLAPS

\* The points at which a philosopher neither waits for its forks nor has them.
ThinkPoint == {"loop", "take", "hungry", "quit"}

(***************************************************************************)
(* What the point of a philosopher says about its entry in the array.      *)
(***************************************************************************)
PointOK(i) ==
  /\ pc[i] \in ThinkPoint => phil[i] = "THINKING"
  /\ pc[i] \in {"put", "finish"} => phil[i] = "EATING"
  /\ pc[i] \in {"await", "eat"} => phil[i] \in {"HUNGRY", "EATING"}

(***************************************************************************)
(* s[i] has a unit for a philosopher that may eat and has not asked yet,   *)
(* and a waiter for one that has asked and may not eat yet.                *)
(***************************************************************************)
ForksOK(i) ==
  /\ value[s(i)] = IF phil[i] = "EATING" /\ pc[i] \in {"test", "await"} THEN 1 ELSE 0
  /\ queue[s(i)] = IF phil[i] = "HUNGRY" /\ pc[i] = "eat" THEN << i >> ELSE << >>
  /\ running = i => queue[s(i)] = << >>

Inv == TypeOK /\ \A i \in Phil : PointOK(i) /\ ForksOK(i)

\* Neighbours are philosophers.
LEMMA NeighbourType == \A i \in Phil : Left(i) \in Phil /\ Right(i) \in Phil
  BY NAssumption DEF Phil, Left, Right

\* The semaphores are different ones.
LEMMA SemDistinct ==
  /\ mutex \in Sem
  /\ \A i \in Phil : s(i) \in Sem /\ s(i) # mutex
  /\ \A i, j \in Phil : s(i) = s(j) => i = j
  BY DEF mutex, s, Sem

\* A thread on the CPU is none of the absent one.
LEMMA RunningPhil == \A i \in Phil : i # NoThread
  BY NoThreadAssumption DEF Phil

\* The threads start thinking, with every s[i] at 0.
LEMMA InitInv == Init => Inv
<1> SUFFICES ASSUME Init PROVE Inv
  OBVIOUS
<1>1. TypeOK
  BY NAssumption DEF Init, SemInit, TypeOK, SemTypeOK, Point
<1>2. \A i \in Phil : PointOK(i)
  BY DEF Init, PointOK, ThinkPoint
<1>3. \A i \in Phil : ForksOK(i)
  BY SemDistinct, RunningPhil DEF Init, SemInit, ForksOK
<1>4. QED BY <1>1, <1>2, <1>3 DEF Inv

(***************************************************************************)
(* up and down keep the types of the semaphores, and touch only their own. *)
(***************************************************************************)
LEMMA UpOK ==
  ASSUME NEW x \in Sem, SemTypeOK(Sem, Phil), Up(x)
  PROVE  /\ value' \in [Sem -> Nat] /\ queue' \in [Sem -> Seq(Phil)]
         /\ \A y \in Sem : y # x => value'[y] = value[y] /\ queue'[y] = queue[y]
         /\ IF queue[x] = << >> THEN value'[x] = value[x] + 1 /\ queue'[x] = << >>
            ELSE value'[x] = value[x] /\ queue'[x] = Tail(queue[x])
<1>1. queue[x] \in Seq(Phil) /\ value[x] \in Nat
  BY DEF SemTypeOK
<1>2. CASE queue[x] = << >> BY <1>1, <1>2 DEF SemTypeOK, Up
<1>3. CASE queue[x] # << >>
  <2>1. Tail(queue[x]) \in Seq(Phil) BY <1>1, <1>3
  <2>2. QED BY <1>1, <1>3, <2>1 DEF SemTypeOK, Up
<1>4. QED BY <1>2, <1>3

\* The same of down.
LEMMA DownOK ==
  ASSUME NEW t \in Phil, NEW x \in Sem, SemTypeOK(Sem, Phil), running = t, Down(t, x)
  PROVE  /\ SemTypeOK(Sem, Phil)'
         /\ \A y \in Sem : y # x => value'[y] = value[y] /\ queue'[y] = queue[y]
         /\ running' \in {running, NoThread}
         /\ IF value[x] > 0
            THEN value'[x] = value[x] - 1 /\ queue'[x] = queue[x] /\ running' = running
            ELSE /\ value'[x] = value[x] /\ queue'[x] = Append(queue[x], t)
                 /\ running' = NoThread
<1>1. queue[x] \in Seq(Phil) /\ value[x] \in Nat
  BY DEF SemTypeOK
<1>2. CASE value[x] > 0 BY <1>1, <1>2 DEF SemTypeOK, Down
<1>3. CASE ~(value[x] > 0)
  <2>1. Append(queue[x], t) \in Seq(Phil) BY <1>1
  <2>2. QED BY <1>1, <1>3, <2>1 DEF SemTypeOK, Down
<1>4. QED BY <1>2, <1>3

\* A dispatched thread does not wait for its forks.
LEMMA DispatchInv ==
  ASSUME Inv, NEW i \in Phil, Dispatch(i)
  PROVE  Inv'
<1>1. queue[s(i)] = << >>
  <2>1. DOMAIN queue = Sem BY DEF Inv, TypeOK, SemTypeOK
  <2>2. ~Waiting(i, s(i)) BY <2>1, SemDistinct DEF Dispatch, Blocked
  <2>3. << i >>[1] = i /\ 1 \in 1..Len(<< i >>) OBVIOUS
  <2>4. queue[s(i)] # << i >> BY <2>2, <2>3 DEF Waiting
  <2>5. QED BY <2>4 DEF Inv, ForksOK
<1>2. TypeOK' BY DEF Inv, TypeOK, SemTypeOK, Dispatch
<1>3. QED BY <1>1, <1>2 DEF Inv, Dispatch, PointOK, ForksOK

\* The steps that leave the semaphores and the array alone.
LEMMA LocalInv ==
  ASSUME Inv, NEW i \in Phil, Think(i) \/ Dine(i)
  PROVE  Inv'
<1> USE DEF At, Goto
<1>1. TypeOK'
  <2>1. iter' \in [Phil -> 0..TIMES]
    <3>1. CASE Think(i) BY <3>1, NAssumption DEF Inv, TypeOK, Think, HasMeal
    <3>2. CASE Dine(i) BY <3>2 DEF Inv, TypeOK, Dine
    <3>3. QED BY <3>1, <3>2
  <2>2. QED BY <2>1 DEF Inv, TypeOK, SemTypeOK, Think, Dine, Point
<1>2. \A j \in Phil : PointOK(j)'
  <2>1. phil[i] = "EATING" \/ pc[i] # "eat"
    <3>1. << i >> # << >> OBVIOUS
    <3>2. running = i BY DEF Think, Dine
    <3>3. QED BY <3>1, <3>2 DEF Inv, PointOK, ForksOK
  <2>2. QED BY <2>1 DEF Inv, TypeOK, PointOK, ThinkPoint, Think, Dine
<1>3. \A j \in Phil : ForksOK(j)'
  <2>1. CASE Think(i)
    BY <2>1, RunningPhil DEF Inv, TypeOK, ForksOK, Think, PointOK
  <2>2. CASE Dine(i)
    BY <2>2, RunningPhil DEF Inv, TypeOK, ForksOK, Dine, PointOK
  <2>3. QED BY <2>1, <2>2
<1>4. QED BY <1>1, <1>2, <1>3 DEF Inv

\* down(&mutex) leaves every s[i] alone.
LEMMA EnterInv ==
  ASSUME Inv, NEW i \in Phil, Enter(i)
  PROVE  Inv'
<1> USE DEF Goto
<1>1. /\ SemTypeOK(Sem, Phil)' /\ running' \in {running, NoThread}
      /\ \A j \in Phil : value'[s(j)] = value[s(j)] /\ queue'[s(j)] = queue[s(j)]
  BY DownOK, SemDistinct DEF Inv, TypeOK, Enter
<1>2. TypeOK' BY <1>1 DEF Inv, TypeOK, Enter, Point
<1>3. \A j \in Phil : PointOK(j)'
  BY DEF Inv, TypeOK, PointOK, ThinkPoint, Enter
<1>4. \A j \in Phil : ForksOK(j)'
  BY <1>1, RunningPhil DEF Inv, TypeOK, ForksOK, Enter
<1>5. QED BY <1>2, <1>3, <1>4 DEF Inv

\* A philosopher that gets hungry or has eaten has no unit of s[i] yet or left.
LEMMA SetInv ==
  ASSUME Inv, NEW i \in Phil, GetHungry(i) \/ Finish(i)
  PROVE  Inv'
<1> USE DEF At, Goto
<1>1. TypeOK'
  <2>1. /\ << i >> \in Seq(Phil) /\ Len(<< i >>) <= 2
        /\ Neighbours(i) \in Seq(Phil) /\ Len(Neighbours(i)) <= 2
    BY NeighbourType DEF Neighbours
  <2>2. /\ phil' \in [Phil -> {"THINKING", "HUNGRY", "EATING"}]
        /\ pc' \in [Phil -> Point]
        /\ UNCHANGED << semVars, iter >>
    BY DEF Inv, TypeOK, Point, GetHungry, Finish
  <2> HIDE DEF Goto
  <2>3. todo' = [todo EXCEPT ![i] = << i >>] \/ todo' = [todo EXCEPT ![i] = Neighbours(i)]
    BY DEF GetHungry, Finish
  <2>4. todo' \in [Phil -> Seq(Phil)] /\ \A j \in Phil : Len(todo'[j]) <= 2
    BY <2>1, <2>3 DEF Inv, TypeOK
  <2>5. QED BY <2>2, <2>4 DEF Inv, TypeOK, SemTypeOK, semVars
<1>2. \A j \in Phil : PointOK(j)'
  BY DEF Inv, TypeOK, PointOK, ThinkPoint, GetHungry, Finish
<1>3. \A j \in Phil : ForksOK(j)'
  <2>1. /\ \A j \in Phil : j # i => phil'[j] = phil[j] /\ pc'[j] = pc[j]
        /\ phil'[i] # "EATING" /\ pc'[i] = "test"
        /\ UNCHANGED << value, queue, running >>
    BY DEF Inv, TypeOK, GetHungry, Finish, semVars
  <2>2. pc[i] \notin {"test", "await", "eat"}
    BY DEF GetHungry, Finish
  <2>3. value[s(i)] = 0 /\ queue[s(i)] = << >>
    BY <2>2 DEF Inv, ForksOK
  <2>4. ForksOK(i)' BY <2>1, <2>3 DEF ForksOK
  <2>5. ASSUME NEW j \in Phil, j # i PROVE ForksOK(j)'
    BY <2>1, <2>5 DEF Inv, ForksOK
  <2>6. QED BY <2>4, <2>5
<1>4. QED BY <1>1, <1>2, <1>3 DEF Inv

(***************************************************************************)
(* phi_test_sema: the one that may eat now is hungry, so that it waits for *)
(* s[j] or is still to ask for it.                                         *)
(***************************************************************************)
LEMMA TestInv ==
  ASSUME Inv, NEW i \in Phil, Test(i)
  PROVE  Inv'
<1> DEFINE j == Head(todo[i])
<1>1. /\ j \in Phil /\ Tail(todo[i]) \in Seq(Phil) /\ Len(Tail(todo[i])) <= 2
  <2>1. todo[i] \in Seq(Phil) /\ Len(todo[i]) <= 2 /\ todo[i] # << >>
    BY DEF Inv, TypeOK, Test
  <2>2. QED BY <2>1
<1>2. /\ UNCHANGED << running, iter, pc >>
      /\ todo' = [todo EXCEPT ![i] = Tail(@)]
      /\ \/ UNCHANGED << value, queue, phil >>
         \/ phil[j] = "HUNGRY" /\ phil' = [phil EXCEPT ![j] = "EATING"] /\ Up(s(j))
  BY DEF Test, MayEat
<1> HIDE DEF j
<1>3. todo' \in [Phil -> Seq(Phil)] /\ \A k \in Phil : Len(todo'[k]) <= 2
  BY <1>1, <1>2 DEF Inv, TypeOK
<1>4. CASE UNCHANGED << value, queue, phil >>
  BY <1>2, <1>3, <1>4 DEF Inv, TypeOK, SemTypeOK, PointOK, ForksOK
<1>5. CASE phil[j] = "HUNGRY" /\ phil' = [phil EXCEPT ![j] = "EATING"] /\ Up(s(j))
  <2>1. /\ value' \in [Sem -> Nat] /\ queue' \in [Sem -> Seq(Phil)]
        /\ \A k \in Phil : k # j => value'[s(k)] = value[s(k)] /\ queue'[s(k)] = queue[s(k)]
        /\ IF queue[s(j)] = << >>
           THEN value'[s(j)] = value[s(j)] + 1 /\ queue'[s(j)] = << >>
           ELSE value'[s(j)] = value[s(j)] /\ queue'[s(j)] = Tail(queue[s(j)])
    <3>1. SemTypeOK(Sem, Phil) BY DEF Inv, TypeOK
    <3>2. s(j) \in Sem BY <1>1, SemDistinct
    <3>3. QED BY <1>1, <1>5, <3>1, <3>2, UpOK, SemDistinct
  <2>2. pc[j] \in {"test", "await", "eat"}
    BY <1>1, <1>5 DEF Inv, TypeOK, Point, PointOK, ThinkPoint
  <2>3. value[s(j)] = 0 BY <1>1, <1>5 DEF Inv, ForksOK
  <2>4. queue'[s(j)] = << >> /\ value'[s(j)] = IF pc[j] = "eat" THEN 0 ELSE 1
    <3>1. CASE pc[j] = "eat"
      <4>1. queue[s(j)] = << j >> BY <1>1, <1>5, <3>1 DEF Inv, ForksOK
      <4>2. << j >> # << >> /\ Tail(<< j >>) = << >> OBVIOUS
      <4>3. QED BY <2>1, <2>3, <3>1, <4>1, <4>2
    <3>2. CASE pc[j] # "eat"
      <4>1. queue[s(j)] = << >> BY <1>1, <1>5, <3>2 DEF Inv, ForksOK
      <4>2. QED BY <2>1, <2>3, <3>2, <4>1
    <3>3. QED BY <3>1, <3>2
  <2>5. TypeOK'
    BY <1>1, <1>2, <1>3, <1>5, <2>1 DEF Inv, TypeOK, SemTypeOK
  <2>6. \A k \in Phil : PointOK(k)'
    BY <1>1, <1>2, <1>5, <2>2 DEF Inv, TypeOK, PointOK, ThinkPoint
  <2>7. \A k \in Phil : ForksOK(k)'
    BY <1>1, <1>2, <1>5, <2>1, <2>2, <2>4 DEF Inv, TypeOK, ForksOK
  <2>8. QED BY <2>5, <2>6, <2>7 DEF Inv
<1>6. QED BY <1>2, <1>4, <1>5

\* up(&mutex) leaves every s[i] alone.
LEMMA LeaveInv ==
  ASSUME Inv, NEW i \in Phil, Leave(i)
  PROVE  Inv'
<1> USE DEF At, Goto
<1>1. /\ value' \in [Sem -> Nat] /\ queue' \in [Sem -> Seq(Phil)]
      /\ \A j \in Phil : value'[s(j)] = value[s(j)] /\ queue'[s(j)] = queue[s(j)]
  BY UpOK, SemDistinct DEF Inv, TypeOK, Leave
<1>2. TypeOK' BY <1>1 DEF Inv, TypeOK, SemTypeOK, Leave, Point
<1>3. \A j \in Phil : PointOK(j)'
  BY DEF Inv, TypeOK, PointOK, ThinkPoint, Leave
<1>4. \A j \in Phil : ForksOK(j)'
  BY <1>1 DEF Inv, TypeOK, ForksOK, Leave
<1>5. QED BY <1>2, <1>3, <1>4 DEF Inv

\* down(&s[i]) takes the unit of one that may eat, and blocks one that may not.
LEMMA AwaitInv ==
  ASSUME Inv, NEW i \in Phil, AwaitForks(i)
  PROVE  Inv'
<1> USE DEF At, Goto
<1>1. /\ SemTypeOK(Sem, Phil)' /\ running' \in {running, NoThread}
      /\ \A j \in Phil : j # i => value'[s(j)] = value[s(j)] /\ queue'[s(j)] = queue[s(j)]
      /\ IF value[s(i)] > 0
         THEN value'[s(i)] = value[s(i)] - 1 /\ queue'[s(i)] = queue[s(i)]
         ELSE /\ value'[s(i)] = value[s(i)] /\ queue'[s(i)] = Append(queue[s(i)], i)
              /\ running' = NoThread
  <2>1. SemTypeOK(Sem, Phil) /\ running = i /\ Down(i, s(i)) BY DEF Inv, TypeOK, AwaitForks
  <2>2. s(i) \in Sem BY SemDistinct
  <2>3. QED BY <2>1, <2>2, DownOK, SemDistinct
<1>2. TypeOK' BY <1>1 DEF Inv, TypeOK, AwaitForks, Point
<1>3. \A j \in Phil : PointOK(j)'
  BY DEF Inv, TypeOK, PointOK, ThinkPoint, AwaitForks
<1>4. \A j \in Phil : ForksOK(j)'
  <2>1. ASSUME NEW j \in Phil, j # i PROVE ForksOK(j)'
    BY <1>1, <2>1, RunningPhil DEF Inv, TypeOK, ForksOK, AwaitForks
  <2>2. /\ phil[i] \in {"HUNGRY", "EATING"} /\ pc[i] = "await" /\ queue[s(i)] = << >>
        /\ pc'[i] = "eat" /\ phil' = phil /\ running = i
        /\ value[s(i)] = IF phil[i] = "EATING" THEN 1 ELSE 0
    BY DEF Inv, TypeOK, PointOK, ForksOK, AwaitForks
  <2>3. CASE phil[i] = "EATING"
    <3>1. value'[s(i)] = 0 /\ queue'[s(i)] = << >> BY <1>1, <2>2, <2>3
    <3>2. QED BY <2>1, <2>2, <2>3, <3>1 DEF ForksOK
  <2>4. CASE phil[i] = "HUNGRY"
    <3>1. Append(<< >>, i) = << i >> OBVIOUS
    <3>2. value'[s(i)] = 0 /\ queue'[s(i)] = << i >> /\ running' = NoThread
      BY <1>1, <2>2, <2>4, <3>1
    <3>3. QED BY <2>1, <2>2, <2>4, <3>2, RunningPhil DEF ForksOK
  <2>5. QED BY <2>1, <2>2, <2>3, <2>4
<1>5. QED BY <1>2, <1>3, <1>4 DEF Inv

\* Every step preserves the invariant.
LEMMA NextInv == Inv /\ [Next]_vars => Inv'
<1>1. Inv /\ UNCHANGED vars => Inv'
  BY DEF vars, semVars, Inv, TypeOK, SemTypeOK, PointOK, ForksOK
<1>2. QED
  BY <1>1, DispatchInv, LocalInv, EnterInv, SetInv, TestInv, LeaveInv, AwaitInv
  DEF Next, Step, Done

\* The invariant holds in every reachable state.
LEMMA Invariance == Spec => []Inv
  BY InitInv, NextInv, PTL DEF Spec

(***************************************************************************)
(* Every variable keeps the type of what it stands for.                    *)
(***************************************************************************)
THEOREM TypeCorrect == Spec => []TypeOK
<1>1. Inv => TypeOK BY DEF Inv
<1>2. QED BY <1>1, Invariance, PTL

(***************************************************************************)
(* up and down of s[i] balance in phi_test_sema and phi_take_forks_sema.   *)
(***************************************************************************)
THEOREM ForksBalance == Spec => []ForksAnnounced
<1>1. ASSUME Inv, NEW i \in Phil
      PROVE  /\ value[s(i)] = 1 <=> phil[i] = "EATING" /\ pc[i] \in {"test", "await"}
             /\ value[s(i)] \in {0, 1}
  <2>1. value[s(i)] = IF phil[i] = "EATING" /\ pc[i] \in {"test", "await"} THEN 1 ELSE 0
    BY <1>1 DEF Inv, ForksOK
  <2>2. QED BY <2>1
<1>2. Inv => ForksAnnounced BY <1>1 DEF ForksAnnounced
<1>3. QED BY <1>2, Invariance, PTL

(***************************************************************************)
(* Every step changes the array as a step of Dining does, or not at all.   *)
(***************************************************************************)
LEMMA StepSim ==
  ASSUME Inv, [Next]_vars
  PROVE  [D!Next]_phil
<1>0. D!Phil = Phil BY DEF D!Phil, Phil
<1> USE <1>0 DEF At, Goto, D!Left, D!Right, Left, Right
<1>1. ASSUME NEW i \in Phil, GetHungry(i) PROVE D!Next
  BY <1>1 DEF GetHungry, D!Next, D!GetHungry, Inv, TypeOK, PointOK, ThinkPoint
<1>2. ASSUME NEW i \in Phil, Finish(i) PROVE D!Next
  BY <1>2 DEF Finish, D!Next, D!Finish, Inv, TypeOK, PointOK
<1>3. ASSUME NEW i \in Phil, Test(i) PROVE [D!Next]_phil
  <2> DEFINE j == Head(todo[i])
  <2>1. j \in Phil
    <3>1. todo[i] \in Seq(Phil) /\ todo[i] # << >> BY <1>3 DEF Inv, TypeOK, Test
    <3>2. QED BY <3>1
  <2>2. CASE MayEat(j)
    <3>1. D!Eat(j) BY <1>3, <2>2 DEF Test, MayEat, D!Eat
    <3>2. QED BY <3>1, <2>1 DEF D!Next
  <2>3. CASE ~MayEat(j) BY <1>3, <2>3 DEF Test
  <2>4. QED BY <2>2, <2>3
<1>4. QED
  BY <1>1, <1>2, <1>3
  DEF Next, Dispatch, Step, Done, Think, Enter, Leave, AwaitForks, Dine, vars

(***************************************************************************)
(* The semaphore program implements Dining.                                *)
(***************************************************************************)
THEOREM PhilosophersImplementDining == Spec => ImplementsDining
<1>1. Init => D!Init BY DEF Init, D!Init, Phil, D!Phil
<1>2. Inv /\ [Next]_vars => [D!Next]_phil BY StepSim
<1>3. QED BY <1>1, <1>2, Invariance, PTL DEF Spec, ImplementsDining, D!Spec

-----------------------------------------------------------------------------
(* Dining itself. *)

\* Right and Left are inverse: LEFT and RIGHT of check_sync.c go round a table.
LEMMA LeftOfRight ==
  ASSUME NEW j \in D!Phil
  PROVE  D!Right(j) \in D!Phil /\ D!Left(D!Right(j)) = j
<1> USE NAssumption
<1>1. CASE j + 1 < N
  <2>1. (j + 1) % N = j + 1 BY <1>1 DEF D!Phil
  <2>2. ((j + 1) + N - 1) % N = j BY <1>1 DEF D!Phil
  <2>3. QED BY <1>1, <2>1, <2>2 DEF D!Phil, D!Left, D!Right
<1>2. CASE j + 1 = N
  <2>1. (j + 1) % N = 0 BY <1>2
  <2>2. (0 + N - 1) % N = j BY <1>2 DEF D!Phil
  <2>3. QED BY <1>2, <2>1, <2>2 DEF D!Phil, D!Left, D!Right
<1>3. QED BY <1>1, <1>2 DEF D!Phil

DiningInv ==
  /\ phil \in [D!Phil -> {"THINKING", "HUNGRY", "EATING"}]
  /\ D!NeighboursExclusive

(***************************************************************************)
(* A philosopher eats only if neither neighbour does, and no step of       *)
(* another one changes that.                                               *)
(***************************************************************************)
THEOREM Exclusion == D!Spec => []D!NeighboursExclusive
<1>1. D!Init => DiningInv BY DEF D!Init, DiningInv, D!NeighboursExclusive
<1>2. DiningInv /\ [D!Next]_phil => DiningInv'
  <2> SUFFICES ASSUME DiningInv, [D!Next]_phil PROVE DiningInv'
    OBVIOUS
  <2> USE DEF DiningInv, D!NeighboursExclusive
  <2>1. ASSUME NEW i \in D!Phil, D!GetHungry(i) PROVE DiningInv'
    BY <2>1, LeftOfRight DEF D!GetHungry
  <2>2. ASSUME NEW i \in D!Phil, D!Eat(i) PROVE DiningInv'
    <3>1. \A j \in D!Phil : D!Right(j) = i => phil[j] # "EATING"
      BY <2>2, LeftOfRight DEF D!Eat
    <3>2. \A j \in D!Phil : D!Right(j) \in D!Phil BY LeftOfRight
    <3>3. QED BY <2>2, <3>1, <3>2 DEF D!Eat
  <2>3. ASSUME NEW i \in D!Phil, D!Finish(i) PROVE DiningInv'
    BY <2>3, LeftOfRight DEF D!Finish
  <2>4. CASE UNCHANGED phil BY <2>4
  <2>5. QED BY <2>1, <2>2, <2>3, <2>4 DEF D!Next
<1>3. DiningInv => D!NeighboursExclusive BY DEF DiningInv
<1>4. QED BY <1>1, <1>2, <1>3, PTL DEF D!Spec

(***************************************************************************)
(* The semaphore program never has two neighbours in EATING.               *)
(***************************************************************************)
THEOREM NeighboursNeverEat == Spec => []D!NeighboursExclusive
BY PhilosophersImplementDining, Exclusion, PTL DEF ImplementsDining

=============================================================================
