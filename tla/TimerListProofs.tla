-------------------------- MODULE TimerListProofs --------------------------
(***************************************************************************)
(* The list of timers, proved for any processes and any ticks: what the    *)
(* relative times sum up to, and that they implement absolute ones.        *)
(***************************************************************************)
EXTENDS TimerList, FiniteSetTheorems, SequenceTheorems, TLAPS

-----------------------------------------------------------------------------
(* Induction, in the form of the least number of a set. *)

\* A set of natural numbers has a least one.
LEMMA NatLeast ==
  ASSUME NEW T \in SUBSET Nat, T # {}
  PROVE  \E n \in T : \A m \in T : n <= m
<1> DEFINE Below(k) == {j \in Nat : j < k}
           F == {Below(k) : k \in T}
<1>1. \A k \in Nat : Below(k) = 0..k - 1 /\ Below(k) \in FiniteSubsetsOf(Nat)
  <2>1. ASSUME NEW k \in Nat
        PROVE  Below(k) = 0..k - 1 /\ Below(k) \in FiniteSubsetsOf(Nat)
    <3>1. Below(k) = 0..k - 1
      OBVIOUS
    <3>2. IsFiniteSet(0..k - 1)
      BY FS_Interval
    <3> QED  BY <3>1, <3>2 DEF FiniteSubsetsOf
  <2> QED  BY <2>1
<1>2. F \subseteq FiniteSubsetsOf(Nat) /\ F # {}
  <2>1. ASSUME NEW x \in F
        PROVE  x \in FiniteSubsetsOf(Nat)
    <3>1. PICK k \in T : x = Below(k)
      OBVIOUS
    <3> HIDE DEF Below, F
    <3> QED  BY <3>1, <1>1
  <2>2. F # {}
    <3>1. PICK k \in T : TRUE
      OBVIOUS
    <3>2. Below(k) \in F
      BY <3>1
    <3> QED  BY <3>2
  <2> QED  BY <2>1, <2>2
<1> HIDE DEF F
<1>3. PICK x \in F : \A y \in F : ~(<<y, x>> \in StrictSubsetOrdering(Nat))
  BY <1>2, FS_StrictSubsetOrderingWellFounded, WFMin
<1> USE DEF F
<1>4. PICK n \in T : x = Below(n)
  OBVIOUS
<1>5. ASSUME NEW m \in T, m < n
      PROVE  FALSE
  <2>1. Below(m) \in F /\ Below(m) \subseteq Nat /\ Below(n) \subseteq Nat
    OBVIOUS
  <2>2. Below(m) \subseteq Below(n) /\ m \in Below(n) /\ m \notin Below(m)
    BY <1>5
  <2>3. <<Below(m), Below(n)>> \in StrictSubsetOrdering(Nat)
    BY <2>1, <2>2 DEF StrictSubsetOrdering
  <2> QED  BY <2>1, <2>3, <1>3, <1>4
<1> QED  BY <1>4, <1>5

-----------------------------------------------------------------------------
(* Sequences. *)

\* r is the sequence s over S with e as its k-th element, or without its k-th.
WithAt(r, S, s, k, e) ==
  /\ r \in Seq(S) /\ Len(r) = Len(s) + 1
  /\ \A j \in 1..Len(s) + 1 :
       r[j] = IF j < k THEN s[j] ELSE IF j = k THEN e ELSE s[j - 1]

WithoutAt(r, S, s, k) ==
  /\ r \in Seq(S) /\ Len(r) = Len(s) - 1
  /\ \A j \in 1..Len(s) - 1 : r[j] = IF j < k THEN s[j] ELSE s[j + 1]

\* InsertAt and RemoveAt of SequencesExt, element by element.
LEMMA InsertFacts ==
  ASSUME NEW S, NEW s \in Seq(S), NEW k \in 1..Len(s) + 1, NEW e \in S
  PROVE  WithAt(InsertAt(s, k, e), S, s, k, e)
<1>1. Len(s) \in Nat /\ \A j \in 1..Len(s) : s[j] \in S
  BY LenProperties, ElementOfSeq
<1> DEFINE a == SubSeq(s, 1, k - 1)
           b == SubSeq(s, k, Len(s))
<1>2. /\ a \in Seq(S) /\ Len(a) = k - 1
      /\ \A j \in 1..k - 1 : a[j] = s[j]
  <2>1. k - 1 \in 0..Len(s) /\ \A j \in 1..k - 1 : s[j] \in S
    BY <1>1
  <2>2. /\ a \in Seq(S)
        /\ Len(a) = IF 1 <= k - 1 THEN (k - 1) - 1 + 1 ELSE 0
        /\ \A j \in 1..(k - 1) - 1 + 1 : a[j] = s[1 + j - 1]
    BY <1>1, <2>1, SubSeqProperties
  <2> QED  BY <1>1, <2>1, <2>2
<1>3. /\ b \in Seq(S) /\ Len(b) = Len(s) + 1 - k
      /\ \A j \in 1..Len(s) + 1 - k : b[j] = s[k + j - 1]
  <2>1. k \in Int /\ Len(s) \in Int /\ \A j \in k..Len(s) : s[j] \in S
    BY <1>1
  <2>2. /\ b \in Seq(S)
        /\ Len(b) = IF k <= Len(s) THEN Len(s) - k + 1 ELSE 0
        /\ \A j \in 1..Len(s) - k + 1 : b[j] = s[k + j - 1]
    BY <2>1, SubSeqProperties
  <2> QED  BY <1>1, <2>2
<1>4. <<e>> \in Seq(S) /\ Len(<<e>>) = 1 /\ <<e>>[1] = e
  OBVIOUS
<1> DEFINE c == a \o <<e>>
<1>5. /\ c \in Seq(S) /\ Len(c) = k
      /\ \A j \in 1..k : c[j] = IF j < k THEN s[j] ELSE e
  <2> HIDE DEF a
  <2>1. /\ c \in Seq(S) /\ Len(c) = Len(a) + 1
        /\ \A j \in 1..Len(a) + 1 : c[j] = IF j <= Len(a) THEN a[j] ELSE <<e>>[j - Len(a)]
    BY <1>2, <1>4, ConcatProperties
  <2>2. ASSUME NEW j \in 1..k
        PROVE  c[j] = IF j < k THEN s[j] ELSE e
    <3> HIDE DEF c
    <3>1. CASE j < k
      BY <3>1, <2>1, <1>2
    <3>2. CASE j = k
      BY <3>2, <2>1, <1>2, <1>4
    <3> QED  BY <3>1, <3>2
  <2> QED  BY <2>1, <2>2, <1>2
<1> HIDE DEF b, c
<1> DEFINE q == c \o b
<1>6. /\ q \in Seq(S) /\ Len(q) = Len(c) + Len(b)
      /\ \A j \in 1..Len(c) + Len(b) : q[j] = IF j <= Len(c) THEN c[j] ELSE b[j - Len(c)]
  BY <1>3, <1>5, ConcatProperties
<1>7. InsertAt(s, k, e) = q
  BY DEF InsertAt, c, b
<1> HIDE DEF a, q
<1>8. ASSUME NEW j \in 1..Len(s) + 1
      PROVE  q[j] = IF j < k THEN s[j] ELSE IF j = k THEN e ELSE s[j - 1]
  <2>1. CASE j <= k
    BY <2>1, <1>1, <1>3, <1>5, <1>6
  <2>2. CASE j > k
    <3>1. q[j] = b[j - k] /\ j - k \in 1..Len(s) + 1 - k
      BY <2>2, <1>1, <1>3, <1>5, <1>6
    <3>2. b[j - k] = s[k + (j - k) - 1] /\ k + (j - k) - 1 = j - 1
      BY <3>1, <1>3
    <3> QED  BY <3>1, <3>2, <2>2
  <2>3. j \in Int /\ k \in Int
    BY <1>1
  <2> QED  BY <2>1, <2>2, <2>3
<1> QED  BY <1>1, <1>3, <1>5, <1>6, <1>7, <1>8 DEF WithAt

LEMMA RemoveFacts ==
  ASSUME NEW S, NEW s \in Seq(S), NEW k \in 1..Len(s)
  PROVE  WithoutAt(RemoveAt(s, k), S, s, k)
<1>1. Len(s) \in Nat /\ \A j \in 1..Len(s) : s[j] \in S
  BY LenProperties, ElementOfSeq
<1> DEFINE a == SubSeq(s, 1, k - 1)
           b == SubSeq(s, k + 1, Len(s))
<1>2. /\ a \in Seq(S) /\ Len(a) = k - 1
      /\ \A j \in 1..k - 1 : a[j] = s[j]
  <2>1. k - 1 \in 0..Len(s) /\ \A j \in 1..k - 1 : s[j] \in S
    BY <1>1
  <2>2. /\ a \in Seq(S)
        /\ Len(a) = IF 1 <= k - 1 THEN (k - 1) - 1 + 1 ELSE 0
        /\ \A j \in 1..(k - 1) - 1 + 1 : a[j] = s[1 + j - 1]
    BY <1>1, <2>1, SubSeqProperties
  <2> QED  BY <1>1, <2>1, <2>2
<1>3. /\ b \in Seq(S) /\ Len(b) = Len(s) - k
      /\ \A j \in 1..Len(s) - k : b[j] = s[k + j]
  <2>1. k + 1 \in Int /\ Len(s) \in Int /\ \A j \in k + 1..Len(s) : s[j] \in S
    BY <1>1
  <2>2. /\ b \in Seq(S)
        /\ Len(b) = IF k + 1 <= Len(s) THEN Len(s) - (k + 1) + 1 ELSE 0
        /\ \A j \in 1..Len(s) - (k + 1) + 1 : b[j] = s[(k + 1) + j - 1]
    BY <2>1, SubSeqProperties
  <2> QED  BY <1>1, <2>2
<1> HIDE DEF a, b
<1> DEFINE q == a \o b
<1>4. /\ q \in Seq(S) /\ Len(q) = Len(a) + Len(b)
      /\ \A j \in 1..Len(a) + Len(b) : q[j] = IF j <= Len(a) THEN a[j] ELSE b[j - Len(a)]
  BY <1>2, <1>3, ConcatProperties
<1>5. RemoveAt(s, k) = q
  BY DEF RemoveAt, a, b
<1> HIDE DEF q
<1>6. ASSUME NEW j \in 1..Len(s) - 1
      PROVE  q[j] = IF j < k THEN s[j] ELSE s[j + 1]
  <2>1. j \in Int /\ k \in Int /\ j >= 1
    BY <1>1
  <2>2. q[j] = IF j <= k - 1 THEN a[j] ELSE b[j - (k - 1)]
    <3>1. Len(a) = k - 1 /\ j \in 1..Len(a) + Len(b)
      BY <1>1, <1>2, <1>3
    <3> QED  BY <3>1, <1>4
  <2>3. CASE j < k
    <3>1. j \in 1..k - 1
      BY <2>1, <2>3
    <3> QED  BY <3>1, <2>1, <2>2, <2>3, <1>2
  <2>4. CASE j >= k
    <3>1. j - (k - 1) \in 1..Len(s) - k /\ k + (j - (k - 1)) = j + 1 /\ ~(j <= k - 1) /\ ~(j < k)
      BY <2>1, <2>4, <1>1
    <3>2. b[j - (k - 1)] = s[j + 1]
      BY <3>1, <1>3
    <3> QED  BY <3>1, <3>2, <2>2
  <2> QED  BY <2>1, <2>3, <2>4
<1>7. Len(a) + Len(b) = Len(s) - 1
  BY <1>1, <1>2, <1>3
<1> QED  BY <1>4, <1>5, <1>6, <1>7 DEF WithoutAt

-----------------------------------------------------------------------------
(* The sums. *)

\* d is the running sum of a list.
Sums(list, d) ==
  d = [j \in 0..Len(list) |-> IF j = 0 THEN 0 ELSE d[j - 1] + list[j].expires]

\* The first n timers of a list have running sums.
LEMMA SumsOfFirst ==
  ASSUME NEW list \in Seq(Timer), NEW n \in Nat, n <= Len(list)
  PROVE  \E d : d = [j \in 0..n |-> IF j = 0 THEN 0 ELSE d[j - 1] + list[j].expires]
<1> DEFINE P(m, d) == d = [j \in 0..m |-> IF j = 0 THEN 0 ELSE d[j - 1] + list[j].expires]
           T == {m \in Nat : ~\E d : P(m, d)}
<1>1. CASE T = {}
  BY <1>1
<1>2. CASE T # {}
  <2>1. PICK m \in T : \A i \in T : m <= i
    BY <1>2, NatLeast
  <2>2. m # 0
    <3>1. P(0, [j \in 0..0 |-> 0])
      OBVIOUS
    <3> QED  BY <3>1
  <2>3. m - 1 \in Nat /\ m - 1 \notin T
    <3>1. m \in Nat
      OBVIOUS
    <3> HIDE DEF P, T
    <3>2. m - 1 \in Nat /\ m - 1 < m
      BY <3>1, <2>2
    <3> QED  BY <3>1, <3>2, <2>1
  <2>4. PICK d : P(m - 1, d)
    BY <2>3
  <2> DEFINE e == [j \in 0..m |-> IF j = 0 THEN 0 ELSE d[j - 1] + list[j].expires]
  <2>5. \A j \in 0..m - 1 : e[j] = d[j]
    BY <2>3, <2>4
  <2>6. P(m, e)
    <3>1. \A j \in 0..m : j # 0 => j - 1 \in 0..m - 1
      BY <2>3
    <3>2. \A j \in 0..m : j # 0 => e[j - 1] = d[j - 1]
      BY <2>5, <3>1
    <3> QED  BY <3>2
  <2> QED  BY <2>6, <2>1
<1> QED  BY <1>1, <1>2

\* Due is a running sum.
LEMMA DueFacts ==
  ASSUME NEW list \in Seq(Timer)
  PROVE  /\ Due(list, 0) = 0
         /\ \A k \in 1..Len(list) : Due(list, k) = Due(list, k - 1) + list[k].expires
<1>1. Len(list) \in Nat
  BY LenProperties
<1> DEFINE sum == CHOOSE d : Sums(list, d)
<1>2. Sums(list, sum)
  <2>1. PICK n \in Nat : n = Len(list)
    BY <1>1
  <2>2. PICK d : d = [j \in 0..n |-> IF j = 0 THEN 0 ELSE d[j - 1] + list[j].expires]
    <3>1. n <= Len(list)
      BY <2>1
    <3> QED  BY <3>1, SumsOfFirst, Zenon
  <2>3. Sums(list, d)
    BY <2>1, <2>2 DEF Sums
  <2> QED  BY <2>3
<1>3. \A k : Due(list, k) = sum[k]
  BY DEF Due, Sums
<1> HIDE DEF sum
<1>4. \A j \in 0..Len(list) : sum[j] = IF j = 0 THEN 0 ELSE sum[j - 1] + list[j].expires
  BY <1>2 DEF Sums
<1> QED  BY <1>1, <1>3, <1>4

\* What satisfies the recurrence is the sum.
LEMMA DueIs ==
  ASSUME NEW list \in Seq(Timer), NEW d,
         d[0] = 0,
         \A k \in 1..Len(list) : d[k] = d[k - 1] + list[k].expires
  PROVE  \A k \in 0..Len(list) : Due(list, k) = d[k]
<1>1. Len(list) \in Nat
  BY LenProperties
<1> DEFINE T == {k \in Nat : k <= Len(list) /\ Due(list, k) # d[k]}
<1>2. CASE T = {}
  BY <1>1, <1>2
<1>3. CASE T # {}
  <2>1. PICK k \in T : \A j \in T : k <= j
    BY <1>3, NatLeast
  <2>2. k # 0
    BY <2>1, DueFacts
  <2>3. k \in 1..Len(list) /\ k - 1 \in Nat /\ k - 1 \notin T
    BY <1>1, <2>1, <2>2
  <2>4. Due(list, k - 1) = d[k - 1]
    BY <1>1, <2>3
  <2> QED  BY <2>1, <2>3, <2>4, DueFacts
<1> QED  BY <1>2, <1>3

\* A timer expires no earlier than the ones before it.
LEMMA DueMonotone ==
  ASSUME NEW list \in Seq(Timer)
  PROVE  /\ \A k \in 0..Len(list) : Due(list, k) \in Nat
         /\ \A j, k \in 0..Len(list) : j <= k => Due(list, j) <= Due(list, k)
<1>1. Len(list) \in Nat /\ \A k \in 1..Len(list) : list[k].expires \in Nat
  <2>1. Len(list) \in Nat /\ \A k \in 1..Len(list) : list[k] \in Timer
    BY LenProperties, ElementOfSeq
  <2> QED  BY <2>1 DEF Timer
<1> DEFINE T == {k \in Nat : k <= Len(list) /\ ~(Due(list, k) \in Nat)}
<1>2. T = {}
  <2> SUFFICES ASSUME T # {} PROVE FALSE
    OBVIOUS
  <2>1. PICK k \in T : \A j \in T : k <= j
    BY NatLeast
  <2>2. k # 0
    BY <2>1, DueFacts
  <2>3. k \in 1..Len(list) /\ k - 1 \in Nat /\ k - 1 \notin T
    BY <1>1, <2>1, <2>2
  <2>4. Due(list, k - 1) \in Nat
    BY <1>1, <2>3
  <2> QED  BY <1>1, <2>1, <2>3, <2>4, DueFacts
<1>3. \A k \in 0..Len(list) : Due(list, k) \in Nat
  BY <1>1, <1>2
<1>4. ASSUME NEW j \in 0..Len(list)
      PROVE  \A k \in 0..Len(list) : j <= k => Due(list, j) <= Due(list, k)
  <2> DEFINE U == {k \in Nat : k <= Len(list) /\ j <= k /\ ~(Due(list, j) <= Due(list, k))}
  <2>1. U = {}
    <3> SUFFICES ASSUME U # {} PROVE FALSE
      OBVIOUS
    <3>1. PICK k \in U : \A i \in U : k <= i
      BY NatLeast
    <3>2. k # j
      BY <1>3, <3>1
    <3>3. k \in 1..Len(list) /\ k - 1 \in 0..Len(list) /\ j <= k - 1 /\ k - 1 \notin U
      BY <1>1, <3>1, <3>2
    <3>4. Due(list, j) <= Due(list, k - 1)
      BY <3>3
    <3>5. /\ Due(list, k) = Due(list, k - 1) + list[k].expires /\ list[k].expires \in Nat
          /\ Due(list, j) \in Nat /\ Due(list, k - 1) \in Nat
      BY <1>1, <1>3, <3>3, DueFacts
    <3>6. Due(list, j) <= Due(list, k)
      BY <3>4, <3>5
    <3> QED  BY <3>1, <3>6
  <2> QED  BY <1>1, <2>1
<1> QED  BY <1>3, <1>4

-----------------------------------------------------------------------------
(* Adding and deleting a timer. *)

\* add_timer finds a place for every number of ticks.
LEMMA PositionFacts ==
  ASSUME NEW list \in Seq(Timer), NEW ticks \in Nat
  PROVE  /\ Position(list, ticks) \in 1..Len(list) + 1
         /\ Position(list, ticks) <= Len(list) => ticks < Due(list, Position(list, ticks))
         /\ Due(list, Position(list, ticks) - 1) <= ticks
<1>1. Len(list) \in Nat
  BY LenProperties
<1> DEFINE Fit(k) == /\ k <= Len(list) => ticks < Due(list, k)
                     /\ \A j \in 1..k - 1 : Due(list, j) <= ticks
           T == {k \in Nat : k \in 1..Len(list) + 1 /\ (k <= Len(list) => ticks < Due(list, k))}
<1>2. \E k \in 1..Len(list) + 1 : Fit(k)
  <2>1. Len(list) + 1 \in T
    BY <1>1
  <2>2. PICK k \in T : \A i \in T : k <= i
    BY <2>1, NatLeast
  <2>3. ASSUME NEW j \in 1..k - 1
        PROVE  Due(list, j) <= ticks
    <3>1. j \in 1..Len(list) /\ j \in Nat /\ j < k
      BY <1>1, <2>2
    <3>2. j \notin T /\ Due(list, j) \in Nat
      BY <1>1, <2>2, <3>1, DueMonotone
    <3>3. ~(ticks < Due(list, j))
      BY <1>1, <3>1, <3>2
    <3> QED  BY <3>2, <3>3
  <2> QED  BY <2>2, <2>3
<1> DEFINE k == Position(list, ticks)
<1>3. k \in 1..Len(list) + 1 /\ Fit(k)
  BY <1>2 DEF Position
<1> HIDE DEF k
<1>4. Due(list, k - 1) <= ticks
  <2>1. k - 1 = 0 \/ k - 1 \in 1..k - 1
    BY <1>1, <1>3
  <2>2. Due(list, 0) <= ticks
    BY DueFacts
  <2> QED  BY <2>1, <2>2, <1>3
<1> QED  BY <1>3, <1>4 DEF k

\* The timers of new are those of list, at the same times, and one of p.
Inserted(new, list, k, p, ticks) ==
  /\ new \in Seq(Timer) /\ Len(new) = Len(list) + 1
  /\ \A j \in 1..Len(list) + 1 :
       /\ new[j].proc = IF j < k THEN list[j].proc ELSE IF j = k THEN p ELSE list[j - 1].proc
       /\ Due(new, j) = IF j < k THEN Due(list, j) ELSE IF j = k THEN ticks ELSE Due(list, j - 1)

\* add_timer shifts no other timer: the successor gives up what the new one takes.
LEMMA AddFacts ==
  ASSUME NEW list \in Seq(Timer), NEW p \in Sleeper, NEW ticks \in Nat
  PROVE  \E k \in 1..Len(list) + 1 : Inserted(AddTimer(list, p, ticks), list, k, p, ticks)
<1>1. /\ Len(list) \in Nat /\ \A j \in 1..Len(list) : list[j] \in Timer
      /\ \A j \in 1..Len(list) : list[j].proc \in Sleeper /\ list[j].expires \in Nat
  <2>1. Len(list) \in Nat /\ \A j \in 1..Len(list) : list[j] \in Timer
    BY LenProperties, ElementOfSeq
  <2> QED  BY <2>1 DEF Timer
<1>2. PICK k \in 1..Len(list) + 1 : k = Position(list, ticks)
  BY PositionFacts
<1>3. (k <= Len(list) => ticks < Due(list, k)) /\ Due(list, k - 1) <= ticks
  BY <1>2, PositionFacts
<1>4. k - 1 \in 0..Len(list) /\ Due(list, k - 1) \in Nat
  BY <1>1, DueMonotone
<1>5. PICK n \in Nat : n = ticks - Due(list, k - 1)
  BY <1>3, <1>4
<1> DEFINE t == [proc |-> p, expires |-> n]
           rest == IF k <= Len(list) THEN [list EXCEPT ![k].expires = @ - n] ELSE list
           new == InsertAt(rest, k, t)
<1>6. t \in Timer /\ t.proc = p /\ t.expires = n
  BY DEF Timer
<1>7. /\ rest \in Seq(Timer) /\ Len(rest) = Len(list)
      /\ \A j \in 1..Len(list) :
           /\ rest[j].proc = list[j].proc
           /\ rest[j].expires = IF j = k THEN list[j].expires - n ELSE list[j].expires
  <2>1. CASE k <= Len(list)
    <3>1. k \in 1..Len(list)
      BY <1>1, <2>1
    <3>2. Due(list, k) = Due(list, k - 1) + list[k].expires /\ Due(list, k) \in Nat
      <4>1. Due(list, k) = Due(list, k - 1) + list[k].expires
        BY <3>1, DueFacts
      <4>2. k \in 0..Len(list)
        BY <1>1, <3>1
      <4> QED  BY <4>1, <4>2, DueMonotone
    <3>3. list[k].expires - n \in Nat
      BY <1>1, <1>3, <1>4, <1>5, <2>1, <3>1, <3>2
    <3> DEFINE e == [list[k] EXCEPT !.expires = @ - n]
    <3>4. e \in Timer /\ e.proc = list[k].proc /\ e.expires = list[k].expires - n
      BY <1>1, <3>1, <3>3 DEF Timer
    <3>5. rest = [list EXCEPT ![k] = e]
      BY <2>1
    <3> HIDE DEF e, rest
    <3>6. /\ rest \in Seq(Timer) /\ Len(rest) = Len(list)
          /\ \A j \in 1..Len(list) : rest[j] = IF j = k THEN e ELSE list[j]
      BY <3>1, <3>4, <3>5, ExceptSeq
    <3> QED  BY <3>4, <3>6
  <2>2. CASE ~(k <= Len(list))
    <3>1. \A j \in 1..Len(list) : j # k
      BY <1>1, <2>2
    <3> QED  BY <2>2, <3>1
  <2> QED  BY <2>1, <2>2
<1> HIDE DEF rest, t
<1>8. /\ new \in Seq(Timer) /\ Len(new) = Len(list) + 1
      /\ \A j \in 1..Len(list) + 1 :
           new[j] = IF j < k THEN rest[j] ELSE IF j = k THEN t ELSE rest[j - 1]
  <2>1. k \in 1..Len(rest) + 1 /\ rest \in Seq(Timer) /\ t \in Timer
    BY <1>6, <1>7
  <2>2. /\ new \in Seq(Timer) /\ Len(new) = Len(rest) + 1
        /\ \A j \in 1..Len(rest) + 1 :
             new[j] = IF j < k THEN rest[j] ELSE IF j = k THEN t ELSE rest[j - 1]
    <3>1. WithAt(new, Timer, rest, k, t)
      BY <2>1, InsertFacts
    <3> QED  BY <3>1 DEF WithAt
  <2> QED  BY <2>2, <1>7
<1>9. new = AddTimer(list, p, ticks)
  BY <1>2, <1>5 DEF AddTimer, rest, t
<1> HIDE DEF new
<1> DEFINE d == [j \in 0..Len(list) + 1 |->
                   IF j < k THEN Due(list, j) ELSE IF j = k THEN ticks ELSE Due(list, j - 1)]
<1>10. ASSUME NEW j \in 1..Len(new)
       PROVE  d[j] = d[j - 1] + new[j].expires
  <2>1. j \in 1..Len(list) + 1 /\ j \in Int /\ k \in Int
    BY <1>1, <1>8
  <2>2. CASE j < k
    <3>1. /\ j \in 1..Len(list) /\ j \in 0..Len(list) + 1 /\ j - 1 \in 0..Len(list) + 1
          /\ j - 1 < k /\ j # k
      BY <1>1, <2>1, <2>2
    <3>2. d[j] = Due(list, j) /\ d[j - 1] = Due(list, j - 1) /\ new[j] = rest[j]
      BY <2>1, <2>2, <3>1, <1>8
    <3> QED  BY <3>1, <3>2, <1>7, DueFacts
  <2>3. CASE j = k
    <3>1. j \in 0..Len(list) + 1 /\ j - 1 \in 0..Len(list) + 1 /\ j - 1 < k
      BY <1>1, <2>1, <2>3
    <3>2. d[j] = ticks /\ d[j - 1] = Due(list, k - 1) /\ new[j] = t
      BY <2>1, <2>3, <3>1, <1>8
    <3>3. ticks = Due(list, k - 1) + n
      BY <1>4, <1>5
    <3> HIDE DEF d
    <3> QED  BY <3>2, <3>3, <1>6
  <2>4. CASE j = k + 1
    <3>1. /\ k \in 1..Len(list) /\ j - 1 = k /\ ~(j < k) /\ j # k
          /\ j \in 0..Len(list) + 1 /\ k \in 0..Len(list) + 1
      BY <1>1, <2>1, <2>4
    <3>2. d[j] = Due(list, k) /\ d[j - 1] = ticks /\ new[j] = rest[k]
      BY <2>1, <3>1, <1>8
    <3>3. /\ Due(list, k) = Due(list, k - 1) + list[k].expires
          /\ rest[k].expires = list[k].expires - n
          /\ list[k].expires \in Nat
      BY <3>1, <1>1, <1>7, DueFacts
    <3>4. new[j].expires = list[k].expires - n
      BY <3>2, <3>3
    <3>5. Due(list, k) = ticks + (list[k].expires - n)
      BY <3>3, <1>4, <1>5
    <3> QED  BY <3>2, <3>4, <3>5
  <2>5. CASE j > k + 1
    <3>1. /\ j - 1 \in 1..Len(list) /\ j - 1 # k /\ ~(j < k) /\ j # k /\ ~(j - 1 < k)
          /\ j \in 0..Len(list) + 1 /\ j - 1 \in 0..Len(list) + 1
      BY <1>1, <2>1, <2>5
    <3>2. d[j] = Due(list, j - 1) /\ d[j - 1] = Due(list, (j - 1) - 1) /\ new[j] = rest[j - 1]
      BY <2>1, <3>1, <1>8
    <3>3. Due(list, j - 1) = Due(list, (j - 1) - 1) + list[j - 1].expires
      BY <3>1, DueFacts
    <3> QED  BY <3>1, <3>2, <3>3, <1>7
  <2> QED  BY <2>1, <2>2, <2>3, <2>4, <2>5
<1>11. d[0] = 0
  <2>1. 0 \in 0..Len(list) + 1 /\ 0 < k
    BY <1>1
  <2> QED  BY <2>1, DueFacts
<1>12. \A j \in 0..Len(new) : Due(new, j) = d[j]
  <2> HIDE DEF d
  <2> QED  BY <1>8, <1>10, <1>11, DueIs
<1>13. ASSUME NEW j \in 1..Len(list) + 1
       PROVE  /\ new[j].proc = IF j < k THEN list[j].proc ELSE IF j = k THEN p ELSE list[j - 1].proc
              /\ Due(new, j) = IF j < k THEN Due(list, j) ELSE IF j = k THEN ticks ELSE Due(list, j - 1)
  <2>1. /\ j \in Int /\ k \in Int /\ j \in 0..Len(new) /\ j \in 0..Len(list) + 1
        /\ j < k => j \in 1..Len(list)
        /\ j > k => j - 1 \in 1..Len(list)
    BY <1>1, <1>8
  <2>2. Due(new, j) = d[j] /\ d[j] = IF j < k THEN Due(list, j) ELSE IF j = k THEN ticks ELSE Due(list, j - 1)
    BY <2>1, <1>12
  <2>3. new[j] = IF j < k THEN rest[j] ELSE IF j = k THEN t ELSE rest[j - 1]
    <3>1. j \in 1..Len(list) + 1
      BY <1>1, <1>8
    <3> HIDE DEF d
    <3> QED  BY <3>1, <1>8
  <2>4. new[j].proc = IF j < k THEN list[j].proc ELSE IF j = k THEN p ELSE list[j - 1].proc
    <3> HIDE DEF d
    <3>1. CASE j < k
      BY <2>1, <2>3, <3>1, <1>7
    <3>2. CASE j = k
      BY <2>1, <2>3, <3>2, <1>6
    <3>3. CASE j > k
      BY <2>1, <2>3, <3>3, <1>7
    <3> QED  BY <2>1, <3>1, <3>2, <3>3
  <2> QED  BY <2>2, <2>4
<1> QED  BY <1>8, <1>9, <1>13 DEF Inserted

\* The timers of new are those of list without the k-th, at the same times.
Removed(new, list, k) ==
  /\ new \in Seq(Timer) /\ Len(new) = Len(list) - 1
  /\ \A j \in 1..Len(list) - 1 :
       /\ new[j].proc = IF j < k THEN list[j].proc ELSE list[j + 1].proc
       /\ Due(new, j) = IF j < k THEN Due(list, j) ELSE Due(list, j + 1)

\* del_timer shifts no other timer: the successor takes over the ticks.
LEMMA UnlinkFacts ==
  ASSUME NEW list \in Seq(Timer), NEW k \in 1..Len(list), NEW new, new = Unlink(list, k)
  PROVE  Removed(new, list, k)
<1>1. /\ Len(list) \in Nat /\ \A j \in 1..Len(list) : list[j] \in Timer
      /\ \A j \in 1..Len(list) : list[j].proc \in Sleeper /\ list[j].expires \in Nat
  <2>1. Len(list) \in Nat /\ \A j \in 1..Len(list) : list[j] \in Timer
    BY LenProperties, ElementOfSeq
  <2> QED  BY <2>1 DEF Timer
<1> DEFINE mid == IF k = Len(list) THEN list
                  ELSE [list EXCEPT ![k + 1].expires = @ + list[k].expires]
<1>2. /\ mid \in Seq(Timer) /\ Len(mid) = Len(list)
      /\ \A j \in 1..Len(list) :
           /\ mid[j].proc = list[j].proc
           /\ mid[j].expires = IF j = k + 1 THEN list[j].expires + list[k].expires
                               ELSE list[j].expires
  <2>1. CASE k = Len(list)
    <3>1. \A j \in 1..Len(list) : j # k + 1
      BY <1>1, <2>1
    <3> QED  BY <2>1, <3>1
  <2>2. CASE k # Len(list)
    <3>1. k + 1 \in 1..Len(list)
      BY <1>1, <2>2
    <3> DEFINE e == [list[k + 1] EXCEPT !.expires = @ + list[k].expires]
    <3>2. /\ e \in Timer /\ e.proc = list[k + 1].proc
          /\ e.expires = list[k + 1].expires + list[k].expires
      <4>1. list[k + 1] \in Timer /\ list[k + 1].expires + list[k].expires \in Nat
        BY <1>1, <3>1
      <4> QED  BY <4>1 DEF Timer
    <3>3. mid = [list EXCEPT ![k + 1] = e]
      BY <2>2
    <3> HIDE DEF e, mid
    <3>4. /\ mid \in Seq(Timer) /\ Len(mid) = Len(list)
          /\ \A j \in 1..Len(list) : mid[j] = IF j = k + 1 THEN e ELSE list[j]
      BY <3>1, <3>2, <3>3, ExceptSeq
    <3> QED  BY <3>2, <3>4
  <2> QED  BY <2>1, <2>2
<1>3. new = RemoveAt(mid, k)
  BY DEF Unlink
<1> HIDE DEF mid
<1>4. /\ new \in Seq(Timer) /\ Len(new) = Len(list) - 1
      /\ \A j \in 1..Len(list) - 1 : new[j] = IF j < k THEN mid[j] ELSE mid[j + 1]
  <2>1. k \in 1..Len(mid) /\ mid \in Seq(Timer)
    BY <1>2
  <2>2. WithoutAt(new, Timer, mid, k)
    BY <2>1, <1>3, RemoveFacts
  <2> QED  BY <2>2, <1>2 DEF WithoutAt
<1> DEFINE d == [j \in 0..Len(list) - 1 |-> IF j < k THEN Due(list, j) ELSE Due(list, j + 1)]
<1>5. \A j \in 0..Len(list) : Due(list, j) \in Nat
  BY DueMonotone
<1>6. ASSUME NEW j \in 1..Len(new)
      PROVE  d[j] = d[j - 1] + new[j].expires
  <2>1. /\ j \in 1..Len(list) - 1 /\ j \in Int /\ k \in Int
        /\ j \in 0..Len(list) - 1 /\ j - 1 \in 0..Len(list) - 1
        /\ j \in 1..Len(list) /\ j + 1 \in 1..Len(list) /\ j - 1 \in 0..Len(list)
    BY <1>1, <1>4
  <2>2. CASE j < k
    <3>1. j - 1 < k /\ j # k + 1
      BY <2>1, <2>2
    <3>2. d[j] = Due(list, j) /\ d[j - 1] = Due(list, j - 1) /\ new[j] = mid[j]
      BY <2>1, <2>2, <3>1, <1>4
    <3> QED  BY <2>1, <3>1, <3>2, <1>2, DueFacts
  <2>3. CASE j = k
    <3>1. j - 1 < k /\ ~(j < k) /\ (j + 1) - 1 = j
      BY <2>1, <2>3
    <3>2. d[j] = Due(list, j + 1) /\ d[j - 1] = Due(list, j - 1) /\ new[j] = mid[j + 1]
      BY <2>1, <3>1, <1>4
    <3>3. mid[j + 1].expires = list[j + 1].expires + list[j].expires
      BY <2>1, <2>3, <1>2
    <3>4. Due(list, j + 1) = Due(list, j) + list[j + 1].expires
      <4>1. Due(list, j + 1) = Due(list, (j + 1) - 1) + list[j + 1].expires
        BY <2>1, DueFacts
      <4> QED  BY <4>1, <3>1
    <3>5. Due(list, j) = Due(list, j - 1) + list[j].expires
      BY <2>1, DueFacts
    <3>6. list[j + 1].expires \in Nat /\ list[j].expires \in Nat /\ Due(list, j - 1) \in Nat
      BY <2>1, <1>1, <1>5
    <3> QED  BY <3>2, <3>3, <3>4, <3>5, <3>6
  <2>4. CASE j > k
    <3>1. ~(j - 1 < k) /\ ~(j < k) /\ (j + 1) - 1 = j /\ (j - 1) + 1 = j /\ j + 1 # k + 1
      BY <2>1, <2>4
    <3>2. d[j] = Due(list, j + 1) /\ d[j - 1] = Due(list, j) /\ new[j] = mid[j + 1]
      BY <2>1, <3>1, <1>4
    <3>3. mid[j + 1].expires = list[j + 1].expires
      BY <2>1, <3>1, <1>2
    <3>4. Due(list, j + 1) = Due(list, (j + 1) - 1) + list[j + 1].expires
      BY <2>1, DueFacts
    <3> QED  BY <3>1, <3>2, <3>3, <3>4
  <2> QED  BY <2>1, <2>2, <2>3, <2>4
<1>7. d[0] = 0
  <2>1. 0 \in 0..Len(list) - 1 /\ 0 < k
    BY <1>1
  <2> QED  BY <2>1, DueFacts
<1>8. \A j \in 0..Len(new) : Due(new, j) = d[j]
  <2> HIDE DEF d
  <2> QED  BY <1>4, <1>6, <1>7, DueIs
<1>9. ASSUME NEW j \in 1..Len(list) - 1
      PROVE  /\ new[j].proc = IF j < k THEN list[j].proc ELSE list[j + 1].proc
             /\ Due(new, j) = IF j < k THEN Due(list, j) ELSE Due(list, j + 1)
  <2>1. /\ j \in Int /\ k \in Int /\ j \in 0..Len(new) /\ j \in 0..Len(list) - 1
        /\ j \in 1..Len(list) /\ j + 1 \in 1..Len(list)
    BY <1>1, <1>4
  <2>2. Due(new, j) = IF j < k THEN Due(list, j) ELSE Due(list, j + 1)
    BY <2>1, <1>8
  <2>3. new[j] = IF j < k THEN mid[j] ELSE mid[j + 1]
    BY <1>4
  <2>4. new[j].proc = IF j < k THEN list[j].proc ELSE list[j + 1].proc
    BY <2>1, <2>3, <1>2
  <2> QED  BY <2>2, <2>4
<1> QED  BY <1>4, <1>9 DEF Removed

-----------------------------------------------------------------------------
(* A tick. *)

\* The first k timers of list expire with this tick, and no other.
Ticked(new, list, k) ==
  /\ k \in 0..Len(list)
  /\ new \in Seq(Timer) /\ Len(new) = Len(list) - k
  /\ \A j \in 1..k : Due(list, j) = 1
  /\ \A j \in k + 1..Len(list) : Due(list, j) > 1
  /\ \A j \in 1..Len(list) - k :
       new[j].proc = list[j + k].proc /\ Due(new, j) = Due(list, j + k) - 1

Decremented(new, list) == new = [list EXCEPT ![1].expires = @ - 1]

\* The first timer has one tick less, and so have all.
LEMMA DecrementFacts ==
  ASSUME NEW list \in Seq(Timer), list # << >>, list[1].expires # 0,
         NEW new, Decremented(new, list)
  PROVE  /\ new \in Seq(Timer) /\ Len(new) = Len(list)
         /\ \A j \in 1..Len(list) : /\ new[j].proc = list[j].proc
                                    /\ Due(new, j) = Due(list, j) - 1
<1>1. /\ Len(list) \in Nat /\ 1 \in 1..Len(list)
      /\ \A j \in 1..Len(list) : list[j] \in Timer
      /\ \A j \in 1..Len(list) : list[j].proc \in Sleeper /\ list[j].expires \in Nat
  <2>1. Len(list) \in Nat /\ \A j \in 1..Len(list) : list[j] \in Timer
    BY LenProperties, ElementOfSeq
  <2>2. Len(list) # 0
    BY EmptySeq
  <2> QED  BY <2>1, <2>2 DEF Timer
<1> DEFINE e == [list[1] EXCEPT !.expires = @ - 1]
<1>2. e \in Timer /\ e.proc = list[1].proc /\ e.expires = list[1].expires - 1
  <2>1. list[1].expires - 1 \in Nat
    BY <1>1
  <2> QED  BY <1>1, <2>1 DEF Timer
<1>3. new = [list EXCEPT ![1] = e]
  BY DEF Decremented
<1> HIDE DEF e
<1>4. /\ new \in Seq(Timer) /\ Len(new) = Len(list)
      /\ \A j \in 1..Len(list) : new[j] = IF j = 1 THEN e ELSE list[j]
  <2>1. PICK k \in 1..Len(list) : k = 1
    BY <1>1
  <2>2. new = [list EXCEPT ![k] = e]
    BY <1>3, <2>1
  <2>3. /\ new \in Seq(Timer) /\ Len(new) = Len(list)
        /\ \A j \in 1..Len(list) : new[j] = IF j = k THEN e ELSE list[j]
    BY <1>1, <1>2, <2>2, ExceptSeq
  <2> QED  BY <2>1, <2>3
<1> DEFINE d == [j \in 0..Len(list) |-> IF j = 0 THEN 0 ELSE Due(list, j) - 1]
<1>5. \A j \in 0..Len(list) : Due(list, j) \in Nat
  BY DueMonotone
<1>6. ASSUME NEW j \in 1..Len(new)
      PROVE  d[j] = d[j - 1] + new[j].expires
  <2>1. /\ j \in 1..Len(list) /\ j \in 0..Len(list) /\ j - 1 \in 0..Len(list) /\ j # 0
    BY <1>1, <1>4
  <2>2. /\ Due(list, j) = Due(list, j - 1) + list[j].expires
        /\ Due(list, j - 1) \in Nat /\ list[j].expires \in Nat
    BY <2>1, <1>1, <1>5, DueFacts
  <2>3. CASE j = 1
    <3>1. d[j] = Due(list, j) - 1 /\ d[j - 1] = 0 /\ new[j] = e
      BY <2>1, <2>3, <1>4
    <3>2. Due(list, j - 1) = 0
      BY <2>3, DueFacts
    <3>3. new[j].expires = list[j].expires - 1
      BY <2>3, <3>1, <1>2
    <3> QED  BY <3>1, <3>2, <3>3, <2>2
  <2>4. CASE j # 1
    <3>1. j - 1 # 0
      BY <2>1, <2>4
    <3>2. d[j] = Due(list, j) - 1 /\ d[j - 1] = Due(list, j - 1) - 1 /\ new[j] = list[j]
      BY <2>1, <2>4, <3>1, <1>4
    <3>3. new[j].expires = list[j].expires
      BY <3>2
    <3> HIDE DEF d
    <3>4. PICK a, b, c \in Int : a = Due(list, j) /\ b = Due(list, j - 1) /\ c = list[j].expires
      BY <2>2
    <3>5. a = b + c
      BY <3>4, <2>2
    <3>6. a - 1 = (b - 1) + c
      BY <3>5
    <3> QED  BY <3>2, <3>3, <3>4, <3>6
  <2> QED  BY <2>3, <2>4
<1>7. d[0] = 0
  BY <1>1
<1>8. \A j \in 0..Len(new) : Due(new, j) = d[j]
  <2> HIDE DEF d
  <2> QED  BY <1>4, <1>6, <1>7, DueIs
<1>9. ASSUME NEW j \in 1..Len(list)
      PROVE  new[j].proc = list[j].proc /\ Due(new, j) = Due(list, j) - 1
  <2>1. j \in 0..Len(new) /\ j \in 0..Len(list) /\ j # 0
    BY <1>1, <1>4
  <2> QED  BY <2>1, <1>2, <1>4, <1>8
<1> QED  BY <1>4, <1>9

\* The run of expired timers: it exists, and it is all that have expired.
LEMMA ExpiredFacts ==
  ASSUME NEW list \in Seq(Timer)
  PROVE  /\ Expired(list) \in 0..Len(list)
         /\ \A j \in 1..Expired(list) : list[j].expires = 0
         /\ Expired(list) < Len(list) => list[Expired(list) + 1].expires # 0
<1>1. Len(list) \in Nat
  BY LenProperties
<1> DEFINE Run(k) == /\ \A j \in 1..k : list[j].expires = 0
                     /\ k < Len(list) => list[k + 1].expires # 0
           T == {k \in Nat : k <= Len(list) /\ (k < Len(list) => list[k + 1].expires # 0)}
<1>2. \E k \in 0..Len(list) : Run(k)
  <2>1. Len(list) \in T
    BY <1>1
  <2>2. PICK k \in T : \A i \in T : k <= i
    BY <2>1, NatLeast
  <2>3. ASSUME NEW j \in 1..k
        PROVE  list[j].expires = 0
    <3>1. j - 1 \in Nat /\ j - 1 < k /\ j - 1 < Len(list) /\ (j - 1) + 1 = j
      BY <1>1, <2>2
    <3>2. j - 1 \notin T
      BY <2>2, <3>1
    <3> QED  BY <3>1, <3>2, <1>1
  <2> QED  BY <2>2, <2>3, <1>1
<1> QED  BY <1>2 DEF Expired

\* run_timer_list takes out the timers with one tick left, and no others.
LEMMA TickFacts ==
  ASSUME NEW list \in Seq(Timer), list # << >>, list[1].expires # 0,
         NEW dec, Decremented(dec, list),
         NEW new, new = SubSeq(dec, Expired(dec) + 1, Len(dec))
  PROVE  Ticked(new, list, Expired(dec))
<1>1. /\ Len(list) \in Nat /\ dec \in Seq(Timer) /\ Len(dec) = Len(list)
      /\ \A j \in 1..Len(list) : /\ dec[j].proc = list[j].proc
                                 /\ Due(dec, j) = Due(list, j) - 1
  BY LenProperties, DecrementFacts
<1>2. \A j \in 1..Len(dec) : dec[j] \in Timer /\ dec[j].expires \in Nat
  <2>1. \A j \in 1..Len(dec) : dec[j] \in Timer
    BY <1>1, ElementOfSeq
  <2> QED  BY <2>1 DEF Timer
<1>3. PICK k \in 0..Len(dec) : k = Expired(dec)
  BY <1>1, ExpiredFacts
<1>4. /\ \A j \in 1..k : dec[j].expires = 0
      /\ k < Len(dec) => dec[k + 1].expires # 0
  BY <1>1, <1>3, ExpiredFacts
<1>5. /\ \A j \in 0..Len(dec) : Due(dec, j) \in Nat
      /\ \A i, j \in 0..Len(dec) : i <= j => Due(dec, i) <= Due(dec, j)
  BY <1>1, DueMonotone
<1>6. \A j \in 0..Len(list) : Due(list, j) \in Nat
  BY DueMonotone
<1>7. \A j \in 0..k : Due(dec, j) = 0
  <2> DEFINE T == {j \in Nat : j <= k /\ Due(dec, j) # 0}
  <2> SUFFICES ASSUME T # {} PROVE FALSE
    BY <1>1
  <2>1. PICK j \in T : \A i \in T : j <= i
    BY NatLeast
  <2>2. j # 0
    BY <2>1, <1>1, DueFacts
  <2>3. j \in 1..k /\ j \in 1..Len(dec) /\ j - 1 \in Nat /\ j - 1 \notin T /\ j - 1 <= k
    BY <1>1, <2>1, <2>2
  <2>4. Due(dec, j - 1) = 0 /\ dec[j].expires = 0
    BY <2>3, <1>4
  <2>5. Due(dec, j) = Due(dec, j - 1) + dec[j].expires
    BY <2>3, <1>1, DueFacts
  <2> QED  BY <2>1, <2>4, <2>5
<1>8. ASSUME NEW j \in k + 1..Len(dec)
      PROVE  Due(dec, j) > 0
  <2>1. /\ k + 1 \in 1..Len(dec) /\ k + 1 \in 0..Len(dec) /\ k + 1 <= j
        /\ j \in 0..Len(dec) /\ (k + 1) - 1 = k /\ k < Len(dec) /\ k \in 0..k
    BY <1>1
  <2>2. Due(dec, k + 1) = Due(dec, (k + 1) - 1) + dec[k + 1].expires
    BY <2>1, <1>1, DueFacts
  <2>3. Due(dec, k) = 0 /\ dec[k + 1].expires \in Nat /\ dec[k + 1].expires # 0
    BY <2>1, <1>2, <1>4, <1>7
  <2>4. Due(dec, k + 1) <= Due(dec, j) /\ Due(dec, j) \in Nat /\ Due(dec, k + 1) \in Nat
    BY <2>1, <1>5
  <2>5. Due(dec, k + 1) > 0
    BY <2>1, <2>2, <2>3
  <2> QED  BY <2>4, <2>5
<1>9. /\ new \in Seq(Timer) /\ Len(new) = Len(dec) - k
      /\ \A j \in 1..Len(dec) - k : new[j] = dec[k + j]
  <2>1. k + 1 \in Int /\ Len(dec) \in Int /\ \A j \in k + 1..Len(dec) : dec[j] \in Timer
    BY <1>1, <1>2
  <2>2. /\ new \in Seq(Timer)
        /\ Len(new) = IF k + 1 <= Len(dec) THEN Len(dec) - (k + 1) + 1 ELSE 0
        /\ \A j \in 1..Len(dec) - (k + 1) + 1 : new[j] = dec[(k + 1) + j - 1]
    BY <2>1, <1>3, SubSeqProperties
  <2>3. /\ (IF k + 1 <= Len(dec) THEN Len(dec) - (k + 1) + 1 ELSE 0) = Len(dec) - k
        /\ Len(dec) - (k + 1) + 1 = Len(dec) - k
        /\ \A j \in 1..Len(dec) - k : (k + 1) + j - 1 = k + j
    BY <1>1
  <2> QED  BY <2>2, <2>3
<1> DEFINE d == [j \in 0..Len(dec) - k |-> Due(dec, k + j)]
<1>10. ASSUME NEW j \in 1..Len(new)
       PROVE  d[j] = d[j - 1] + new[j].expires
  <2>1. /\ j \in 1..Len(dec) - k /\ j \in 0..Len(dec) - k /\ j - 1 \in 0..Len(dec) - k
        /\ k + j \in 1..Len(dec) /\ (k + j) - 1 = k + (j - 1)
    BY <1>1, <1>9
  <2>2. d[j] = Due(dec, k + j) /\ d[j - 1] = Due(dec, k + (j - 1)) /\ new[j] = dec[k + j]
    BY <2>1, <1>9
  <2>3. Due(dec, k + j) = Due(dec, (k + j) - 1) + dec[k + j].expires
    BY <2>1, <1>1, DueFacts
  <2> HIDE DEF d
  <2> QED  BY <2>1, <2>2, <2>3
<1>11. d[0] = 0
  <2>1. 0 \in 0..Len(dec) - k /\ k + 0 = k /\ k \in 0..k
    BY <1>1
  <2> QED  BY <2>1, <1>7
<1>12. \A j \in 0..Len(new) : Due(new, j) = d[j]
  <2> HIDE DEF d
  <2> QED  BY <1>9, <1>10, <1>11, DueIs
<1>13. ASSUME NEW j \in 1..Len(list) - k
       PROVE  new[j].proc = list[j + k].proc /\ Due(new, j) = Due(list, j + k) - 1
  <2>1. /\ j \in 1..Len(dec) - k /\ j \in 0..Len(new) /\ j \in 0..Len(dec) - k
        /\ k + j = j + k /\ j + k \in 1..Len(list)
    BY <1>1, <1>9
  <2>2. d[j] = Due(dec, k + j)
    BY <2>1
  <2> HIDE DEF d
  <2>3. new[j] = dec[k + j] /\ Due(new, j) = Due(dec, k + j)
    BY <2>1, <2>2, <1>9, <1>12
  <2> QED  BY <2>1, <2>3, <1>1
<1>14. ASSUME NEW j \in 1..k
       PROVE  Due(list, j) = 1
  <2>1. j \in 1..Len(list) /\ j \in 0..k /\ j \in 0..Len(list)
    BY <1>1
  <2> QED  BY <2>1, <1>1, <1>6, <1>7
<1>15. ASSUME NEW j \in k + 1..Len(list)
       PROVE  Due(list, j) > 1
  <2>1. j \in 1..Len(list) /\ j \in k + 1..Len(dec) /\ j \in 0..Len(list)
    BY <1>1
  <2> QED  BY <2>1, <1>1, <1>6, <1>8
<1> QED  BY <1>1, <1>3, <1>9, <1>13, <1>14, <1>15 DEF Ticked

-----------------------------------------------------------------------------
(* What is left of the time of each process. *)

Procs(list) == { list[k].proc : k \in 1..Len(list) }

\* A process has one timer at most, and none in the list has expired.
ListOK(list) ==
  /\ list \in Seq(Timer)
  /\ \A j, k \in 1..Len(list) : list[j].proc = list[k].proc => j = k
  /\ \A k \in 1..Len(list) : Due(list, k) > 0

LeftIn(list) ==
  [p \in Sleeper |-> IF Linked(list, p) = {} THEN 0
                     ELSE Due(list, CHOOSE k \in Linked(list, p) : TRUE)]

\* The types in a list.
LEMMA ListFacts ==
  ASSUME NEW list, ListOK(list)
  PROVE  /\ Len(list) \in Nat
         /\ \A k \in 1..Len(list) : /\ list[k].proc \in Sleeper
                                    /\ Due(list, k) \in Nat /\ Due(list, k) > 0
         /\ \A p : Linked(list, p) = {k \in 1..Len(list) : list[k].proc = p}
  <1>1. list \in Seq(Timer) /\ Len(list) \in Nat /\ DOMAIN list = 1..Len(list)
    BY LenProperties DEF ListOK
  <1>2. \A k \in 1..Len(list) : list[k] \in Timer /\ k \in 0..Len(list)
    BY <1>1, ElementOfSeq
  <1>3. \A k \in 0..Len(list) : Due(list, k) \in Nat
    BY <1>1, DueMonotone
  <1> QED  BY <1>1, <1>2, <1>3 DEF ListOK, Timer, Linked

\* The only function that gives each process of list its time, and 0 to the others.
LEMMA LeftIs ==
  ASSUME NEW list, ListOK(list), NEW f,
         f = [p \in Sleeper |-> f[p]],
         \A k \in 1..Len(list) : f[list[k].proc] = Due(list, k),
         \A p \in Sleeper : p \notin Procs(list) => f[p] = 0
  PROVE  f = LeftIn(list)
<1>1. ASSUME NEW p \in Sleeper
      PROVE  f[p] = IF Linked(list, p) = {} THEN 0
                    ELSE Due(list, CHOOSE k \in Linked(list, p) : TRUE)
  <2>1. CASE Linked(list, p) = {}
    <3>1. ASSUME NEW k \in 1..Len(list), p = list[k].proc
          PROVE  FALSE
      <4>1. k \in Linked(list, p)
        BY <3>1, ListFacts
      <4> QED  BY <4>1, <2>1
    <3>2. p \notin Procs(list)
      BY <3>1 DEF Procs
    <3> QED  BY <2>1, <3>2
  <2>2. CASE Linked(list, p) # {}
    <3>1. PICK k \in Linked(list, p) : k = CHOOSE i \in Linked(list, p) : TRUE
      BY <2>2
    <3>2. k \in 1..Len(list) /\ list[k].proc = p
      BY <3>1, ListFacts
    <3> QED  BY <2>2, <3>1, <3>2
  <2> QED  BY <2>1, <2>2
<1> QED  BY <1>1 DEF LeftIn

\* LeftIn is that function.
LEMMA LeftFacts ==
  ASSUME NEW list, ListOK(list)
  PROVE  /\ LeftIn(list) = [p \in Sleeper |-> LeftIn(list)[p]]
         /\ \A k \in 1..Len(list) : LeftIn(list)[list[k].proc] = Due(list, k)
         /\ \A p \in Sleeper : p \notin Procs(list) => LeftIn(list)[p] = 0
<1>1. ASSUME NEW k \in 1..Len(list)
      PROVE  LeftIn(list)[list[k].proc] = Due(list, k)
  <2>1. list[k].proc \in Sleeper /\ k \in Linked(list, list[k].proc)
    BY ListFacts
  <2>2. PICK i \in Linked(list, list[k].proc) :
               i = CHOOSE j \in Linked(list, list[k].proc) : TRUE
    BY <2>1
  <2>3. i \in 1..Len(list) /\ list[i].proc = list[k].proc
    BY <2>2, ListFacts
  <2>4. i = k
    BY <2>3 DEF ListOK
  <2> QED  BY <2>1, <2>2, <2>4 DEF LeftIn
<1>2. ASSUME NEW p \in Sleeper, p \notin Procs(list)
      PROVE  LeftIn(list)[p] = 0
  <2>1. Linked(list, p) = {}
    BY <1>2, ListFacts DEF Procs
  <2> QED  BY <2>1 DEF LeftIn
<1>3. LeftIn(list) = [p \in Sleeper |-> LeftIn(list)[p]]
  BY DEF LeftIn
<1> QED  BY <1>1, <1>2, <1>3

-----------------------------------------------------------------------------
(* The operations on the list, as changes of the time that is left. *)

\* add_timer gives p its ticks.
LEMMA AddLeft ==
  ASSUME NEW list, ListOK(list), NEW p \in Sleeper, p \notin Procs(list),
         NEW ticks \in Nat, ticks > 0, NEW new, new = AddTimer(list, p, ticks)
  PROVE  /\ ListOK(new) /\ Procs(new) = Procs(list) \cup {p}
         /\ LeftIn(new) = [LeftIn(list) EXCEPT ![p] = ticks]
<1>1. /\ list \in Seq(Timer) /\ Len(list) \in Nat
      /\ \A i \in 1..Len(list) : /\ list[i].proc \in Sleeper /\ list[i].proc # p
                                 /\ Due(list, i) \in Nat /\ Due(list, i) > 0
  BY ListFacts DEF ListOK, Procs
<1>2. PICK k \in 1..Len(list) + 1 : Inserted(new, list, k, p, ticks)
  BY <1>1, AddFacts
<1>3. new \in Seq(Timer) /\ Len(new) = Len(list) + 1
  BY <1>2 DEF Inserted
<1>4. k \in 1..Len(new) /\ new[k].proc = p /\ Due(new, k) = ticks
  BY <1>1, <1>2 DEF Inserted
<1>5. ASSUME NEW j \in 1..Len(new), j # k
      PROVE  \E i \in 1..Len(list) : /\ i = IF j < k THEN j ELSE j - 1
                                     /\ new[j].proc = list[i].proc
                                     /\ Due(new, j) = Due(list, i)
  <2>1. j \in 1..Len(list) + 1 /\ j \in Int /\ k \in Int
    BY <1>1, <1>3
  <2>2. CASE j < k
    <3>1. j \in 1..Len(list)
      BY <1>1, <2>1, <2>2
    <3> QED  BY <2>1, <2>2, <3>1, <1>2 DEF Inserted
  <2>3. CASE j > k
    <3>1. j - 1 \in 1..Len(list) /\ ~(j < k)
      BY <1>1, <2>1, <2>3
    <3> QED  BY <2>1, <2>3, <3>1, <1>2, <1>5 DEF Inserted
  <2> QED  BY <2>1, <2>2, <2>3, <1>5
<1>6. ASSUME NEW i \in 1..Len(list)
      PROVE  \E j \in 1..Len(new) : new[j].proc = list[i].proc
  <2>1. CASE i < k
    <3>1. i \in 1..Len(list) + 1
      BY <1>1
    <3> QED  BY <2>1, <3>1, <1>2, <1>3 DEF Inserted
  <2>2. CASE ~(i < k)
    <3>1. i + 1 \in 1..Len(list) + 1 /\ ~(i + 1 < k) /\ i + 1 # k /\ (i + 1) - 1 = i
      BY <1>1, <2>2
    <3> QED  BY <3>1, <1>2, <1>3 DEF Inserted
  <2> QED  BY <2>1, <2>2
<1>7. ListOK(new)
  <2>1. ASSUME NEW i \in 1..Len(new), NEW j \in 1..Len(new), new[i].proc = new[j].proc
        PROVE  i = j
    <3>1. CASE i = k \/ j = k
      <4>1. ASSUME NEW l \in 1..Len(new), l # k
            PROVE  new[l].proc # p
        <5>1. PICK m \in 1..Len(list) : new[l].proc = list[m].proc
          BY <4>1, <1>5
        <5> QED  BY <5>1, <1>1
      <4> QED  BY <4>1, <3>1, <2>1, <1>4
    <3>2. CASE i # k /\ j # k
      <4>1. PICK a \in 1..Len(list) : a = (IF i < k THEN i ELSE i - 1) /\ new[i].proc = list[a].proc
        BY <3>2, <1>5
      <4>2. PICK b \in 1..Len(list) : b = (IF j < k THEN j ELSE j - 1) /\ new[j].proc = list[b].proc
        BY <3>2, <1>5
      <4>3. a = b
        BY <2>1, <4>1, <4>2 DEF ListOK
      <4> QED  BY <3>2, <4>1, <4>2, <4>3, <1>1, <1>3
    <3> QED  BY <3>1, <3>2
  <2>2. ASSUME NEW j \in 1..Len(new)
        PROVE  Due(new, j) > 0
    <3>1. CASE j = k
      BY <3>1, <1>4
    <3>2. CASE j # k
      BY <3>2, <1>1, <1>5
    <3> QED  BY <3>1, <3>2
  <2> QED  BY <1>3, <2>1, <2>2 DEF ListOK
<1>8. Procs(new) = Procs(list) \cup {p}
  <2>1. ASSUME NEW q \in Procs(new)
        PROVE  q \in Procs(list) \cup {p}
    <3>1. PICK j \in 1..Len(new) : q = new[j].proc
      BY DEF Procs
    <3> QED  BY <3>1, <1>4, <1>5 DEF Procs
  <2>2. Procs(list) \subseteq Procs(new) /\ p \in Procs(new)
    BY <1>4, <1>6 DEF Procs
  <2> QED  BY <2>1, <2>2
<1> DEFINE f == [LeftIn(list) EXCEPT ![p] = ticks]
<1>9. /\ f = [q \in Sleeper |-> f[q]]
      /\ \A q \in Sleeper : f[q] = IF q = p THEN ticks ELSE LeftIn(list)[q]
  <2>1. LeftIn(list) = [q \in Sleeper |-> LeftIn(list)[q]]
    BY LeftFacts
  <2> QED  BY <2>1
<1> HIDE DEF f
<1>10. ASSUME NEW j \in 1..Len(new)
       PROVE  f[new[j].proc] = Due(new, j)
  <2>1. CASE j = k
    BY <2>1, <1>4, <1>9
  <2>2. CASE j # k
    <3>1. PICK i \in 1..Len(list) : new[j].proc = list[i].proc /\ Due(new, j) = Due(list, i)
      BY <2>2, <1>5
    <3>2. LeftIn(list)[list[i].proc] = Due(list, i)
      BY LeftFacts
    <3> QED  BY <3>1, <3>2, <1>1, <1>9
  <2> QED  BY <2>1, <2>2
<1>11. \A q \in Sleeper : q \notin Procs(new) => f[q] = 0
  BY <1>8, <1>9, LeftFacts
<1>12. f = LeftIn(new)
  BY <1>7, <1>9, <1>10, <1>11, LeftIs
<1> QED  BY <1>7, <1>8, <1>12 DEF f

\* del_timer takes the ticks of the k-th timer from its process.
LEMMA UnlinkLeft ==
  ASSUME NEW list, ListOK(list), NEW k \in 1..Len(list), NEW p, p = list[k].proc,
         NEW new, new = Unlink(list, k)
  PROVE  /\ ListOK(new) /\ Procs(new) = Procs(list) \ {p}
         /\ LeftIn(new) = [LeftIn(list) EXCEPT ![p] = 0]
<1>1. /\ list \in Seq(Timer) /\ Len(list) \in Nat
      /\ \A i \in 1..Len(list) : /\ list[i].proc \in Sleeper
                                 /\ Due(list, i) \in Nat /\ Due(list, i) > 0
  BY ListFacts DEF ListOK
<1>2. Removed(new, list, k)
  BY <1>1, UnlinkFacts
<1>3. new \in Seq(Timer) /\ Len(new) = Len(list) - 1
  BY <1>2 DEF Removed
<1>4. ASSUME NEW i \in 1..Len(list), list[i].proc = p
      PROVE  i = k
  BY <1>4 DEF ListOK
<1>5. ASSUME NEW j \in 1..Len(new)
      PROVE  \E i \in 1..Len(list) : /\ i = IF j < k THEN j ELSE j + 1
                                     /\ i # k
                                     /\ new[j].proc = list[i].proc
                                     /\ Due(new, j) = Due(list, i)
  <2>1. j \in 1..Len(list) - 1 /\ j \in Int /\ k \in Int
    BY <1>1, <1>3
  <2>2. CASE j < k
    <3>1. j \in 1..Len(list)
      BY <1>1, <2>1, <2>2
    <3> QED  BY <2>1, <2>2, <3>1, <1>2 DEF Removed
  <2>3. CASE ~(j < k)
    <3>1. j + 1 \in 1..Len(list) /\ j + 1 # k
      BY <1>1, <2>1, <2>3
    <3> QED  BY <2>1, <2>3, <3>1, <1>2 DEF Removed
  <2> QED  BY <2>2, <2>3
<1>6. ASSUME NEW i \in 1..Len(list), i # k
      PROVE  \E j \in 1..Len(new) : new[j].proc = list[i].proc
  <2>0. i \in Int /\ k \in Int
    BY <1>1
  <2>1. CASE i < k
    <3>1. i \in 1..Len(list) - 1
      BY <1>1, <2>1
    <3> QED  BY <2>1, <3>1, <1>2, <1>3 DEF Removed
  <2>2. CASE i > k
    <3>1. i - 1 \in 1..Len(list) - 1 /\ ~(i - 1 < k) /\ (i - 1) + 1 = i
      BY <1>1, <2>2
    <3> QED  BY <3>1, <1>2, <1>3 DEF Removed
  <2> QED  BY <2>0, <2>1, <2>2, <1>6
<1>7. ListOK(new)
  <2>1. ASSUME NEW i \in 1..Len(new), NEW j \in 1..Len(new), new[i].proc = new[j].proc
        PROVE  i = j
    <3>1. PICK a \in 1..Len(list) : a = (IF i < k THEN i ELSE i + 1) /\ new[i].proc = list[a].proc
      BY <1>5
    <3>2. PICK b \in 1..Len(list) : b = (IF j < k THEN j ELSE j + 1) /\ new[j].proc = list[b].proc
      BY <1>5
    <3>3. a = b
      BY <2>1, <3>1, <3>2 DEF ListOK
    <3> QED  BY <3>1, <3>2, <3>3, <1>1, <1>3
  <2>2. ASSUME NEW j \in 1..Len(new)
        PROVE  Due(new, j) > 0
    BY <1>1, <1>5
  <2> QED  BY <1>3, <2>1, <2>2 DEF ListOK
<1>8. Procs(new) = Procs(list) \ {p}
  <2>1. ASSUME NEW q \in Procs(new)
        PROVE  q \in Procs(list) \ {p}
    <3>1. PICK j \in 1..Len(new) : q = new[j].proc
      BY DEF Procs
    <3>2. PICK i \in 1..Len(list) : i # k /\ new[j].proc = list[i].proc
      BY <1>5
    <3> QED  BY <3>1, <3>2, <1>4 DEF Procs
  <2>2. ASSUME NEW q \in Procs(list) \ {p}
        PROVE  q \in Procs(new)
    <3>1. PICK i \in 1..Len(list) : q = list[i].proc
      BY DEF Procs
    <3> QED  BY <3>1, <1>6 DEF Procs
  <2> QED  BY <2>1, <2>2
<1> DEFINE f == [LeftIn(list) EXCEPT ![p] = 0]
<1>9. /\ f = [q \in Sleeper |-> f[q]]
      /\ \A q \in Sleeper : f[q] = IF q = p THEN 0 ELSE LeftIn(list)[q]
  <2>1. LeftIn(list) = [q \in Sleeper |-> LeftIn(list)[q]]
    BY LeftFacts
  <2> QED  BY <2>1
<1> HIDE DEF f
<1>10. ASSUME NEW j \in 1..Len(new)
       PROVE  f[new[j].proc] = Due(new, j)
  <2>1. PICK i \in 1..Len(list) : i # k /\ new[j].proc = list[i].proc /\ Due(new, j) = Due(list, i)
    BY <1>5
  <2>2. LeftIn(list)[list[i].proc] = Due(list, i)
    BY LeftFacts
  <2>3. list[i].proc # p
    BY <2>1, <1>4
  <2> QED  BY <2>1, <2>2, <2>3, <1>1, <1>9
<1>11. \A q \in Sleeper : q \notin Procs(new) => f[q] = 0
  BY <1>8, <1>9, LeftFacts
<1>12. f = LeftIn(new)
  BY <1>7, <1>9, <1>10, <1>11, LeftIs
<1> QED  BY <1>7, <1>8, <1>12 DEF f

\* del_timer, of a process with a timer in the list or without.
LEMMA DeleteLeft ==
  ASSUME NEW list, ListOK(list), NEW p \in Sleeper, NEW new, new = DelTimer(list, p)
  PROVE  /\ ListOK(new) /\ Procs(new) = Procs(list) \ {p}
         /\ LeftIn(new) = [LeftIn(list) EXCEPT ![p] = 0]
<1>1. CASE Linked(list, p) = {}
  <2>1. new = list
    BY <1>1 DEF DelTimer
  <2>2. p \notin Procs(list)
    <3>1. ASSUME NEW k \in 1..Len(list), p = list[k].proc
          PROVE  FALSE
      <4>1. k \in Linked(list, p)
        BY <3>1, ListFacts
      <4> QED  BY <4>1, <1>1
    <3> QED  BY <3>1 DEF Procs
  <2>3. LeftIn(list)[p] = 0 /\ LeftIn(list) = [q \in Sleeper |-> LeftIn(list)[q]]
    BY <2>2, LeftFacts
  <2>4. LeftIn(list) = [LeftIn(list) EXCEPT ![p] = 0]
    BY <2>3
  <2> QED  BY <2>1, <2>2, <2>4
<1>2. CASE Linked(list, p) # {}
  <2>1. PICK k \in Linked(list, p) : k = CHOOSE i \in Linked(list, p) : TRUE
    BY <1>2
  <2>2. k \in 1..Len(list) /\ list[k].proc = p
    BY <2>1, ListFacts
  <2>3. new = Unlink(list, k)
    BY <1>2, <2>1 DEF DelTimer
  <2> QED  BY <2>2, <2>3, UnlinkLeft
<1> QED  BY <1>1, <1>2

\* A tick takes one from every time that is left.
LEMMA TickLeft ==
  ASSUME NEW list, ListOK(list), NEW new, NEW k, Ticked(new, list, k)
  PROVE  /\ ListOK(new) /\ Procs(new) \subseteq Procs(list)
         /\ { list[j].proc : j \in 1..k } = { p \in Sleeper : LeftIn(list)[p] = 1 }
         /\ LeftIn(new) = [p \in Sleeper |-> IF LeftIn(list)[p] = 0 THEN 0
                                             ELSE LeftIn(list)[p] - 1]
<1>1. /\ list \in Seq(Timer) /\ Len(list) \in Nat
      /\ \A i \in 1..Len(list) : /\ list[i].proc \in Sleeper
                                 /\ Due(list, i) \in Nat /\ Due(list, i) > 0
                                 /\ LeftIn(list)[list[i].proc] = Due(list, i)
  BY ListFacts, LeftFacts DEF ListOK
<1>2. /\ k \in 0..Len(list) /\ new \in Seq(Timer) /\ Len(new) = Len(list) - k
      /\ \A j \in 1..k : Due(list, j) = 1
      /\ \A j \in k + 1..Len(list) : Due(list, j) > 1
  BY DEF Ticked
<1>3. ASSUME NEW j \in 1..Len(new)
      PROVE  \E i \in k + 1..Len(list) : /\ i = j + k /\ i \in 1..Len(list)
                                         /\ new[j].proc = list[i].proc
                                         /\ Due(new, j) = Due(list, i) - 1
  <2>1. j \in 1..Len(list) - k /\ j + k \in k + 1..Len(list) /\ j + k \in 1..Len(list)
    BY <1>1, <1>2
  <2> QED  BY <2>1 DEF Ticked
<1>4. ListOK(new)
  <2>1. ASSUME NEW i \in 1..Len(new), NEW j \in 1..Len(new), new[i].proc = new[j].proc
        PROVE  i = j
    <3>1. PICK a \in k + 1..Len(list) : a = i + k /\ a \in 1..Len(list) /\ new[i].proc = list[a].proc
      BY <1>3
    <3>2. PICK b \in k + 1..Len(list) : b = j + k /\ b \in 1..Len(list) /\ new[j].proc = list[b].proc
      BY <1>3
    <3>3. a = b
      BY <2>1, <3>1, <3>2 DEF ListOK
    <3> QED  BY <3>1, <3>2, <3>3, <1>1, <1>2
  <2>2. ASSUME NEW j \in 1..Len(new)
        PROVE  Due(new, j) > 0
    <3>1. PICK i \in k + 1..Len(list) : i \in 1..Len(list) /\ Due(new, j) = Due(list, i) - 1
      BY <1>3
    <3>2. Due(list, i) > 1 /\ Due(list, i) \in Nat
      BY <3>1, <1>1, <1>2
    <3> QED  BY <3>1, <3>2
  <2> QED  BY <1>2, <2>1, <2>2 DEF ListOK
<1>5. Procs(new) \subseteq Procs(list)
  <2>1. ASSUME NEW q \in Procs(new)
        PROVE  q \in Procs(list)
    <3>1. PICK j \in 1..Len(new) : q = new[j].proc
      BY DEF Procs
    <3> QED  BY <3>1, <1>3 DEF Procs
  <2> QED  BY <2>1
<1>6. ASSUME NEW p \in Sleeper, p \in Procs(list)
      PROVE  \E i \in 1..Len(list) : list[i].proc = p /\ LeftIn(list)[p] = Due(list, i)
  BY <1>1, <1>6 DEF Procs
<1>7. { list[j].proc : j \in 1..k } = { p \in Sleeper : LeftIn(list)[p] = 1 }
  <2>1. ASSUME NEW j \in 1..k
        PROVE  list[j].proc \in { p \in Sleeper : LeftIn(list)[p] = 1 }
    <3>1. j \in 1..Len(list) /\ Due(list, j) = 1
      BY <1>1, <1>2
    <3> QED  BY <3>1, <1>1
  <2>2. ASSUME NEW p \in Sleeper, LeftIn(list)[p] = 1
        PROVE  p \in { list[j].proc : j \in 1..k }
    <3>1. p \in Procs(list)
      <4>1. p \notin Procs(list) => LeftIn(list)[p] = 0
        BY LeftFacts
      <4> QED  BY <4>1, <2>2
    <3>2. PICK i \in 1..Len(list) : list[i].proc = p /\ LeftIn(list)[p] = Due(list, i)
      BY <3>1, <1>6
    <3>3. ~(Due(list, i) > 1)
      BY <3>2, <2>2
    <3>4. i \in 1..k
      BY <3>3, <1>1, <1>2
    <3> QED  BY <3>2, <3>4
  <2> QED  BY <2>1, <2>2
<1> DEFINE f == [p \in Sleeper |-> IF LeftIn(list)[p] = 0 THEN 0 ELSE LeftIn(list)[p] - 1]
<1>8. /\ f = [q \in Sleeper |-> f[q]]
      /\ \A q \in Sleeper : f[q] = IF LeftIn(list)[q] = 0 THEN 0 ELSE LeftIn(list)[q] - 1
  OBVIOUS
<1> HIDE DEF f
<1>9. ASSUME NEW j \in 1..Len(new)
      PROVE  f[new[j].proc] = Due(new, j)
  <2>1. PICK i \in k + 1..Len(list) : /\ i \in 1..Len(list) /\ new[j].proc = list[i].proc
                                      /\ Due(new, j) = Due(list, i) - 1
    BY <1>3
  <2>2. LeftIn(list)[list[i].proc] = Due(list, i) /\ Due(list, i) # 0 /\ list[i].proc \in Sleeper
    BY <2>1, <1>1
  <2> QED  BY <2>1, <2>2, <1>8
<1>10. ASSUME NEW q \in Sleeper, q \notin Procs(new)
       PROVE  f[q] = 0
  <2>1. CASE q \notin Procs(list)
    BY <2>1, <1>8, LeftFacts
  <2>2. CASE q \in Procs(list)
    <3>1. PICK i \in 1..Len(list) : list[i].proc = q /\ LeftIn(list)[q] = Due(list, i)
      BY <2>2, <1>6
    <3>2. i \in 1..k
      <4>1. SUFFICES ASSUME i > k PROVE FALSE
        BY <1>1, <1>2
      <4>2. i - k \in 1..Len(list) - k /\ (i - k) + k = i
        BY <1>1, <1>2, <4>1
      <4>3. new[i - k].proc = list[(i - k) + k].proc
        BY <4>2 DEF Ticked
      <4> QED  BY <4>2, <4>3, <3>1, <1>2, <1>10 DEF Procs
    <3>3. LeftIn(list)[q] = 1
      BY <3>1, <3>2, <1>2
    <3> QED  BY <3>3, <1>8
  <2> QED  BY <2>1, <2>2
<1>11. f = LeftIn(new)
  BY <1>4, <1>8, <1>9, <1>10, LeftIs
<1> QED  BY <1>4, <1>5, <1>7, <1>11 DEF f

-----------------------------------------------------------------------------
(* The steps. *)

\* Each timer in the list belongs to a process in do_sleep, and the tick that
\* expires it takes it out.
Inv ==
  /\ called \subseteq Sleeper /\ asleep \subseteq called
  /\ ListOK(timers) /\ Procs(timers) \subseteq called
  /\ failed = FALSE

\* The refinement mapping.
LEMMA LeftOfTimers == Left = LeftIn(timers)
BY DEF Left, LeftIn

\* The first timer of the list counts from now.
LEMMA HeadFacts ==
  ASSUME NEW list, ListOK(list), list # << >>
  PROVE  list \in Seq(Timer) /\ list[1].expires # 0
<1>1. list \in Seq(Timer) /\ 1 \in 1..Len(list)
  <2>1. list \in Seq(Timer) /\ Len(list) \in Nat
    BY LenProperties DEF ListOK
  <2> QED  BY <2>1, EmptySeq
<1>2. Due(list, 1) = Due(list, 1 - 1) + list[1].expires /\ Due(list, 0) = 0 /\ Due(list, 1) > 0
  BY <1>1, DueFacts DEF ListOK
<1>3. Due(list, 1) = list[1].expires
  <2>1. list[1] \in Timer
    BY <1>1, ElementOfSeq
  <2>2. list[1].expires \in Nat /\ 1 - 1 = 0
    BY <2>1 DEF Timer
  <2> QED  BY <2>2, <1>2
<1> QED  BY <1>1, <1>2, <1>3

\* The initial state maps to the initial state.
LEMMA InitLeft == Init => Inv /\ Abstract!Init
<1> SUFFICES ASSUME Init PROVE Inv /\ Abstract!Init
  OBVIOUS
<1>1. timers = << >> /\ << >> \in Seq(Timer) /\ Len(<< >>) = 0
  BY EmptySeq DEF Init
<1>2. 1..Len(timers) = {}
  BY <1>1
<1>3. ListOK(timers) /\ Procs(timers) = {}
  BY <1>1, <1>2 DEF ListOK, Procs
<1>4. Left = [p \in Sleeper |-> 0]
  <2>1. \A p \in Sleeper : LeftIn(timers)[p] = 0
    BY <1>3, LeftFacts
  <2>2. LeftIn(timers) = [p \in Sleeper |-> LeftIn(timers)[p]]
    BY <1>3, LeftFacts
  <2> QED  BY <2>1, <2>2, LeftOfTimers
<1> QED  BY <1>3, <1>4 DEF Init, Inv, Abstract!Init

\* A step keeps Inv and maps to a step of the same name, or to a stutter.
LEMMA StepLeft ==
  Inv /\ [Next]_vars => Inv' /\ [Abstract!Next]_(Abstract!vars)
<1> SUFFICES ASSUME Inv, [Next]_vars PROVE Inv' /\ [Abstract!Next]_(Abstract!vars)
  OBVIOUS
<1> USE DEF Inv
<1>0. Left = LeftIn(timers) /\ Left' = LeftIn(timers')
  BY LeftOfTimers DEF Left, LeftIn
<1>1. ASSUME NEW p \in Sleeper, Sleep(p)
      PROVE  Inv' /\ Abstract!Sleep(p)
  <2>1. PICK ticks \in 1..MaxTicks : timers' = AddTimer(timers, p, ticks)
    BY <1>1 DEF Sleep
  <2>2. ticks \in Nat /\ ticks > 0 /\ p \notin Procs(timers)
    BY <1>1, TimerAssumption DEF Sleep
  <2>3. /\ ListOK(timers') /\ Procs(timers') = Procs(timers) \cup {p}
        /\ LeftIn(timers') = [LeftIn(timers) EXCEPT ![p] = ticks]
    BY <2>1, <2>2, AddLeft
  <2>4. Inv'
    BY <2>3, <1>1 DEF Sleep, Procs, ListOK
  <2>5. Abstract!Sleep(p)
    BY <2>3, <1>0, <1>1 DEF Sleep, Abstract!Sleep
  <2> QED  BY <2>4, <2>5
<1>2. ASSUME NEW p \in Sleeper, Interrupt(p)
      PROVE  Inv' /\ Abstract!Interrupt(p)
  <2>1. timers' = timers
    BY <1>2 DEF Interrupt
  <2>2. Inv'
    BY <2>1, <1>2 DEF Interrupt, Procs, ListOK
  <2> QED  BY <2>1, <2>2, <1>0, <1>2 DEF Interrupt, Abstract!Interrupt
<1>3. ASSUME NEW p \in Sleeper, Return(p)
      PROVE  Inv' /\ Abstract!Return(p)
  <2>1. /\ ListOK(timers') /\ Procs(timers') = Procs(timers) \ {p}
        /\ LeftIn(timers') = [LeftIn(timers) EXCEPT ![p] = 0]
    BY <1>3, DeleteLeft DEF Return
  <2>2. Inv'
    BY <2>1, <1>3 DEF Return, Procs, ListOK
  <2>3. Abstract!Return(p)
    BY <2>1, <1>0, <1>3 DEF Return, Abstract!Return
  <2> QED  BY <2>2, <2>3
<1>4. ASSUME Tick
      PROVE  Inv' /\ Abstract!Tick
  <2>1. timers # << >> /\ timers \in Seq(Timer) /\ timers[1].expires # 0
    BY <1>4, HeadFacts DEF Tick
  <2> DEFINE dec == [timers EXCEPT ![1].expires = @ - 1]
             k == Expired(dec)
  <2>2. Decremented(dec, timers)
    BY DEF Decremented
  <2>3. /\ asleep' = asleep \ { dec[j].proc : j \in 1..k }
        /\ timers' = SubSeq(dec, k + 1, Len(dec))
        /\ failed' = failed /\ called' = called
    BY <1>4, <2>1 DEF Tick
  <2> HIDE DEF dec
  <2>4. Ticked(timers', timers, k)
    BY <2>1, <2>2, <2>3, TickFacts
  <2>5. { dec[j].proc : j \in 1..k } = { timers[j].proc : j \in 1..k }
    <3>1. k \in 0..Len(timers) /\ Len(timers) \in Nat
      BY <2>1, <2>4, LenProperties DEF Ticked
    <3>2. \A j \in 1..k : j \in 1..Len(timers)
      BY <3>1
    <3>3. \A j \in 1..k : dec[j].proc = timers[j].proc
      BY <3>2, <2>1, <2>2, DecrementFacts
    <3> QED  BY <3>3
  <2>6. /\ ListOK(timers') /\ Procs(timers') \subseteq Procs(timers)
        /\ { timers[j].proc : j \in 1..k } = { p \in Sleeper : LeftIn(timers)[p] = 1 }
        /\ LeftIn(timers') = [p \in Sleeper |-> IF LeftIn(timers)[p] = 0 THEN 0
                                                ELSE LeftIn(timers)[p] - 1]
    BY <2>4, TickLeft
  <2>7. Inv'
    BY <2>3, <2>6 DEF Procs, ListOK
  <2>8. Abstract!Tick
    <3> HIDE DEF k
    <3> QED  BY <2>3, <2>5, <2>6, <1>0 DEF Abstract!Tick
  <2> QED  BY <2>7, <2>8
<1>5. CASE UNCHANGED vars
  <2>1. timers' = timers /\ called' = called /\ asleep' = asleep /\ failed' = failed
    BY <1>5 DEF vars
  <2>2. Left' = Left
    BY <2>1, <1>0
  <2> QED  BY <2>1, <2>2 DEF Abstract!vars, ListOK, Procs
<1> QED  BY <1>1, <1>2, <1>3, <1>4, <1>5 DEF Next, Abstract!Next

(***************************************************************************)
(* At every moment do_sleep and the timer interrupt leave at most one      *)
(* timer per process in the list, of a process still in do_sleep, and none *)
(* that has expired.                                                       *)
(***************************************************************************)
THEOREM Invariance == Spec => []Inv
<1>1. Init => Inv
  BY InitLeft
<1>2. Inv /\ [Next]_vars => Inv'
  BY StepLeft
<1> QED  BY <1>1, <1>2, PTL DEF Spec

(***************************************************************************)
(* The assertion of run_timer_list that the first timer has not expired    *)
(* before holds at every tick, whatever the processes ask for and whenever *)
(* a kill ends their sleep.                                                *)
(***************************************************************************)
THEOREM NoTimerLeftBehind == Spec => []AssertHolds
<1>1. Inv => AssertHolds
  BY DEF Inv, AssertHolds
<1> QED  BY <1>1, Invariance, PTL

(***************************************************************************)
(* The list of relative times of sched.c implements timers of absolute     *)
(* ones: add_timer gives a process the ticks it asked for and changes no   *)
(* other's, del_timer takes them from one process only, and                *)
(* run_timer_list counts down for all and wakes exactly those whose time   *)
(* is over.                                                                *)
(***************************************************************************)
THEOREM TimersOfAbsoluteTime == Spec => ImplementsSleepTimers
<1>1. Init => Abstract!Init
  BY InitLeft
<1>2. Inv /\ [Next]_vars => [Abstract!Next]_(Abstract!vars)
  BY StepLeft
<1> QED  BY <1>1, <1>2, Invariance, PTL DEF Spec, ImplementsSleepTimers, Abstract!Spec

=============================================================================
