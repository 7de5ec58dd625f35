----------------------------- MODULE ForkProofs -----------------------------
(***************************************************************************)
(* Pids and frames, proved for any number of processes and frames: what    *)
(* get_pid searches for, and what the first-fit allocator keeps.           *)
(***************************************************************************)
EXTENDS Fork, FiniteSetTheorems, SequenceTheorems, TLAPS

-----------------------------------------------------------------------------
(* Induction, in the form of the least number of a set. *)

\* A set of natural numbers has a least one.
LEMMA NatLeast ==
  ASSUME NEW T \in SUBSET Nat, T # {}
  PROVE  \E n \in T : \A m \in T : n <= m
<1> DEFINE Below(k) == {j \in Nat : j < k}
           F == {Below(k) : k \in T}
<1>1. \A k \in Nat : Below(k) = 0..k - 1 /\ Below(k) \in FiniteSubsetsOf(Nat)
  <2>1. ASSUME NEW k \in Nat
        PROVE  Below(k) = 0..k - 1 /\ Below(k) \in FiniteSubsetsOf(Nat)
    <3>1. Below(k) = 0..k - 1
      OBVIOUS
    <3>2. IsFiniteSet(0..k - 1)
      BY FS_Interval
    <3> QED  BY <3>1, <3>2 DEF FiniteSubsetsOf
  <2> QED  BY <2>1
<1>2. F \subseteq FiniteSubsetsOf(Nat) /\ F # {}
  <2>1. ASSUME NEW x \in F
        PROVE  x \in FiniteSubsetsOf(Nat)
    <3>1. PICK k \in T : x = Below(k)
      OBVIOUS
    <3> HIDE DEF Below, F
    <3> QED  BY <3>1, <1>1
  <2>2. F # {}
    <3>1. PICK k \in T : TRUE
      OBVIOUS
    <3>2. Below(k) \in F
      BY <3>1
    <3> QED  BY <3>2
  <2> QED  BY <2>1, <2>2
<1> HIDE DEF F
<1>3. PICK x \in F : \A y \in F : ~(<<y, x>> \in StrictSubsetOrdering(Nat))
  BY <1>2, FS_StrictSubsetOrderingWellFounded, WFMin
<1> USE DEF F
<1>4. PICK n \in T : x = Below(n)
  OBVIOUS
<1>5. ASSUME NEW m \in T, m < n
      PROVE  FALSE
  <2>1. Below(m) \in F /\ Below(m) \subseteq Nat /\ Below(n) \subseteq Nat
    OBVIOUS
  <2>2. Below(m) \subseteq Below(n) /\ m \in Below(n) /\ m \notin Below(m)
    BY <1>5
  <2>3. <<Below(m), Below(n)>> \in StrictSubsetOrdering(Nat)
    BY <2>1, <2>2 DEF StrictSubsetOrdering
  <2> QED  BY <2>1, <2>3, <1>3, <1>4
<1> QED  BY <1>4, <1>5

-----------------------------------------------------------------------------
(* Sequences. *)

\* r is the sequence s over S without the n elements from the k-th on, or with
\* the elements of m before the k-th.
WithoutRun(r, S, s, k, n) ==
  /\ r \in Seq(S) /\ Len(r) = Len(s) - n
  /\ \A j \in 1..Len(s) - n : r[j] = IF j < k THEN s[j] ELSE s[j + n]

WithRun(r, S, s, k, m) ==
  /\ r \in Seq(S) /\ Len(r) = Len(s) + Len(m)
  /\ \A j \in 1..Len(s) + Len(m) :
       r[j] = IF j < k THEN s[j] ELSE IF j < k + Len(m) THEN m[j - k + 1] ELSE s[j - Len(m)]

\* The two parts of a sequence cut before its k-th element.
LEMMA SubSeqFacts ==
  ASSUME NEW S, NEW s \in Seq(S), NEW k \in 1..Len(s) + 1
  PROVE  /\ SubSeq(s, 1, k - 1) \in Seq(S) /\ Len(SubSeq(s, 1, k - 1)) = k - 1
         /\ \A j \in 1..k - 1 : SubSeq(s, 1, k - 1)[j] = s[j]
         /\ SubSeq(s, k, Len(s)) \in Seq(S) /\ Len(SubSeq(s, k, Len(s))) = Len(s) - k + 1
         /\ \A j \in 1..Len(s) - k + 1 : SubSeq(s, k, Len(s))[j] = s[k + j - 1]
<1>1. Len(s) \in Nat /\ \A j \in 1..Len(s) : s[j] \in S
  BY LenProperties, ElementOfSeq
<1> DEFINE a == SubSeq(s, 1, k - 1)
           b == SubSeq(s, k, Len(s))
<1>2. /\ a \in Seq(S) /\ Len(a) = k - 1
      /\ \A j \in 1..k - 1 : a[j] = s[j]
  <2>1. k - 1 \in 0..Len(s) /\ \A j \in 1..k - 1 : s[j] \in S
    BY <1>1
  <2>2. /\ a \in Seq(S)
        /\ Len(a) = IF 1 <= k - 1 THEN (k - 1) - 1 + 1 ELSE 0
        /\ \A j \in 1..(k - 1) - 1 + 1 : a[j] = s[1 + j - 1]
    BY <1>1, <2>1, SubSeqProperties
  <2> QED  BY <1>1, <2>1, <2>2
<1>3. /\ b \in Seq(S) /\ Len(b) = Len(s) - k + 1
      /\ \A j \in 1..Len(s) - k + 1 : b[j] = s[k + j - 1]
  <2>1. k \in Int /\ Len(s) \in Int /\ \A j \in k..Len(s) : s[j] \in S
    BY <1>1
  <2>2. /\ b \in Seq(S)
        /\ Len(b) = IF k <= Len(s) THEN Len(s) - k + 1 ELSE 0
        /\ \A j \in 1..Len(s) - k + 1 : b[j] = s[k + j - 1]
    BY <2>1, SubSeqProperties
  <2> QED  BY <1>1, <2>2
<1> QED  BY <1>2, <1>3

\* A run of n elements taken out: what default_alloc_pages and list_del do.
LEMMA CutFacts ==
  ASSUME NEW S, NEW s \in Seq(S), NEW k \in 1..Len(s) + 1, NEW n \in Nat, k + n <= Len(s) + 1
  PROVE  WithoutRun(SubSeq(s, 1, k - 1) \o SubSeq(s, k + n, Len(s)), S, s, k, n)
<1> DEFINE a == SubSeq(s, 1, k - 1)
           b == SubSeq(s, k + n, Len(s))
           r == a \o b
<1>1. Len(s) \in Nat
  BY LenProperties
<1>2. /\ a \in Seq(S) /\ Len(a) = k - 1 /\ \A j \in 1..k - 1 : a[j] = s[j]
  BY SubSeqFacts
<1>3. /\ b \in Seq(S) /\ Len(b) = Len(s) - (k + n) + 1
      /\ \A j \in 1..Len(s) - (k + n) + 1 : b[j] = s[(k + n) + j - 1]
  <2>1. PICK h \in 1..Len(s) + 1 : h = k + n
    BY <1>1
  <2>2. /\ SubSeq(s, h, Len(s)) \in Seq(S) /\ Len(SubSeq(s, h, Len(s))) = Len(s) - h + 1
        /\ \A j \in 1..Len(s) - h + 1 : SubSeq(s, h, Len(s))[j] = s[h + j - 1]
    BY SubSeqFacts
  <2> QED  BY <2>1, <2>2
<1> HIDE DEF a, b
<1>4. /\ r \in Seq(S) /\ Len(r) = Len(a) + Len(b)
      /\ \A j \in 1..Len(a) + Len(b) : r[j] = IF j <= Len(a) THEN a[j] ELSE b[j - Len(a)]
  BY <1>2, <1>3, ConcatProperties
<1> HIDE DEF r
<1>5. Len(r) = Len(s) - n
  BY <1>1, <1>2, <1>3, <1>4
<1>6. ASSUME NEW j \in 1..Len(s) - n
      PROVE  r[j] = IF j < k THEN s[j] ELSE s[j + n]
  <2>1. j \in Int /\ k \in Int /\ j >= 1
    BY <1>1
  <2>2. r[j] = IF j <= k - 1 THEN a[j] ELSE b[j - (k - 1)]
    <3>1. j \in 1..Len(a) + Len(b)
      BY <1>1, <1>2, <1>3
    <3> QED  BY <3>1, <1>2, <1>4
  <2>3. CASE j < k
    <3>1. j \in 1..k - 1 /\ j <= k - 1
      BY <2>1, <2>3
    <3> QED  BY <3>1, <2>2, <2>3, <1>2
  <2>4. CASE j >= k
    <3>1. /\ j - (k - 1) \in 1..Len(s) - (k + n) + 1 /\ (k + n) + (j - (k - 1)) - 1 = j + n
          /\ ~(j <= k - 1) /\ ~(j < k)
      BY <2>1, <2>4, <1>1
    <3>2. b[j - (k - 1)] = s[j + n]
      BY <3>1, <1>3
    <3> QED  BY <3>1, <3>2, <2>2
  <2> QED  BY <2>1, <2>3, <2>4
<1> QED  BY <1>4, <1>5, <1>6 DEF WithoutRun, r, a, b

\* A run put in before the k-th element: what default_free_pages does.
LEMMA SpliceFacts ==
  ASSUME NEW S, NEW s \in Seq(S), NEW k \in 1..Len(s) + 1, NEW m \in Seq(S)
  PROVE  WithRun(SubSeq(s, 1, k - 1) \o m \o SubSeq(s, k, Len(s)), S, s, k, m)
<1> DEFINE a == SubSeq(s, 1, k - 1)
           b == SubSeq(s, k, Len(s))
<1>1. Len(s) \in Nat /\ Len(m) \in Nat
  BY LenProperties
<1>2. a \in Seq(S) /\ Len(a) = k - 1 /\ \A j \in 1..k - 1 : a[j] = s[j]
  BY SubSeqFacts
<1>3. /\ b \in Seq(S) /\ Len(b) = Len(s) - k + 1
      /\ \A j \in 1..Len(s) - k + 1 : b[j] = s[k + j - 1]
  BY SubSeqFacts
<1> HIDE DEF a, b
<1> DEFINE c == a \o m
<1>4. /\ c \in Seq(S) /\ Len(c) = Len(a) + Len(m)
      /\ \A j \in 1..Len(a) + Len(m) : c[j] = IF j <= Len(a) THEN a[j] ELSE m[j - Len(a)]
  BY <1>2, ConcatProperties
<1> HIDE DEF c
<1> DEFINE r == c \o b
<1>5. /\ r \in Seq(S) /\ Len(r) = Len(c) + Len(b)
      /\ \A j \in 1..Len(c) + Len(b) : r[j] = IF j <= Len(c) THEN c[j] ELSE b[j - Len(c)]
  <2>1. c \in Seq(S) /\ b \in Seq(S)
    BY <1>3, <1>4
  <2> QED  BY ONLY <2>1, ConcatProperties
<1> HIDE DEF r
<1>6. PICK n \in Nat : n = Len(m)
  BY <1>1
<1>7. Len(r) = Len(s) + n /\ Len(c) = k - 1 + n
  BY <1>1, <1>2, <1>3, <1>4, <1>5, <1>6
<1>8. ASSUME NEW j \in 1..Len(s) + n
      PROVE  r[j] = IF j < k THEN s[j] ELSE IF j < k + n THEN m[j - k + 1] ELSE s[j - n]
  <2>1. j \in Int /\ k \in Int /\ j >= 1
    BY <1>1
  <2>2. r[j] = IF j <= k - 1 + n THEN c[j] ELSE b[j - (k - 1 + n)]
    <3>1. j \in 1..Len(c) + Len(b)
      BY <1>1, <1>3, <1>7
    <3> QED  BY <3>1, <1>5, <1>7
  <2>3. CASE j < k
    <3>1. j \in 1..k - 1 /\ j <= k - 1 /\ j <= k - 1 + n /\ j \in 1..Len(a) + Len(m)
      BY <2>1, <2>3, <1>2, <1>6
    <3>2. c[j] = a[j]
      BY <3>1, <1>2, <1>4
    <3> QED  BY <3>1, <3>2, <2>2, <2>3, <1>2
  <2>4. CASE j >= k /\ j < k + n
    <3>1. /\ ~(j <= k - 1) /\ j <= k - 1 + n /\ j \in 1..Len(a) + Len(m) /\ ~(j < k)
          /\ j - (k - 1) = j - k + 1
      BY <2>1, <2>4, <1>2, <1>6
    <3>2. c[j] = m[j - (k - 1)]
      BY <3>1, <1>2, <1>4
    <3> QED  BY <3>1, <3>2, <2>2, <2>4
  <2>5. CASE j >= k + n
    <3>1. /\ ~(j <= k - 1 + n) /\ ~(j < k) /\ ~(j < k + n)
          /\ j - (k - 1 + n) \in 1..Len(s) - k + 1 /\ k + (j - (k - 1 + n)) - 1 = j - n
      BY <2>1, <2>5, <1>1
    <3>2. b[j - (k - 1 + n)] = s[j - n]
      BY <3>1, <1>3
    <3> QED  BY <3>1, <3>2, <2>2
  <2> QED  BY <2>1, <2>3, <2>4, <2>5
<1> QED  BY <1>5, <1>6, <1>7, <1>8 DEF WithRun, r, c, a, b

-----------------------------------------------------------------------------
(* get_pid. *)

PidOf(i) == pid[proc_list[i]]

\* What the search for a pid needs to know about the list of processes.
ListShape ==
  /\ Len(proc_list) \in Nat
  /\ \A i \in 1..Len(proc_list) : PidOf(i) \in Nat

IsUnused(f) == f \in 1..MAX_PID - 1 /\ \A i \in 1..Len(proc_list) : PidOf(i) # f

\* There are more pids than processes.
LEMMA UnusedPid ==
  ASSUME ListShape, NrProcess < MAX_PROCESS
  PROVE  \E f : IsUnused(f)
<1> SUFFICES ASSUME \A f \in 1..MAX_PID - 1 : \E i \in 1..Len(proc_list) : PidOf(i) = f
             PROVE  FALSE
  BY DEF IsUnused
<1> DEFINE S == 1..MAX_PID - 1
           T == 1..Len(proc_list)
           g == [f \in S |-> CHOOSE i \in T : PidOf(i) = f]
<1>1. g \in [S -> T] /\ \A f \in S : PidOf(g[f]) = f
  OBVIOUS
<1>2. MAX_PID - 1 \in Nat /\ Len(proc_list) \in Nat /\ Len(proc_list) < MAX_PID - 1
  BY ForkAssumption DEF ListShape, NrProcess
<1>3. IsFiniteSet(S) /\ IsFiniteSet(T) /\ Cardinality(T) < Cardinality(S)
  <2>1. \A n \in Nat : IsFiniteSet(1..n) /\ Cardinality(1..n) = n
    BY FS_Interval
  <2>2. IsFiniteSet(S) /\ Cardinality(S) = MAX_PID - 1
    BY <1>2, <2>1
  <2>3. IsFiniteSet(T) /\ Cardinality(T) = Len(proc_list)
    BY <1>2, <2>1
  <2> QED  BY <1>2, <2>2, <2>3
<1> HIDE DEF g, S, T
<1>4. PICK x, y \in S : x # y /\ g[x] = g[y]
  BY <1>1, <1>3, FS_PigeonHole
<1> QED  BY <1>1, <1>4

\* How far get_pid has to count from pid l to pid f.
Distance(f, l) == IF l <= f THEN f - l ELSE MAX_PID + f - l

PassState == [last : 1..MAX_PID - 1, next : 1..MAX_PID, again : BOOLEAN]

\* One process of the pass: the gap narrows, or the search comes nearer to f.
LEMMA VisitFacts ==
  ASSUME NEW f \in 1..MAX_PID - 1, NEW q \in Nat, q # f,
         NEW s \in PassState, ~s.again => s.last < s.next,
         NEW t, t = Visit(s, q)
  PROVE  /\ t \in PassState
         /\ s.again => t = s
         /\ ~s.again /\ t.again => Distance(f, t.last) < Distance(f, s.last)
         /\ ~t.again => /\ s.last <= t.last /\ t.last < t.next /\ t.next <= s.next
                        /\ Distance(f, t.last) <= Distance(f, s.last)
                        /\ q < t.last \/ q >= t.next
<1>1. MAX_PID \in Nat
  BY ForkAssumption
<1>2. PICK l \in 1..MAX_PID - 1, n \in 1..MAX_PID, g \in BOOLEAN :
             s = [last |-> l, next |-> n, again |-> g]
  BY DEF PassState
<1>3. CASE g
  BY <1>2, <1>3 DEF Visit
<1>4. CASE ~g /\ q = l /\ l + 1 >= n
  <2> DEFINE k == IF l + 1 >= MAX_PID THEN 1 ELSE l + 1
  <2>1. t = [last |-> k, next |-> MAX_PID, again |-> TRUE]
    BY <1>2, <1>4 DEF Visit, Again
  <2>2. k \in 1..MAX_PID - 1 /\ Distance(f, k) < Distance(f, l)
    BY <1>1, <1>4 DEF Distance
  <2>3. t \in PassState
    BY <1>1, <2>1, <2>2 DEF PassState
  <2> QED  BY <1>2, <1>4, <2>1, <2>2, <2>3
<1>5. CASE ~g /\ q = l /\ ~(l + 1 >= n)
  <2>1. t = [last |-> l + 1, next |-> n, again |-> FALSE]
    BY <1>2, <1>5 DEF Visit
  <2>2. l + 1 \in 1..MAX_PID - 1 /\ l + 1 < n /\ Distance(f, l + 1) <= Distance(f, l)
    BY <1>1, <1>5 DEF Distance
  <2>3. t \in PassState /\ t.last = l + 1 /\ t.next = n /\ ~t.again
    BY <1>1, <2>1, <2>2 DEF PassState
  <2>4. s.last = l /\ s.next = n /\ l <= l + 1 /\ n <= n /\ q < l + 1
    BY <1>1, <1>2, <1>5
  <2> QED  BY <2>2, <2>3, <2>4, <1>2, <1>5
<1>6. CASE ~g /\ q # l /\ q > l /\ n > q
  <2>1. t = [last |-> l, next |-> q, again |-> FALSE]
    BY <1>2, <1>6 DEF Visit
  <2>2. q \in 1..MAX_PID /\ Distance(f, l) <= Distance(f, l)
    BY <1>1, <1>6 DEF Distance
  <2>3. t \in PassState /\ t.last = l /\ t.next = q /\ ~t.again
    BY <1>1, <2>1, <2>2 DEF PassState
  <2>4. s.last = l /\ s.next = n /\ l <= l /\ l < q /\ q <= n /\ q >= q
    BY <1>1, <1>2, <1>6
  <2> QED  BY <2>2, <2>3, <2>4, <1>2, <1>6
<1>7. CASE ~g /\ q # l /\ ~(q > l /\ n > q)
  <2>1. t = s
    BY <1>2, <1>7 DEF Visit
  <2>2. Distance(f, l) <= Distance(f, l)
    BY <1>1 DEF Distance
  <2> QED  BY <1>1, <1>2, <1>7, <2>1, <2>2
<1> QED  BY <1>3, <1>4, <1>5, <1>6, <1>7

\* v is the run of a pass over proc_list that starts with l.
Visits(v, l, n) ==
  v = [i \in 0..n |-> IF i = 0 THEN [last |-> l, next |-> MAX_PID, again |-> FALSE]
                      ELSE Visit(v[i - 1], pid[proc_list[i]])]

\* The recursive function of Pass exists.
LEMMA PassRuns ==
  ASSUME NEW l, NEW n \in Nat
  PROVE  \E v : Visits(v, l, n)
<1> DEFINE T == {m \in Nat : ~\E v : Visits(v, l, m)}
<1> SUFFICES ASSUME T # {} PROVE FALSE
  OBVIOUS
<1>1. PICK m \in T : \A i \in T : m <= i
  BY NatLeast
<1>2. m # 0
  <2>1. Visits([i \in 0..0 |-> [last |-> l, next |-> MAX_PID, again |-> FALSE]], l, 0)
    BY DEF Visits
  <2> QED  BY <2>1
<1>3. m - 1 \in Nat /\ m - 1 \notin T
  BY <1>1, <1>2
<1>4. PICK v : Visits(v, l, m - 1)
  BY <1>3
<1> DEFINE w == [i \in 0..m |-> IF i = 0 THEN [last |-> l, next |-> MAX_PID, again |-> FALSE]
                                ELSE Visit(v[i - 1], pid[proc_list[i]])]
<1>5. \A i \in 0..m - 1 : w[i] = v[i]
  <2>1. \A i \in 0..m - 1 :
          v[i] = IF i = 0 THEN [last |-> l, next |-> MAX_PID, again |-> FALSE]
                 ELSE Visit(v[i - 1], pid[proc_list[i]])
    BY <1>4 DEF Visits
  <2>2. \A i \in 0..m - 1 : i \in 0..m
    BY <1>3
  <2> QED  BY <2>1, <2>2
<1>6. \A i \in 0..m : i # 0 => i - 1 \in 0..m - 1
  BY <1>3
<1>7. \A i \in 0..m : i # 0 => w[i - 1] = v[i - 1]
  BY <1>5, <1>6
<1>8. Visits(w, l, m)
  BY <1>7 DEF Visits
<1> QED  BY <1>8, <1>1

\* A pass finds the gap it looks for, or gets closer to one.
LEMMA PassFacts ==
  ASSUME ListShape, NEW f, IsUnused(f), NEW l \in 1..MAX_PID - 1
  PROVE  /\ Pass(l) \in PassState
         /\ Pass(l).again => Distance(f, Pass(l).last) < Distance(f, l)
         /\ ~Pass(l).again =>
              /\ Pass(l).last < Pass(l).next
              /\ \A i \in 1..Len(proc_list) : PidOf(i) < Pass(l).last \/ PidOf(i) >= Pass(l).next
<1>1. MAX_PID \in Nat /\ f \in 1..MAX_PID - 1 /\ Len(proc_list) \in Nat
  BY ForkAssumption DEF ListShape, IsUnused
<1> DEFINE v == CHOOSE u : Visits(u, l, Len(proc_list))
<1>2. Pass(l) = v[Len(proc_list)]
  BY DEF Pass, Visits
<1>3. Visits(v, l, Len(proc_list))
  <2>1. \E u : Visits(u, l, Len(proc_list))
    BY <1>1, PassRuns
  <2> QED  BY <2>1
<1> HIDE DEF v
<1>4. /\ v[0] = [last |-> l, next |-> MAX_PID, again |-> FALSE]
      /\ \A i \in 1..Len(proc_list) : v[i] = Visit(v[i - 1], PidOf(i))
  <2>1. \A i \in 0..Len(proc_list) :
          v[i] = IF i = 0 THEN [last |-> l, next |-> MAX_PID, again |-> FALSE]
                 ELSE Visit(v[i - 1], pid[proc_list[i]])
    BY <1>3 DEF Visits
  <2>2. 0 \in 0..Len(proc_list) /\ \A i \in 1..Len(proc_list) : i \in 0..Len(proc_list) /\ i # 0
    BY <1>1
  <2> QED  BY <2>1, <2>2 DEF PidOf
<1> DEFINE Good(i) ==
             /\ v[i] \in PassState
             /\ v[i].again => Distance(f, v[i].last) < Distance(f, l)
             /\ ~v[i].again =>
                  /\ v[i].last < v[i].next
                  /\ Distance(f, v[i].last) <= Distance(f, l)
                  /\ \A j \in 1..i : PidOf(j) < v[i].last \/ PidOf(j) >= v[i].next
           T == {i \in Nat : i <= Len(proc_list) /\ ~Good(i)}
<1>5. Good(0)
  <2>1. Distance(f, l) <= Distance(f, l)
    BY <1>1 DEF Distance
  <2> QED  BY <1>1, <1>4, <2>1 DEF PassState
<1>6. T = {}
  <2> SUFFICES ASSUME T # {} PROVE FALSE
    OBVIOUS
  <2>1. PICK i \in T : \A j \in T : i <= j
    BY NatLeast
  <2>2. i # 0
    BY <1>5, <2>1
  <2>3. i \in 1..Len(proc_list) /\ i - 1 \in Nat /\ i - 1 \notin T
    BY <1>1, <2>1, <2>2
  <2>4. Good(i - 1)
    BY <1>1, <2>3
  <2>5. PICK s \in PassState : s = v[i - 1]
    BY <2>4
  <2>6. PICK q \in Nat : q = PidOf(i) /\ q # f
    BY <2>3 DEF ListShape, IsUnused
  <2>7. /\ v[i] \in PassState
        /\ s.again => v[i] = s
        /\ ~s.again /\ v[i].again => Distance(f, v[i].last) < Distance(f, s.last)
        /\ ~v[i].again => /\ s.last <= v[i].last /\ v[i].last < v[i].next /\ v[i].next <= s.next
                          /\ Distance(f, v[i].last) <= Distance(f, s.last)
                          /\ q < v[i].last \/ q >= v[i].next
    <3>1. v[i] = Visit(s, q) /\ (~s.again => s.last < s.next)
      BY <1>4, <2>3, <2>4, <2>5, <2>6
    <3> QED  BY <3>1, <2>6, <1>1, VisitFacts
  <2>8. PICK t \in PassState : t = v[i]
    BY <2>7
  <2>9. /\ s.last \in 1..MAX_PID - 1 /\ t.last \in 1..MAX_PID - 1
        /\ s.next \in 1..MAX_PID /\ t.next \in 1..MAX_PID
    BY DEF PassState
  <2>10. /\ Distance(f, s.last) \in Int /\ Distance(f, t.last) \in Int
         /\ Distance(f, l) \in Int
    <3>1. \A k \in 1..MAX_PID - 1 : Distance(f, k) \in Int
      BY <1>1 DEF Distance
    <3> QED  BY <2>9, <3>1
  <2>11. \A j \in 1..i : j # i => j \in 1..i - 1
    BY <2>3
  <2>12. \A j \in 1..i : PidOf(j) \in Nat
    BY <2>3, <1>1 DEF ListShape
  <2>13. CASE s.again
    <3>1. t = s
      BY <2>7, <2>8, <2>13
    <3> QED  BY <2>1, <2>4, <2>5, <2>8, <2>13, <3>1
  <2>14. CASE ~s.again /\ t.again
    <3>1. Distance(f, t.last) < Distance(f, s.last) /\ Distance(f, s.last) <= Distance(f, l)
      BY <2>4, <2>5, <2>7, <2>8, <2>14
    <3>2. Distance(f, t.last) < Distance(f, l)
      BY <2>10, <3>1
    <3> QED  BY <2>1, <2>8, <2>14, <3>2
  <2>15. CASE ~s.again /\ ~t.again
    <3>1. /\ s.last <= t.last /\ t.last < t.next /\ t.next <= s.next
          /\ Distance(f, t.last) <= Distance(f, s.last)
          /\ q < t.last \/ q >= t.next
      BY <2>7, <2>8, <2>15
    <3>2. Distance(f, s.last) <= Distance(f, l)
      BY <2>4, <2>5, <2>15
    <3>3. Distance(f, t.last) <= Distance(f, l)
      BY <2>10, <3>1, <3>2
    <3>4. ASSUME NEW j \in 1..i
          PROVE  PidOf(j) < t.last \/ PidOf(j) >= t.next
      <4>1. CASE j = i
        BY <4>1, <3>1, <2>6
      <4>2. CASE j # i
        <5>1. PidOf(j) < s.last \/ PidOf(j) >= s.next
          BY <4>2, <2>4, <2>5, <2>11, <2>15
        <5>2. PICK r \in Nat : r = PidOf(j)
          BY <2>12
        <5> QED  BY <5>1, <5>2, <3>1, <2>9
      <4> QED  BY <4>1, <4>2
    <3> QED  BY <2>1, <2>8, <2>15, <3>1, <3>3, <3>4
  <2> QED  BY <2>8, <2>13, <2>14, <2>15
<1>7. Good(Len(proc_list))
  BY <1>1, <1>6
<1> QED  BY <1>2, <1>7

\* s is a pid and a bound between which no process has a pid.
Gap(s) ==
  /\ s.last \in 1..MAX_PID - 1 /\ s.next \in 1..MAX_PID /\ s.last < s.next
  /\ \A i \in 1..Len(proc_list) : PidOf(i) < s.last \/ PidOf(i) >= s.next

\* g is the search from the pids that are less than n away from f.
Near(f, n) == {l \in 1..MAX_PID - 1 : Distance(f, l) < n}

Searches(g, D) ==
  g = [l \in D |-> LET s == Pass(l) IN IF s.again THEN g[s.last] ELSE s]

\* The recursive function of get_pid exists.
LEMMA SearchRuns ==
  ASSUME ListShape, NEW f, IsUnused(f), NEW n \in Nat
  PROVE  \E g : Searches(g, Near(f, n))
<1>1. MAX_PID \in Nat /\ f \in 1..MAX_PID - 1
  BY ForkAssumption DEF IsUnused
<1> DEFINE T == {m \in Nat : ~\E g : Searches(g, Near(f, m))}
<1> SUFFICES ASSUME T # {} PROVE FALSE
  OBVIOUS
<1>2. PICK m \in T : \A i \in T : m <= i
  BY NatLeast
<1>3. m # 0
  <2>1. Near(f, 0) = {}
    BY <1>1 DEF Near, Distance
  <2>2. Searches([l \in {} |-> 0], {})
    BY DEF Searches
  <2> QED  BY <1>2, <2>1, <2>2
<1>4. m - 1 \in Nat /\ m - 1 \notin T
  BY <1>2, <1>3
<1>5. PICK g : Searches(g, Near(f, m - 1))
  BY <1>4
<1> DEFINE h == [l \in Near(f, m) |-> LET s == Pass(l) IN IF s.again THEN g[s.last] ELSE s]
<1>6. \A l \in Near(f, m - 1) : l \in Near(f, m) /\ h[l] = g[l]
  <2>1. \A l \in Near(f, m - 1) : l \in Near(f, m)
    BY <1>1, <1>4 DEF Near, Distance
  <2> QED  BY <2>1, <1>5 DEF Searches
<1>7. ASSUME NEW l \in Near(f, m), Pass(l).again
      PROVE  Pass(l).last \in Near(f, m - 1)
  <2>1. l \in 1..MAX_PID - 1 /\ Distance(f, l) < m
    BY DEF Near
  <2>2. Pass(l).last \in 1..MAX_PID - 1 /\ Distance(f, Pass(l).last) < Distance(f, l)
    BY <1>7, <2>1, PassFacts DEF PassState
  <2>3. PICK k \in 1..MAX_PID - 1 : k = Pass(l).last
    BY <2>2
  <2>4. Distance(f, k) < m - 1
    BY <1>1, <1>4, <2>1, <2>2, <2>3 DEF Distance
  <2> QED  BY <2>3, <2>4 DEF Near
<1>8. \A l \in Near(f, m) : h[l] = LET s == Pass(l) IN IF s.again THEN h[s.last] ELSE s
  BY <1>6, <1>7
<1>9. Searches(h, Near(f, m))
  BY <1>8 DEF Searches
<1> QED  BY <1>2, <1>9

\* The search ends, and with a pid that is not in use.
LEMMA SearchFacts ==
  ASSUME ListShape, NEW f, IsUnused(f)
  PROVE  \A l \in 1..MAX_PID - 1 : Gap(Search[l])
<1>1. MAX_PID \in Nat /\ f \in 1..MAX_PID - 1
  BY ForkAssumption DEF IsUnused
<1> DEFINE D == 1..MAX_PID - 1
<1>2. Near(f, MAX_PID + MAX_PID) = D
  BY <1>1 DEF Near, Distance
<1>3. Searches(Search, D)
  <2>1. \E g : Searches(g, D)
    <3>1. MAX_PID + MAX_PID \in Nat
      BY <1>1
    <3> QED  BY <1>2, <3>1, SearchRuns
  <2>2. Search = CHOOSE g : Searches(g, D)
    BY DEF Search, Searches
  <2> QED  BY <2>1, <2>2
<1>4. \A l \in D : Search[l] = IF Pass(l).again THEN Search[Pass(l).last] ELSE Pass(l)
  BY <1>3 DEF Searches
<1> DEFINE T == {n \in Nat : \E l \in D : Distance(f, l) = n /\ ~Gap(Search[l])}
<1>5. T = {}
  <2> SUFFICES ASSUME T # {} PROVE FALSE
    OBVIOUS
  <2>1. PICK n \in T : \A i \in T : n <= i
    BY NatLeast
  <2>2. PICK l \in D : Distance(f, l) = n /\ ~Gap(Search[l])
    BY <2>1
  <2>3. CASE ~Pass(l).again
    <3>1. Gap(Pass(l))
      BY <2>3, PassFacts DEF Gap, PassState
    <3> QED  BY <2>2, <2>3, <3>1, <1>4
  <2>4. CASE Pass(l).again
    <3>1. Pass(l).last \in D /\ Distance(f, Pass(l).last) < Distance(f, l)
      BY <2>4, PassFacts DEF PassState
    <3>2. PICK k \in D : k = Pass(l).last
      BY <3>1
    <3>3. Distance(f, k) \in Nat /\ Distance(f, k) < n
      BY <1>1, <2>2, <3>1, <3>2 DEF Distance
    <3>4. Distance(f, k) \notin T
      BY <2>1, <3>3
    <3>5. Gap(Search[k])
      BY <3>3, <3>4
    <3> QED  BY <2>2, <2>4, <3>2, <3>5, <1>4
  <2> QED  BY <2>3, <2>4
<1>6. \A l \in D : Distance(f, l) \in Nat
  BY <1>1 DEF Distance
<1> QED  BY <1>5, <1>6

\* What get_pid relies on: last_pid and next_safe have no pid between them.
PidInv ==
  /\ proc_list \in Seq(Proc \cup {initproc})
  /\ \A i, j \in 1..Len(proc_list) : proc_list[i] = proc_list[j] => i = j
  /\ zombies \subseteq Used \ {initproc}
  /\ pid \in [Proc \cup {initproc} -> Nat]
  /\ \A p, q \in Used : p # q => pid[p] # pid[q]
  /\ \A p \in Used : pid[p] \in 1..MAX_PID - 1
  /\ last_pid \in 1..MAX_PID - 1 /\ next_safe \in 1..MAX_PID
  /\ \A p \in Used : pid[p] <= last_pid \/ pid[p] >= next_safe

\* The processes are the elements of proc_list.
LEMMA UsedFacts ==
  ASSUME PidInv
  PROVE  /\ Len(proc_list) \in Nat /\ ListShape
         /\ Used = {proc_list[i] : i \in 1..Len(proc_list)}
         /\ Used \subseteq Proc \cup {initproc}
<1>1. Len(proc_list) \in Nat /\ DOMAIN proc_list = 1..Len(proc_list)
  BY LenProperties DEF PidInv
<1>2. Used = {proc_list[i] : i \in 1..Len(proc_list)}
  BY <1>1 DEF Used, Range
<1>3. \A i \in 1..Len(proc_list) : proc_list[i] \in Proc \cup {initproc}
  BY ElementOfSeq DEF PidInv
<1> QED  BY <1>1, <1>2, <1>3 DEF PidInv, ListShape, PidOf

\* get_pid returns a pid that no process has.
LEMMA GetPidFacts ==
  ASSUME PidInv, NrProcess < MAX_PROCESS
  PROVE  Gap(GetPid)
<1>1. /\ MAX_PID \in Nat /\ last_pid \in 1..MAX_PID - 1 /\ next_safe \in 1..MAX_PID
      /\ ListShape
  BY ForkAssumption, UsedFacts DEF PidInv
<1>2. PICK f : IsUnused(f)
  BY <1>1, UnusedPid
<1>3. \A l \in 1..MAX_PID - 1 : Gap(Search[l])
  BY <1>1, <1>2, SearchFacts
<1>4. CASE last_pid + 1 >= MAX_PID
  <2>1. GetPid = Search[1] /\ 1 \in 1..MAX_PID - 1
    BY <1>1, <1>4 DEF GetPid
  <2> QED  BY <2>1, <1>3
<1>5. CASE ~(last_pid + 1 >= MAX_PID) /\ last_pid + 1 >= next_safe
  <2>1. GetPid = Search[last_pid + 1] /\ last_pid + 1 \in 1..MAX_PID - 1
    BY <1>1, <1>5 DEF GetPid
  <2> QED  BY <2>1, <1>3
<1>6. CASE ~(last_pid + 1 >= MAX_PID) /\ ~(last_pid + 1 >= next_safe)
  <2>1. GetPid = [last |-> last_pid + 1, next |-> next_safe]
    BY <1>6 DEF GetPid
  <2>2. GetPid.last = last_pid + 1 /\ GetPid.next = next_safe
    BY <2>1
  <2>3. last_pid + 1 \in 1..MAX_PID - 1 /\ last_pid + 1 < next_safe
    BY <1>1, <1>6
  <2>4. ASSUME NEW i \in 1..Len(proc_list)
        PROVE  PidOf(i) < last_pid + 1 \/ PidOf(i) >= next_safe
    <3>1. proc_list[i] \in Used
      BY UsedFacts
    <3>2. /\ pid[proc_list[i]] <= last_pid \/ pid[proc_list[i]] >= next_safe
          /\ pid[proc_list[i]] \in 1..MAX_PID - 1
      BY <3>1 DEF PidInv
    <3> QED  BY <3>2, <1>1 DEF PidOf
  <2> QED  BY <1>1, <2>2, <2>3, <2>4 DEF Gap
<1> QED  BY <1>4, <1>5, <1>6

\* init alone has pid 1, and nothing is known above it but MAX_PID.
LEMMA PidsInit == Init => PidInv
<1> SUFFICES ASSUME Init PROVE PidInv
  OBVIOUS
<1>1. proc_list = <<initproc>> /\ Len(proc_list) = 1 /\ proc_list[1] = initproc
  BY DEF Init
<1>2. proc_list \in Seq(Proc \cup {initproc}) /\ DOMAIN proc_list = {1} /\ Used = {initproc}
  BY <1>1 DEF Used, Range
<1>3. 1 \in 1..MAX_PID - 1 /\ MAX_PID \in 1..MAX_PID
  BY ForkAssumption
<1>4. pid \in [Proc \cup {initproc} -> Nat] /\ pid[initproc] = 1
  BY DEF Init
<1> QED  BY <1>1, <1>2, <1>3, <1>4 DEF Init, PidInv

\* A fork takes the pid that get_pid found.
LEMMA PidsFork ==
  ASSUME PidInv, NEW p, NEW c \in Proc, Fork(p, c)
  PROVE  PidInv' /\ Used' = Used \cup {c}
<1>1. /\ NrProcess < MAX_PROCESS /\ c \notin Used
      /\ pid' = [pid EXCEPT ![c] = GetPid.last]
      /\ last_pid' = GetPid.last /\ next_safe' = GetPid.next
      /\ proc_list' = <<c>> \o proc_list /\ zombies' = zombies
  BY DEF Fork, MayFork
<1>2. PICK l \in 1..MAX_PID - 1, n \in 1..MAX_PID : l = GetPid.last /\ n = GetPid.next
  BY <1>1, GetPidFacts DEF Gap
<1>3. MAX_PID \in Nat /\ l < n /\ \A q \in Used : pid[q] < l \/ pid[q] >= n
  <2>1. l < n /\ \A i \in 1..Len(proc_list) : PidOf(i) < l \/ PidOf(i) >= n
    BY <1>1, <1>2, GetPidFacts DEF Gap
  <2> QED  BY <2>1, UsedFacts, ForkAssumption DEF PidOf
<1>4. /\ Len(proc_list) \in Nat /\ proc_list \in Seq(Proc \cup {initproc})
      /\ Used = {proc_list[i] : i \in 1..Len(proc_list)}
      /\ Used \subseteq Proc \cup {initproc}
  BY UsedFacts DEF PidInv
<1>5. /\ proc_list' \in Seq(Proc \cup {initproc}) /\ Len(proc_list') = Len(proc_list) + 1
      /\ \A i \in 1..Len(proc_list) + 1 : proc_list'[i] = IF i = 1 THEN c ELSE proc_list[i - 1]
  <2> DEFINE one == <<c>>
  <2>1. one \in Seq(Proc \cup {initproc}) /\ Len(one) = 1 /\ one[1] = c
    OBVIOUS
  <2>2. proc_list' = one \o proc_list
    BY <1>1
  <2> HIDE DEF one
  <2>3. /\ proc_list' \in Seq(Proc \cup {initproc}) /\ Len(proc_list') = Len(one) + Len(proc_list)
        /\ \A i \in 1..Len(one) + Len(proc_list) :
             proc_list'[i] = IF i <= Len(one) THEN one[i] ELSE proc_list[i - Len(one)]
    BY <2>1, <2>2, <1>4, ConcatProperties
  <2>4. Len(proc_list') = Len(proc_list) + 1
    BY <2>1, <2>3, <1>4
  <2>5. ASSUME NEW i \in 1..Len(proc_list) + 1
        PROVE  proc_list'[i] = IF i = 1 THEN c ELSE proc_list[i - 1]
    <3>1. i \in 1..Len(one) + Len(proc_list)
      BY <2>1, <1>4
    <3>2. proc_list'[i] = IF i <= 1 THEN one[i] ELSE proc_list[i - 1]
      BY <3>1, <2>3, <2>1
    <3>3. (i <= 1) <=> (i = 1)
      BY <1>4
    <3> QED  BY <3>2, <3>3, <2>1
  <2> QED  BY <2>3, <2>4, <2>5
<1>6. Used' = Used \cup {c}
  <2>1. Used' = {proc_list'[i] : i \in 1..Len(proc_list')}
    <3>1. DOMAIN proc_list' = 1..Len(proc_list')
      BY <1>5, LenProperties
    <3> QED  BY <3>1 DEF Used, Range
  <2>2. \A i \in 1..Len(proc_list) : i + 1 \in 1..Len(proc_list) + 1 /\ i + 1 # 1 /\ (i + 1) - 1 = i
    BY <1>4
  <2>3. \A i \in 1..Len(proc_list) : proc_list'[i + 1] = proc_list[i]
    BY <2>2, <1>5
  <2>4. \A i \in 1..Len(proc_list) + 1 : i # 1 => i - 1 \in 1..Len(proc_list)
    BY <1>4
  <2>5. 1 \in 1..Len(proc_list) + 1 /\ proc_list'[1] = c
    BY <1>4, <1>5
  <2>6. Used \cup {c} \subseteq Used'
    <3>1. \A i \in 1..Len(proc_list) + 1 : proc_list'[i] \in Used'
      BY <2>1, <1>5
    <3>2. \A i \in 1..Len(proc_list) : proc_list[i] \in Used'
      BY <3>1, <2>2, <2>3
    <3>3. Used = {proc_list[i] : i \in 1..Len(proc_list)}
      <4>1. DOMAIN proc_list = 1..Len(proc_list)
        BY <1>4, LenProperties
      <4> QED  BY <4>1 DEF Used, Range
    <3> QED  BY <3>1, <3>2, <3>3, <2>5
  <2>7. Used' \subseteq Used \cup {c}
    <3>1. ASSUME NEW i \in 1..Len(proc_list) + 1
          PROVE  proc_list'[i] \in Used \cup {c}
      <4>1. CASE i = 1
        BY <4>1, <1>5
      <4>2. CASE i # 1
        <5>1. i - 1 \in 1..Len(proc_list)
          BY <2>4, <4>2
        <5>2. proc_list[i - 1] \in Used
          BY <5>1, <1>4
        <5> QED  BY <4>2, <5>2, <1>5
      <4> QED  BY <4>1, <4>2
    <3> QED  BY <2>1, <3>1, <1>5
  <2> QED  BY <2>6, <2>7
<1>7. \A i, j \in 1..Len(proc_list') : proc_list'[i] = proc_list'[j] => i = j
  <2>1. ASSUME NEW i \in 1..Len(proc_list) + 1, NEW j \in 1..Len(proc_list) + 1,
               proc_list'[i] = proc_list'[j]
        PROVE  i = j
    <3>1. /\ i # 1 => i - 1 \in 1..Len(proc_list) /\ proc_list'[i] = proc_list[i - 1]
          /\ j # 1 => j - 1 \in 1..Len(proc_list) /\ proc_list'[j] = proc_list[j - 1]
          /\ i = 1 => proc_list'[i] = c
          /\ j = 1 => proc_list'[j] = c
      BY <1>4, <1>5
    <3>2. \A k \in 1..Len(proc_list) : proc_list[k] # c
      BY <1>1, <1>4
    <3>3. i # 1 /\ j # 1 => i - 1 = j - 1
      BY <2>1, <3>1 DEF PidInv
    <3> QED  BY <2>1, <3>1, <3>2, <3>3, <1>4
  <2> QED  BY <2>1, <1>5
<1>8. /\ pid' \in [Proc \cup {initproc} -> Nat]
      /\ \A q \in Proc \cup {initproc} : pid'[q] = IF q = c THEN l ELSE pid[q]
  BY <1>1, <1>2 DEF PidInv
<1>9. \A q \in Used : pid[q] \in 1..MAX_PID - 1 /\ q # c /\ pid'[q] = pid[q] /\ pid[q] # l
  <2>1. \A q \in Used : pid[q] \in 1..MAX_PID - 1 /\ q # c /\ pid'[q] = pid[q]
    BY <1>1, <1>4, <1>8 DEF PidInv
  <2> QED  BY <2>1, <1>3
<1>10. pid'[c] = l
  BY <1>8
<1>11. \A q \in Used' : pid'[q] <= l \/ pid'[q] >= n
  BY <1>3, <1>6, <1>9, <1>10
<1>12. \A q, r \in Used' : q # r => pid'[q] # pid'[r]
  BY <1>6, <1>9, <1>10 DEF PidInv
<1>13. \A q \in Used' : pid'[q] \in 1..MAX_PID - 1
  BY <1>6, <1>9, <1>10
<1>14. zombies' \subseteq Used' \ {initproc}
  BY <1>1, <1>6 DEF PidInv
<1> QED  BY <1>1, <1>2, <1>5, <1>6, <1>7, <1>8, <1>11, <1>12, <1>13, <1>14 DEF PidInv

\* A reaped process leaves the list, and its pid with it.
LEMMA PidsWait ==
  ASSUME PidInv, NEW c \in Proc, Wait(c)
  PROVE  PidInv' /\ Used' = Used \ {c}
<1>1. /\ c \in zombies /\ zombies' = zombies \ {c}
      /\ proc_list' = Reaped(c) /\ pid' = [pid EXCEPT ![c] = 0]
      /\ last_pid' = last_pid /\ next_safe' = next_safe
  BY DEF Wait
<1>2. /\ Len(proc_list) \in Nat /\ proc_list \in Seq(Proc \cup {initproc})
      /\ DOMAIN proc_list = 1..Len(proc_list)
      /\ Used = {proc_list[i] : i \in 1..Len(proc_list)}
      /\ Used \subseteq Proc \cup {initproc}
      /\ c \in Used
  BY <1>1, UsedFacts, LenProperties DEF PidInv
<1>3. PICK k \in 1..Len(proc_list) : /\ proc_list[k] = c
                                     /\ k = CHOOSE i \in DOMAIN proc_list : proc_list[i] = c
  BY <1>2
<1>4. /\ proc_list' \in Seq(Proc \cup {initproc}) /\ Len(proc_list') = Len(proc_list) - 1
      /\ \A i \in 1..Len(proc_list) - 1 :
           proc_list'[i] = IF i < k THEN proc_list[i] ELSE proc_list[i + 1]
  <2>1. /\ k \in 1..Len(proc_list) + 1 /\ k + 1 <= Len(proc_list) + 1
        /\ proc_list' = SubSeq(proc_list, 1, k - 1) \o SubSeq(proc_list, k + 1, Len(proc_list))
    BY <1>1, <1>2, <1>3 DEF Reaped, RemoveAt
  <2>2. WithoutRun(proc_list', Proc \cup {initproc}, proc_list, k, 1)
    BY <2>1, <1>2, CutFacts
  <2> QED  BY <2>2 DEF WithoutRun
<1>5. ASSUME NEW i \in 1..Len(proc_list')
      PROVE  \E j \in 1..Len(proc_list) :
               /\ j = (IF i < k THEN i ELSE i + 1) /\ j # k /\ proc_list'[i] = proc_list[j]
  <2>1. i \in 1..Len(proc_list) - 1 /\ i \in Int /\ k \in Int
    BY <1>2, <1>4
  <2>2. CASE i < k
    <3>1. i \in 1..Len(proc_list)
      BY <1>2, <2>1
    <3> QED  BY <2>1, <2>2, <3>1, <1>4
  <2>3. CASE ~(i < k)
    <3>1. i + 1 \in 1..Len(proc_list) /\ i + 1 # k
      BY <1>2, <2>1, <2>3
    <3> QED  BY <2>1, <2>3, <3>1, <1>4
  <2> QED  BY <2>2, <2>3
<1>6. ASSUME NEW j \in 1..Len(proc_list), j # k
      PROVE  \E i \in 1..Len(proc_list') : proc_list'[i] = proc_list[j]
  <2>1. CASE j < k
    <3>1. j \in 1..Len(proc_list) - 1
      BY <1>2, <2>1
    <3> QED  BY <2>1, <3>1, <1>4
  <2>2. CASE j > k
    <3>1. j - 1 \in 1..Len(proc_list) - 1 /\ ~(j - 1 < k) /\ (j - 1) + 1 = j
      BY <1>2, <2>2
    <3> QED  BY <3>1, <1>4
  <2> QED  BY <2>1, <2>2, <1>2, <1>6
<1>7. Used' = Used \ {c}
  <2>1. Used' = {proc_list'[i] : i \in 1..Len(proc_list')}
    <3>1. DOMAIN proc_list' = 1..Len(proc_list')
      BY <1>4, LenProperties
    <3> QED  BY <3>1 DEF Used, Range
  <2>2. \A j \in 1..Len(proc_list) : proc_list[j] = c => j = k
    BY <1>3 DEF PidInv
  <2>3. Used' \subseteq Used \ {c}
    BY <2>1, <2>2, <1>2, <1>5
  <2>4. Used \ {c} \subseteq Used'
    BY <2>1, <1>2, <1>3, <1>6
  <2> QED  BY <2>3, <2>4
<1>8. \A i, j \in 1..Len(proc_list') : proc_list'[i] = proc_list'[j] => i = j
  <2>1. ASSUME NEW i \in 1..Len(proc_list'), NEW j \in 1..Len(proc_list'),
               proc_list'[i] = proc_list'[j]
        PROVE  i = j
    <3>1. PICK a \in 1..Len(proc_list) : a = (IF i < k THEN i ELSE i + 1) /\ proc_list'[i] = proc_list[a]
      BY <1>5
    <3>2. PICK b \in 1..Len(proc_list) : b = (IF j < k THEN j ELSE j + 1) /\ proc_list'[j] = proc_list[b]
      BY <1>5
    <3>3. a = b
      BY <2>1, <3>1, <3>2 DEF PidInv
    <3>4. i \in Int /\ j \in Int /\ k \in Int
      BY <1>2, <1>4
    <3> QED  BY <3>1, <3>2, <3>3, <3>4
  <2> QED  BY <2>1
<1>9. pid' \in [Proc \cup {initproc} -> Nat] /\ \A q \in Used \ {c} : pid'[q] = pid[q]
  BY <1>1, <1>2 DEF PidInv
<1> QED  BY <1>1, <1>4, <1>7, <1>8, <1>9 DEF PidInv

\* The other steps leave the list of processes and the pids alone.
LEMMA PidsKept ==
  ASSUME PidInv, UNCHANGED <<proc_list, pid, last_pid, next_safe>>,
         zombies' \subseteq Used \ {initproc}
  PROVE  PidInv'
<1>1. Used' = Used
  BY DEF Used
<1> QED  BY <1>1 DEF PidInv

\* Every step keeps what get_pid relies on.
LEMMA PidsNext == PidInv /\ [Next]_vars => PidInv'
<1> SUFFICES ASSUME PidInv, [Next]_vars PROVE PidInv'
  OBVIOUS
<1>0. zombies \subseteq Used \ {initproc}
  BY DEF PidInv
<1>1. ASSUME OutOfMemory PROVE PidInv'
  BY <1>0, <1>1, PidsKept DEF OutOfMemory
<1>2. ASSUME NEW p, NEW c \in Proc, Fork(p, c) PROVE PidInv'
  BY <1>2, PidsFork
<1>3. ASSUME NEW p \in Proc, NEW a, Running(p), Ended(p, a) PROVE PidInv'
  <2>1. p \in Used \ {initproc}
    BY <1>3 DEF Running, Alive
  <2> QED  BY <2>1, <1>0, <1>3, PidsKept DEF Ended
<1>4. ASSUME NEW p \in Proc, NEW argc, Exec(p, argc) PROVE PidInv'
  <2>1. CASE OutOfMemory
    BY <1>1, <2>1
  <2>2. ASSUME NEW args, NEW new, Executed(p, args, new) PROVE PidInv'
    BY <1>0, <2>2, PidsKept DEF Executed
  <2>3. ASSUME NEW args, NEW new, ExecFails(p, args, new) PROVE PidInv'
    BY <1>3, <1>4, <2>3 DEF Exec, ExecFails
  <2> QED  BY <1>4, <2>1, <2>2, <2>3 DEF Exec
<1>5. ASSUME NEW p \in Proc, PageFault(p) PROVE PidInv'
  BY <1>0, <1>1, <1>5, PidsKept DEF PageFault
<1>6. ASSUME NEW c \in Proc, Wait(c) PROVE PidInv'
  BY <1>6, PidsWait
<1>7. ASSUME NEW p \in Proc, NEW argc,
             ExecRefused(p, argc) \/ FileCall(p) \/ ReadSleeps(p) \/ ReadReturns(p)
      PROVE  PidInv'
  BY <1>0, <1>7, PidsKept DEF ExecRefused, FileCall, ReadSleeps, ReadReturns
<1>8. ASSUME NEW p \in Proc, NEW argc,
             ExecOpenFails(p, argc) \/ Exit(p)
      PROVE  PidInv'
  BY <1>3, <1>8 DEF ExecOpenFails, Exit
<1>9. CASE UNCHANGED vars
  BY <1>0, <1>9, PidsKept DEF vars
<1> QED  BY <1>1, <1>2, <1>4, <1>5, <1>6, <1>7, <1>8, <1>9
         DEF Next, ForkOutOfMemory, ExecOutOfMemory, FileOutOfMemory

(***************************************************************************)
(* get_pid gives no two processes the same pid, however many have been     *)
(* forked and reaped since it last looked at the list of processes.        *)
(***************************************************************************)
THEOREM PidsUnique == Spec => []PidsDistinct
<1>1. Init => PidInv
  BY PidsInit
<1>2. PidInv /\ [Next]_vars => PidInv'
  BY PidsNext
<1>3. PidInv => PidsDistinct
  BY DEF PidInv, PidsDistinct
<1> QED  BY <1>1, <1>2, <1>3, PTL DEF Spec
-----------------------------------------------------------------------------
(* The free list and its blocks. *)

Sorted(s) == \A i, j \in 1..Len(s) : i < j => s[i] < s[j]
Elements(s) == {s[i] : i \in 1..Len(s)}

\* n frames from f on are free, and the one behind them is not.
Run(F, f, n) == n > 0 /\ f..f + n - 1 \subseteq F /\ f + n \notin F

\* p gives the first frame of every block of F the size of the block.
Blocks(F, p) ==
  \A f \in F : /\ f - 1 \in F => p[f] = 0
               /\ f - 1 \notin F => Run(F, f, p[f])

Free(a) == Elements(a.list)

AreaOK(a) ==
  /\ a = [list |-> a.list, property |-> a.property, nr_free |-> a.nr_free]
  /\ a.list \in Seq(Frame) /\ Sorted(a.list)
  /\ a.property \in [Frame -> Nat] /\ Blocks(Free(a), a.property)
  /\ a.nr_free = Len(a.list)

\* The elements of a list of frames.
LEMMA ElementFacts ==
  ASSUME NEW s \in Seq(Frame)
  PROVE  /\ Len(s) \in Nat /\ DOMAIN s = 1..Len(s)
         /\ Elements(s) \subseteq Frame
         /\ \A i \in 1..Len(s) : s[i] \in Frame /\ s[i] \in Elements(s)
<1>1. Len(s) \in Nat /\ DOMAIN s = 1..Len(s)
  BY LenProperties
<1>2. \A i \in 1..Len(s) : s[i] \in Frame
  BY ElementOfSeq
<1> QED  BY <1>1, <1>2 DEF Elements

\* Adjacent frames are adjacent in a sorted list of frames.
LEMMA Consecutive ==
  ASSUME NEW s \in Seq(Frame), Sorted(s), NEW i \in 1..Len(s), NEW n \in Nat,
         s[i]..s[i] + n - 1 \subseteq Elements(s)
  PROVE  \A x \in 0..n - 1 : i + x \in 1..Len(s) /\ s[i + x] = s[i] + x
<1>1. Len(s) \in Nat /\ \A j \in 1..Len(s) : s[j] \in Nat
  BY ElementFacts, FrameAssumption DEF Frame
<1> DEFINE T == {x \in Nat : x < n /\ ~(i + x \in 1..Len(s) /\ s[i + x] = s[i] + x)}
<1>2. T = {}
  <2> SUFFICES ASSUME T # {} PROVE FALSE
    OBVIOUS
  <2>1. PICK x \in T : \A y \in T : x <= y
    BY NatLeast
  <2>2. x # 0
    BY <1>1, <2>1
  <2>3. x - 1 \in Nat /\ x - 1 \notin T /\ x - 1 < n /\ x < n
    BY <2>1, <2>2
  <2>4. PICK k \in 1..Len(s) : k = i + (x - 1) /\ s[k] = s[i] + (x - 1)
    BY <2>3
  <2>5. PICK j \in 1..Len(s) : s[j] = s[i] + x
    <3>1. PICK b \in Nat : b = s[i]
      BY <1>1
    <3>2. b + x \in b..b + n - 1
      BY <2>3
    <3> QED  BY <3>1, <3>2 DEF Elements
  <2>6. j > k
    <3>1. CASE j = k
      BY <3>1, <2>4, <2>5, <1>1
    <3>2. CASE j < k
      <4>1. s[j] < s[k]
        BY <3>2 DEF Sorted
      <4> QED  BY <4>1, <2>4, <2>5, <1>1
    <3> QED  BY <3>1, <3>2, <1>1
  <2>7. PICK m \in 1..Len(s) : m = i + x /\ m = k + 1
    BY <1>1, <2>4, <2>6, <2>3
  <2>8. s[k] < s[m]
    BY <2>7, <1>1 DEF Sorted
  <2>9. m = j \/ s[m] < s[j]
    <3>1. m = j \/ m < j
      BY <2>6, <2>7, <1>1
    <3> QED  BY <3>1, <2>7, <1>1 DEF Sorted
  <2>10. s[m] = s[i] + x
    <3>1. x \in Int
      BY <2>1
    <3> HIDE DEF T
    <3>2. s[i] \in Int /\ s[m] \in Int
      BY <1>1
    <3>3. s[i] + (x - 1) < s[m] /\ (m = j \/ s[m] < s[i] + x)
      BY <2>4, <2>5, <2>8, <2>9
    <3>4. CASE m = j
      BY <3>4, <2>5
    <3>5. CASE s[m] < s[i] + x
      BY <3>1, <3>2, <3>3, <3>5
    <3> QED  BY <3>3, <3>4, <3>5
  <2> QED  BY <2>1, <2>7, <2>10
<1>3. \A x \in 0..n - 1 : x \in Nat /\ x < n
  BY <1>1
<1> QED  BY <1>2, <1>3

\* Every free frame belongs to a block, whose first frame has its size.
LEMMA BlockOf ==
  ASSUME NEW F \in SUBSET Frame, NEW p \in [Frame -> Nat], Blocks(F, p), NEW f \in F
  PROVE  \E h \in F : /\ h <= f /\ h - 1 \notin F /\ h..f \subseteq F
                      /\ Run(F, h, p[h]) /\ f < h + p[h]
<1>1. NFrame \in Nat /\ \A x \in F : x \in Nat /\ x > 0
  BY FrameAssumption DEF Frame
<1> DEFINE T == {h \in Nat : h <= f /\ h..f \subseteq F}
<1>2. f \in T
  BY <1>1
<1>3. PICK h \in T : \A y \in T : h <= y
  BY <1>2, NatLeast
<1>4. h \in F /\ h > 0
  BY <1>1, <1>3
<1>5. h - 1 \notin F
  <2> SUFFICES ASSUME h - 1 \in F PROVE FALSE
    OBVIOUS
  <2>1. h - 1 \in T
    <3>1. \A x \in h - 1..f : x = h - 1 \/ x \in h..f
      BY <1>1, <1>3
    <3> QED  BY <1>1, <1>3, <1>4, <3>1
  <2> QED  BY <2>1, <1>3
<1>6. Run(F, h, p[h])
  BY <1>4, <1>5 DEF Blocks
<1>7. f < h + p[h]
  <2>1. PICK m \in Nat : m = p[h]
    BY <1>4
  <2>2. h + m \notin F
    BY <1>6, <2>1 DEF Run
  <2>3. h + m \notin h..f
    BY <1>3, <2>2
  <2> QED  BY <2>1, <2>3, <1>1, <1>3
<1> QED  BY <1>3, <1>4, <1>5, <1>6, <1>7

\* The first n frames of a block taken away: q gives what is left of it its size.
SplitAt(q, p, b, n) == q = IF p[b] - n > 0 THEN [p EXCEPT ![b + n] = p[b] - n] ELSE p

BlocksWithout(q, F, b, n) ==
  /\ b..b + n - 1 \subseteq F
  /\ q \in [Frame -> Nat] /\ Blocks(F \ (b..b + n - 1), q)

\* What is left of a block is one, and the other blocks stay.
LEMMA BlocksTaken ==
  ASSUME NEW F \in SUBSET Frame, NEW p \in [Frame -> Nat], Blocks(F, p),
         NEW b \in F, NEW n \in Nat, 0 < n, n <= p[b], NEW q, SplitAt(q, p, b, n)
  PROVE  BlocksWithout(q, F, b, n)
<1>1. NFrame \in Nat /\ \A x \in F : x \in Nat /\ x > 0
  BY FrameAssumption DEF Frame
<1>2. PICK m \in Nat : m = p[b]
  OBVIOUS
<1>3. b - 1 \notin F /\ b..b + m - 1 \subseteq F /\ b + m \notin F /\ m > 0
  BY <1>1, <1>2 DEF Blocks, Run
<1>4. b..b + n - 1 \subseteq F /\ (m > n => b + n \in F)
  BY <1>1, <1>2, <1>3
<1>5. /\ q \in [Frame -> Nat]
      /\ \A f \in Frame : q[f] = IF m > n /\ f = b + n THEN m - n ELSE p[f]
  <2>1. CASE m > n
    <3>1. m - n \in Nat /\ m - n > 0
      BY <2>1
    <3> QED  BY <2>1, <3>1, <1>2, <1>4 DEF SplitAt
  <2>2. CASE ~(m > n)
    <3>1. ~(m - n > 0)
      BY <2>2
    <3> QED  BY <2>2, <3>1, <1>2 DEF SplitAt
  <2> QED  BY <2>1, <2>2
<1> DEFINE G == F \ (b..b + n - 1)
<1>6. ASSUME NEW f \in G, f - 1 \in G
      PROVE  q[f] = 0
  <2>1. f \in F /\ f - 1 \in F /\ p[f] = 0
    BY <1>6 DEF Blocks
  <2>2. f # b + n
    <3>1. (b + n) - 1 \in b..b + n - 1
      BY <1>1
    <3> QED  BY <1>6, <3>1
  <2> QED  BY <2>1, <2>2, <1>5
<1>7. ASSUME NEW f \in G, f - 1 \notin G
      PROVE  Run(G, f, q[f])
  <2>1. CASE f = b + n
    <3>1. m > n
      <4>1. m = n => b + n \notin F
        BY <1>3
      <4> QED  BY <4>1, <2>1, <1>2
    <3>2. q[f] = m - n /\ f + (m - n) = b + m
      BY <2>1, <3>1, <1>1, <1>5
    <3>3. b + n..b + m - 1 \subseteq G
      BY <1>1, <1>3
    <3> QED  BY <2>1, <3>1, <3>2, <3>3, <1>1, <1>3 DEF Run
  <2>2. CASE f # b + n
    <3>1. f \in F /\ f \notin b..b + n - 1 /\ f # b /\ f \in Nat
      BY <1>1
    <3>2. f - 1 \notin F
      <4>1. f - 1 \notin b..b + n - 1
        BY <3>1, <2>2, <1>1
      <4> QED  BY <4>1, <1>7
    <3>3. Run(F, f, p[f]) /\ q[f] = p[f]
      BY <3>1, <3>2, <2>2, <1>5 DEF Blocks
    <3>4. PICK k \in Nat : k = p[f]
      BY <3>1
    <3>5. k > 0 /\ f..f + k - 1 \subseteq F /\ f + k \notin F
      BY <3>3, <3>4 DEF Run
    <3>6. ASSUME NEW x \in f..f + k - 1, x \in b..b + n - 1
          PROVE  FALSE
      <4>1. CASE f < b
        <5>1. b - 1 \in f..f + k - 1
          BY <4>1, <3>1, <3>6, <1>1
        <5> QED  BY <5>1, <3>5, <1>3
      <4>2. CASE f > b
        <5>1. f - 1 \in b..b + m - 1
          BY <4>2, <3>1, <3>6, <1>1, <1>2
        <5> QED  BY <5>1, <3>2, <1>3
      <4> QED  BY <4>1, <4>2, <3>1, <1>1
    <3>7. f..f + k - 1 \subseteq G /\ f + k \notin G
      BY <3>5, <3>6
    <3> QED  BY <3>3, <3>4, <3>5, <3>7 DEF Run
  <2> QED  BY <2>1, <2>2
<1> QED  BY <1>4, <1>5, <1>6, <1>7 DEF Blocks, BlocksWithout

\* A block of n frames given back: first merged with the block behind it.
GivenBack(p, b, n) ==
  [f \in Frame |-> IF f = b THEN n ELSE IF f \in b..b + n - 1 THEN 0 ELSE p[f]]

WithNext(F, r, b, n) == IF b + n \in F THEN MergedNext(r, b, n, b + n) ELSE r

\* q gives the sizes of the blocks of G, but the one before b is apart.
BlocksBut(q, G, F, p, b) ==
  /\ q \in [Frame -> Nat] /\ Run(G, b, q[b])
  /\ \A f \in G \ {b} :
       /\ f - 1 \in G => q[f] = 0
       /\ f - 1 \notin G => Run(F, f, p[f]) /\ q[f] = p[f]
  /\ \A f \in F : f < b => q[f] = p[f]

\* The block given back, merged with the one behind it.
LEMMA BlocksNext ==
  ASSUME NEW F \in SUBSET Frame, NEW p \in [Frame -> Nat], Blocks(F, p),
         NEW b \in Frame, NEW n \in Nat, 0 < n,
         NEW B, B = b..b + n - 1, B \subseteq Frame \ F,
         NEW r, r = GivenBack(p, b, n), NEW q, q = WithNext(F, r, b, n)
  PROVE  BlocksBut(q, F \cup B, F, p, b)
<1>1. NFrame \in Nat /\ b \in Nat /\ b > 0 /\ \A x \in F : x \in Nat /\ x > 0
  BY FrameAssumption DEF Frame
<1> DEFINE G == F \cup (b..b + n - 1)
<1>2. b \notin F /\ b \in G /\ b + n - 1 \in G
  BY <1>1
<1>3. /\ r \in [Frame -> Nat] /\ r[b] = n
      /\ \A f \in Frame : f # b => r[f] = IF f \in b..b + n - 1 THEN 0 ELSE p[f]
  BY <1>1 DEF GivenBack
<1>4. PICK m \in Nat : m = IF b + n \in F THEN n + p[b + n] ELSE n
  BY <1>1
<1>5. /\ q \in [Frame -> Nat] /\ q[b] = m
      /\ \A f \in Frame : f # b =>
           q[f] = IF f \in b..b + n - 1 \/ (f = b + n /\ f \in F) THEN 0 ELSE p[f]
  <2>1. CASE b + n \in F
    <3>1. b + n # b /\ b + n \notin b..b + n - 1 /\ b + n \in Frame
      BY <1>1, <2>1
    <3>2. r[b + n] = p[b + n] /\ p[b + n] \in Nat
      BY <3>1, <1>3
    <3>3. q = [r EXCEPT ![b] = n + p[b + n], ![b + n] = 0]
      BY <1>3, <2>1, <3>2 DEF MergedNext, WithNext
    <3>4. /\ q \in [Frame -> Nat]
          /\ \A f \in Frame : q[f] = IF f = b + n THEN 0 ELSE IF f = b THEN n + p[b + n] ELSE r[f]
      BY <1>3, <3>1, <3>2, <3>3
    <3>5. q[b] = m
      BY <2>1, <3>1, <3>4, <1>4
    <3>6. ASSUME NEW f \in Frame, f # b
          PROVE  q[f] = IF f \in b..b + n - 1 \/ (f = b + n /\ f \in F) THEN 0 ELSE p[f]
      <4>1. q[f] = IF f = b + n THEN 0 ELSE r[f]
        BY <3>4, <3>6
      <4>2. r[f] = IF f \in b..b + n - 1 THEN 0 ELSE p[f]
        BY <1>3, <3>6
      <4> QED  BY <4>1, <4>2, <2>1
    <3> QED  BY <3>4, <3>5, <3>6
  <2>2. CASE b + n \notin F
    <3>1. q = r
      BY <2>2 DEF WithNext
    <3>2. q[b] = m
      BY <2>2, <3>1, <1>3, <1>4
    <3>3. ASSUME NEW f \in Frame, f # b
          PROVE  q[f] = IF f \in b..b + n - 1 \/ (f = b + n /\ f \in F) THEN 0 ELSE p[f]
      <4>1. q[f] = IF f \in b..b + n - 1 THEN 0 ELSE p[f]
        BY <1>3, <3>1, <3>3
      <4>2. ~(f = b + n /\ f \in F)
        BY <2>2
      <4> QED  BY <4>1, <4>2
    <3> QED  BY <3>1, <3>2, <3>3, <1>3
  <2> QED  BY <2>1, <2>2
<1>6. Run(G, b, m)
  <2>1. CASE b + n \in F
    <3>1. b + n - 1 \notin F
      BY <1>1
    <3>2. (b + n) - 1 \notin F
      BY <3>1, <1>1
    <3>3. Run(F, b + n, p[b + n])
      BY <2>1, <3>2 DEF Blocks
    <3>4. PICK k \in Nat : k = p[b + n]
      BY <2>1
    <3>5. k > 0 /\ b + n..b + n + k - 1 \subseteq F /\ (b + n) + k \notin F /\ m = n + k
      BY <2>1, <3>3, <3>4, <1>4 DEF Run
    <3>6. b..b + m - 1 \subseteq G
      <4>1. \A x \in b..b + m - 1 : x \in b..b + n - 1 \/ x \in b + n..b + n + k - 1
        BY <3>5, <1>1
      <4> QED  BY <4>1, <3>5
    <3>7. b + m \notin G
      BY <3>5, <1>1
    <3> QED  BY <3>5, <3>6, <3>7 DEF Run
  <2>2. CASE b + n \notin F
    BY <2>2, <1>1, <1>4 DEF Run
  <2> QED  BY <2>1, <2>2
<1>7. ASSUME NEW f \in G \ {b}, f - 1 \in G
      PROVE  q[f] = 0
  <2>1. f \in Frame /\ f \in Nat /\ f # b
    BY <1>1 DEF Frame
  <2>2. CASE f \in b..b + n - 1
    BY <2>1, <2>2, <1>5
  <2>3. CASE f \notin b..b + n - 1 /\ f = b + n
    BY <2>1, <2>3, <1>5
  <2>4. CASE f \notin b..b + n - 1 /\ f # b + n
    <3>1. f - 1 \notin b..b + n - 1
      BY <2>1, <2>4, <1>1
    <3>2. f \in F /\ f - 1 \in F
      BY <3>1, <2>4, <1>7
    <3>3. p[f] = 0
      BY <3>2 DEF Blocks
    <3> QED  BY <2>1, <2>4, <3>3, <1>5
  <2> QED  BY <2>2, <2>3, <2>4
<1>8. ASSUME NEW f \in G \ {b}, f - 1 \notin G
      PROVE  Run(F, f, p[f]) /\ q[f] = p[f]
  <2>1. f \in Frame /\ f \in Nat
    BY <1>1 DEF Frame
  <2>2. f \notin b..b + n - 1
    <3> SUFFICES ASSUME f \in b..b + n - 1 PROVE FALSE
      OBVIOUS
    <3>1. f - 1 \in b..b + n - 1
      BY <2>1, <1>1
    <3> QED  BY <3>1, <1>8
  <2>3. f # b + n
    <3> SUFFICES ASSUME f = b + n PROVE FALSE
      OBVIOUS
    <3>1. f - 1 \in b..b + n - 1
      BY <2>1, <1>1
    <3> QED  BY <3>1, <1>8
  <2>4. f \in F /\ f - 1 \notin F
    BY <2>2, <1>8
  <2>5. Run(F, f, p[f])
    BY <2>4 DEF Blocks
  <2> QED  BY <2>1, <2>2, <2>3, <2>5, <1>5
<1>9. ASSUME NEW f \in F, f < b
      PROVE  q[f] = p[f]
  <2>1. f \in Frame /\ f \in Nat /\ f # b /\ f \notin b..b + n - 1 /\ f # b + n
    BY <1>1, <1>9
  <2> QED  BY <2>1, <1>5
<1> QED  BY <1>5, <1>6, <1>7, <1>8, <1>9 DEF BlocksBut

\* Then with the one before it.
WithPrev(F, q, b) == MergedPrev(q, b, {f \in F : f < b})

\* The block before b and the one of b make one block of all of G.
LEMMA BlocksPrev ==
  ASSUME NEW F \in SUBSET Frame, NEW p \in [Frame -> Nat], Blocks(F, p),
         NEW b \in Frame, NEW G \in SUBSET Frame, NEW q \in [Frame -> Nat],
         F \cup {b} \subseteq G, b \notin F, Run(G, b, q[b]),
         \A f \in G : f < b => f \in F,
         \A f \in G \ {b} :
           /\ f - 1 \in G => q[f] = 0
           /\ f - 1 \notin G => Run(F, f, p[f]) /\ q[f] = p[f] /\ (f + p[f] = b \/ f + p[f] \notin G),
         \A f \in F : f < b => q[f] = p[f],
         NEW t, t = WithPrev(F, q, b)
  PROVE  t \in [Frame -> Nat] /\ Blocks(G, t)
<1>1. NFrame \in Nat /\ b \in Nat /\ b > 0 /\ \A x \in F : x \in Nat /\ x > 0
  BY FrameAssumption DEF Frame
<1>2. PICK m \in Nat : m = q[b]
  OBVIOUS
<1>3. m > 0 /\ b..b + m - 1 \subseteq G /\ b + m \notin G
  BY <1>2 DEF Run
<1> DEFINE before == {f \in F : f < b}
<1>4. b - 1 \in G <=> b - 1 \in before
  BY <1>1
<1>5. CASE b - 1 \notin before
  <2>1. t = q
    BY <1>5 DEF WithPrev, MergedPrev
  <2>2. ASSUME NEW f \in G, f - 1 \in G
        PROVE  q[f] = 0
    <3>1. f # b
      BY <2>2, <1>4, <1>5
    <3> QED  BY <2>2, <3>1
  <2>3. ASSUME NEW f \in G, f - 1 \notin G
        PROVE  Run(G, f, q[f])
    <3>1. CASE f = b
      BY <3>1
    <3>2. CASE f # b
      <4>1. /\ Run(F, f, p[f]) /\ q[f] = p[f] /\ (f + p[f] = b \/ f + p[f] \notin G)
        BY <2>3, <3>2
      <4>2. PICK k \in Nat : k = p[f]
        BY <4>1 DEF Run
      <4>3. k > 0 /\ f..f + k - 1 \subseteq F
        BY <4>1, <4>2 DEF Run
      <4>4. f \in Int
        BY <1>1, <4>3, <2>3
      <4>5. f + k # b
        <5> SUFFICES ASSUME f + k = b PROVE FALSE
          OBVIOUS
        <5>1. b - 1 \in f..f + k - 1
          BY <4>3, <4>4
        <5> QED  BY <5>1, <4>3, <1>1, <1>5
      <4> QED  BY <4>1, <4>2, <4>3, <4>5 DEF Run
    <3> QED  BY <3>1, <3>2
  <2> QED  BY <2>1, <2>2, <2>3 DEF Blocks
<1>6. CASE b - 1 \in before
  <2>1. b - 1 \in F
    BY <1>6
  <2>2. PICK h \in F : /\ h <= b - 1 /\ h - 1 \notin F /\ h..b - 1 \subseteq F
                       /\ Run(F, h, p[h]) /\ b - 1 < h + p[h]
    BY <2>1, BlockOf
  <2>3. h \in Nat /\ h < b /\ h \in before /\ h \in Frame /\ h # b
    BY <1>1, <2>2
  <2>4. p[h] = b - h
    <3>1. PICK k \in Nat : k = p[h]
      BY <2>3
    <3>2. h..h + k - 1 \subseteq F /\ b - 1 < h + k
      BY <2>2, <3>1 DEF Run
    <3>3. ~(b <= h + k - 1)
      <4> SUFFICES ASSUME b <= h + k - 1 PROVE FALSE
        OBVIOUS
      <4>1. b \in h..h + k - 1
        BY <1>1, <2>3
      <4> QED  BY <4>1, <3>2
    <3> QED  BY <3>1, <3>2, <3>3, <1>1, <2>3
  <2> DEFINE headers == {f \in before : q[f] > 0}
  <2>5. h \in headers /\ q[h] = b - h
    BY <1>1, <2>3, <2>4
  <2>6. ASSUME NEW f \in F, f < b, h < f
        PROVE  q[f] = 0
    <3>1. f - 1 \in h..b - 1
      BY <1>1, <2>3, <2>6
    <3> QED  BY <2>2, <2>6, <3>1, <1>1
  <2>7. GreatestOf(headers) = h
    <3>1. \A f \in headers : f <= h
      BY <2>6, <2>3, <1>1
    <3>2. ASSUME NEW g \in headers, \A f \in headers : f <= g
          PROVE  g = h
      BY <3>1, <3>2, <2>5, <2>3, <1>1
    <3> HIDE DEF headers
    <3> QED  BY <3>1, <3>2, <2>5 DEF GreatestOf
  <2>8. t = [q EXCEPT ![h] = q[h] + q[b], ![b] = 0]
    <3>1. headers # {}
      BY <2>5
    <3> QED  BY <1>6, <2>7, <3>1 DEF WithPrev, MergedPrev, MergedAt
  <2>9. /\ t \in [Frame -> Nat]
        /\ \A f \in Frame : t[f] = IF f = b THEN 0 ELSE IF f = h THEN (b - h) + m ELSE q[f]
    <3>1. PICK c \in Nat : c = (b - h) + m
      BY <2>3
    <3>2. q[h] + q[b] = c
      BY <2>5, <1>2, <3>1
    <3>3. t = [q EXCEPT ![h] = c, ![b] = 0]
      BY <2>8, <3>2
    <3>4. h \in Frame /\ b \in Frame
      BY <2>3
    <3>5. t \in [Frame -> Nat] /\ \A f \in Frame : t[f] = IF f = b THEN 0 ELSE IF f = h THEN c ELSE q[f]
      BY <3>3, <3>4
    <3> QED  BY <3>1, <3>5
  <2>10. ASSUME NEW f \in G, f - 1 \in G
         PROVE  t[f] = 0
    <3>1. CASE f = b
      BY <3>1, <2>9
    <3>2. CASE f # b
      <4>1. q[f] = 0
        BY <3>2, <2>10
      <4>2. f # h
        BY <4>1, <2>5, <2>3, <1>1
      <4> QED  BY <4>1, <4>2, <3>2, <2>9
    <3> QED  BY <3>1, <3>2
  <2>11. ASSUME NEW f \in G, f - 1 \notin G
         PROVE  Run(G, f, t[f])
    <3>1. f # b
      BY <2>11, <1>4, <1>6
    <3>2. /\ Run(F, f, p[f]) /\ q[f] = p[f] /\ (f + p[f] = b \/ f + p[f] \notin G)
      BY <3>1, <2>11
    <3>3. CASE f = h
      <4>1. t[h] = (b - h) + m /\ h + ((b - h) + m) = b + m
        BY <2>3, <2>9, <1>1
      <4>2. h..b + m - 1 \subseteq G
        <5>1. \A x \in h..b + m - 1 : x \in h..b - 1 \/ x \in b..b + m - 1
          BY <1>1, <2>3
        <5> QED  BY <5>1, <2>2, <1>3
      <4>3. PICK c \in Nat : c = (b - h) + m
        BY <2>3
      <4>4. c > 0 /\ h + c = b + m /\ h + c - 1 = b + m - 1 /\ t[h] = c
        BY <4>1, <4>3, <1>1, <1>3, <2>3
      <4>5. Run(G, h, c)
        BY <4>2, <4>4, <1>3 DEF Run
      <4> QED  BY <3>3, <4>4, <4>5
    <3>4. CASE f # h
      <4>1. PICK k \in Nat : k = p[f]
        BY <3>2 DEF Run
      <4>2. k > 0 /\ f..f + k - 1 \subseteq F
        BY <3>2, <4>1 DEF Run
      <4>3. f + k # b
        <5> SUFFICES ASSUME f + k = b PROVE FALSE
          OBVIOUS
        <5>1. b - 1 \in f..f + k - 1 /\ f \in Int
          BY <4>2, <1>1
        <5>2. CASE f > h
          <6>1. f - 1 \in h..b - 1
            BY <5>1, <5>2, <1>1, <2>3
          <6> QED  BY <6>1, <2>2, <2>11
        <5>3. CASE f < h
          <6>1. h - 1 \in f..f + k - 1
            BY <5>1, <5>3, <1>1, <2>3
          <6> QED  BY <6>1, <4>2, <2>2
        <5> QED  BY <5>1, <5>2, <5>3, <2>3, <3>4
      <4>4. t[f] = p[f]
        BY <3>1, <3>2, <3>4, <2>9, <4>2, <1>1
      <4> QED  BY <3>2, <4>1, <4>2, <4>3, <4>4 DEF Run
    <3> QED  BY <3>3, <3>4
  <2> QED  BY <2>9, <2>10, <2>11 DEF Blocks
<1> QED  BY <1>5, <1>6

-----------------------------------------------------------------------------
(* default_alloc_pages and default_free_pages. *)

\* LeastOf finds the least number of a set.
LEMMA LeastFacts ==
  ASSUME NEW T \in SUBSET Nat, T # {}
  PROVE  LeastOf(T) \in T /\ \A j \in T : LeastOf(T) <= j
BY NatLeast DEF LeastOf

\* default_alloc_pages takes n adjacent free frames, and keeps the blocks.
LEMMA AllocFacts ==
  ASSUME NEW a, AreaOK(a), NEW n \in Nat, n > 0, CanAlloc(a, n)
  PROVE  LET r == AllocPages(a, n)
         IN  /\ AreaOK(r.area) /\ r.base \in Frame
             /\ r.base..r.base + n - 1 \subseteq Free(a)
             /\ Free(r.area) = Free(a) \ (r.base..r.base + n - 1)
<1>0. PICK s, p, F : s = a.list /\ p = a.property /\ F = Free(a)
  OBVIOUS
<1>1. /\ s \in Seq(Frame) /\ Sorted(s) /\ Len(s) \in Nat /\ DOMAIN s = 1..Len(s)
      /\ F = Elements(s) /\ F \subseteq Frame
      /\ \A j \in 1..Len(s) : s[j] \in Frame /\ s[j] \in F
      /\ p \in [Frame -> Nat] /\ Blocks(F, p) /\ a.nr_free = Len(s)
  BY <1>0, ElementFacts DEF AreaOK, Free
<1>2. PICK i \in 1..Len(s) : i = Found(a, n) /\ p[s[i]] >= n
  <2>1. Fits(a, n) \subseteq Nat /\ Fits(a, n) # {}
    BY <1>0, <1>1 DEF Fits, CanAlloc
  <2>2. Found(a, n) \in Fits(a, n)
    BY <2>1, LeastFacts DEF Found
  <2> QED  BY <2>2, <1>0, <1>1 DEF Fits
<1>3. PICK b \in F : b = s[i]
  BY <1>1
<1>4. b \in Nat /\ b \in Frame /\ NFrame \in Nat
  BY <1>1, FrameAssumption DEF Frame
<1>5. PICK m \in Nat : m = p[b] /\ m >= n
  BY <1>1, <1>2, <1>3, <1>4
<1>6. b..b + m - 1 \subseteq F
  <2>1. b - 1 \notin F
    BY <1>1, <1>5 DEF Blocks
  <2> QED  BY <2>1, <1>1, <1>5 DEF Blocks, Run
<1>7. \A x \in 0..m - 1 : i + x \in 1..Len(s) /\ s[i + x] = b + x
  BY <1>1, <1>3, <1>6, Consecutive
<1>8. i + n <= Len(s) + 1 /\ \A x \in 0..n - 1 : i + x \in 1..Len(s) /\ s[i + x] = b + x
  <2>1. n - 1 \in 0..m - 1 /\ \A x \in 0..n - 1 : x \in 0..m - 1
    BY <1>5
  <2>2. i + (n - 1) \in 1..Len(s)
    BY <2>1, <1>7
  <2> QED  BY <2>1, <2>2, <1>1, <1>7
<1> DEFINE q == Rest(a, n)
           l == SubSeq(s, 1, i - 1) \o SubSeq(s, i + n, Len(s))
<1>9. q = IF p[b] - n > 0 THEN [p EXCEPT ![b + n] = p[b] - n] ELSE p
  <2>1. CASE m - n > 0
    <3>1. n \in 0..m - 1
      BY <2>1
    <3>2. s[i + n] = b + n
      BY <3>1, <1>7
    <3> QED  BY <2>1, <3>2, <1>0, <1>2, <1>3, <1>5 DEF Rest
  <2>2. CASE ~(m - n > 0)
    BY <2>2, <1>0, <1>2, <1>3, <1>5 DEF Rest
  <2> QED  BY <2>1, <2>2
<1>10. /\ b..b + n - 1 \subseteq F
       /\ q \in [Frame -> Nat] /\ Blocks(F \ (b..b + n - 1), q)
  <2> HIDE DEF q
  <2>1. F \in SUBSET Frame /\ p \in [Frame -> Nat] /\ Blocks(F, p) /\ b \in F
    BY <1>1
  <2>2. n \in Nat /\ 0 < n /\ n <= p[b]
    BY <1>5
  <2>3. PICK u : u = q
    OBVIOUS
  <2>4. SplitAt(u, p, b, n)
    BY <2>3, <1>9 DEF SplitAt
  <2>5. BlocksWithout(u, F, b, n)
    BY <2>1, <2>2, <2>4, BlocksTaken
  <2> QED  BY <2>3, <2>5 DEF BlocksWithout
<1>11. /\ l \in Seq(Frame) /\ Len(l) = Len(s) - n
       /\ \A j \in 1..Len(s) - n : l[j] = IF j < i THEN s[j] ELSE s[j + n]
  <2>1. WithoutRun(l, Frame, s, i, n)
    <3>1. i \in 1..Len(s) + 1
      BY <1>1
    <3> QED  BY <3>1, <1>1, <1>8, CutFacts
  <2> QED  BY <2>1 DEF WithoutRun
<1>12. /\ AllocPages(a, n).base = b
       /\ AllocPages(a, n).area = [list |-> l, property |-> q, nr_free |-> Len(s) - n]
  BY <1>0, <1>1, <1>2, <1>3 DEF AllocPages
<1> HIDE DEF l, q
<1>13. ASSUME NEW j \in 1..Len(l)
       PROVE  \E k \in 1..Len(s) : /\ k = IF j < i THEN j ELSE j + n
                                   /\ l[j] = s[k] /\ (k < i \/ k >= i + n)
  <2>1. j \in 1..Len(s) - n /\ j \in Int /\ i \in Int
    BY <1>1, <1>11
  <2>2. CASE j < i
    <3>1. j \in 1..Len(s)
      BY <1>1, <2>1
    <3> QED  BY <2>1, <2>2, <3>1, <1>11
  <2>3. CASE ~(j < i)
    <3>1. j + n \in 1..Len(s) /\ j + n >= i + n
      BY <1>1, <2>1, <2>3
    <3> QED  BY <2>1, <2>3, <3>1, <1>11
  <2> QED  BY <2>2, <2>3
<1>14. Sorted(l)
  <2>1. ASSUME NEW j \in 1..Len(l), NEW h \in 1..Len(l), j < h
        PROVE  l[j] < l[h]
    <3>1. PICK x \in 1..Len(s) : x = (IF j < i THEN j ELSE j + n) /\ l[j] = s[x]
      BY <1>13
    <3>2. PICK y \in 1..Len(s) : y = (IF h < i THEN h ELSE h + n) /\ l[h] = s[y]
      BY <1>13
    <3>3. j \in Int /\ h \in Int /\ i \in Int
      BY <1>1, <1>11
    <3>4. x < y
      <4>1. CASE j < i /\ h < i
        BY <4>1, <2>1, <3>1, <3>2
      <4>2. CASE j < i /\ ~(h < i)
        BY <4>2, <2>1, <3>1, <3>2, <3>3
      <4>3. CASE ~(j < i)
        <5>1. ~(h < i)
          BY <4>3, <2>1, <3>3
        <5> QED  BY <4>3, <5>1, <2>1, <3>1, <3>2, <3>3
      <4> QED  BY <4>1, <4>2, <4>3
    <3>5. s[x] < s[y]
      BY <3>4, <1>1 DEF Sorted
    <3> QED  BY <3>1, <3>2, <3>5
  <2> QED  BY <2>1 DEF Sorted
<1>15. Elements(l) = F \ (b..b + n - 1)
  <2>1. ASSUME NEW j \in 1..Len(l)
        PROVE  l[j] \in F /\ l[j] \notin b..b + n - 1
    <3>1. PICK k \in 1..Len(s) : l[j] = s[k] /\ (k < i \/ k >= i + n)
      BY <1>13
    <3>2. PICK g \in Nat : g = s[k] /\ g \in F
      BY <1>1, FrameAssumption DEF Frame
    <3>3. CASE k < i
      <4>1. s[k] < s[i]
        BY <3>3, <1>1 DEF Sorted
      <4> QED  BY <3>1, <3>2, <4>1, <1>3, <1>4
    <3>4. CASE k >= i + n
      <4>1. PICK e \in 1..Len(s) : e = i + (n - 1) /\ s[e] = b + (n - 1)
        BY <1>8
      <4>3. e < k
        BY <3>4, <4>1, <1>1
      <4>2. s[e] < s[k]
        BY <4>3, <1>1 DEF Sorted
      <4> QED  BY <3>1, <3>2, <4>1, <4>2, <1>4
    <3> QED  BY <3>1, <3>3, <3>4
  <2>2. ASSUME NEW g \in F, g \notin b..b + n - 1
        PROVE  \E j \in 1..Len(l) : l[j] = g
    <3>1. PICK k \in 1..Len(s) : s[k] = g
      BY <1>1 DEF Elements
    <3>2. CASE k < i
      <4>1. k \in 1..Len(s) - n
        BY <3>2, <1>1, <1>8
      <4> QED  BY <3>1, <3>2, <4>1, <1>11
    <3>3. CASE k >= i + n
      <4>1. k - n \in 1..Len(s) - n /\ ~(k - n < i) /\ (k - n) + n = k
        BY <3>3, <1>1
      <4> QED  BY <3>1, <4>1, <1>11
    <3>4. CASE k >= i /\ k < i + n
      <4>1. k - i \in 0..n - 1 /\ i + (k - i) = k
        BY <3>4, <1>1
      <4>2. s[k] = b + (k - i)
        BY <4>1, <1>8
      <4> QED  BY <3>1, <4>1, <4>2, <2>2, <1>4
    <3> QED  BY <3>2, <3>3, <3>4, <1>1
  <2> QED  BY <2>1, <2>2 DEF Elements
<1>16. AreaOK([list |-> l, property |-> q, nr_free |-> Len(s) - n])
  BY <1>10, <1>11, <1>14, <1>15 DEF AreaOK, Free
<1>17. Free([list |-> l, property |-> q, nr_free |-> Len(s) - n]) = F \ (b..b + n - 1)
  BY <1>15 DEF Free
<1> QED  BY <1>0, <1>4, <1>10, <1>12, <1>16, <1>17

\* default_free_pages puts n adjacent frames back, and keeps the blocks.
LEMMA FreeFacts ==
  ASSUME NEW a, AreaOK(a), NEW base \in Frame, NEW n \in Nat, n > 0,
         base..base + n - 1 \subseteq Frame \ Free(a)
  PROVE  /\ AreaOK(FreePages(a, base, n))
         /\ Free(FreePages(a, base, n)) = Free(a) \cup (base..base + n - 1)
<1>0. PICK s, p, F : s = a.list /\ p = a.property /\ F = Free(a)
  OBVIOUS
<1> DEFINE G == F \cup (base..base + n - 1)
<1>1. /\ s \in Seq(Frame) /\ Sorted(s) /\ Len(s) \in Nat /\ DOMAIN s = 1..Len(s)
      /\ F = Elements(s) /\ F \subseteq Frame
      /\ \A j \in 1..Len(s) : s[j] \in Frame /\ s[j] \in F /\ s[j] \in Nat
      /\ p \in [Frame -> Nat] /\ Blocks(F, p) /\ a.nr_free = Len(s)
      /\ base \in Nat /\ NFrame \in Nat
  BY <1>0, ElementFacts, FrameAssumption DEF AreaOK, Free, Frame
<1> DEFINE T == {j \in DOMAIN s : s[j] > base} \cup {Len(s) + 1}
<1>2. PICK i \in 1..Len(s) + 1 : /\ i = Slot(a, base) /\ i \in T
                                 /\ \A j \in T : i <= j
  <2>1. Slot(a, base) = LeastOf(T)
    BY <1>0 DEF Slot
  <2>2. T \subseteq 1..Len(s) + 1 /\ 1..Len(s) + 1 \subseteq Nat /\ T # {}
    BY <1>1
  <2> HIDE DEF T
  <2>3. T \in SUBSET Nat
    BY <2>2
  <2>4. LeastOf(T) \in T /\ \A j \in T : LeastOf(T) <= j
    BY <2>2, <2>3, LeastFacts
  <2> QED  BY <2>1, <2>2, <2>4
<1>3. base..base + n - 1 \subseteq Frame \ F /\ \A j \in 1..Len(s) : s[j] \notin base..base + n - 1
  BY <1>0, <1>1
<1>4. ASSUME NEW j \in 1..Len(s), j < i
      PROVE  s[j] < base
  <2>1. j \notin T
    <3> HIDE DEF T
    <3>1. j \in Int /\ i \in Int
      BY <1>1
    <3> QED  BY <3>1, <1>2, <1>4
  <2>2. ~(s[j] > base)
    BY <2>1, <1>1
  <2>3. PICK g \in Nat : g = s[j]
    BY <1>1
  <2>4. g # base
    <3>1. base \in base..base + n - 1
      BY <1>1
    <3> QED  BY <3>1, <2>3, <1>3
  <2> QED  BY <2>2, <2>3, <2>4, <1>1
<1>5. ASSUME NEW j \in 1..Len(s), j >= i
      PROVE  s[j] >= base + n
  <2>1. i \in 1..Len(s)
    BY <1>1, <1>5
  <2>2. s[i] > base
    <3>1. i # Len(s) + 1
      BY <2>1, <1>1
    <3> QED  BY <3>1, <1>2
  <2>3. i = j \/ s[i] < s[j]
    <3>1. i = j \/ i < j
      BY <1>1, <1>5
    <3> QED  BY <2>1, <3>1, <1>1 DEF Sorted
  <2>4. PICK g \in Nat : g = s[j] /\ s[i] \in Nat
    BY <2>1, <1>1
  <2>5. g > base
    BY <2>2, <2>3, <2>4, <1>1
  <2>6. g \notin base..base + n - 1
    BY <2>4, <1>3
  <2> QED  BY <2>4, <2>5, <2>6, <1>1
<1>6. {s[j] : j \in 1..i - 1} = {f \in F : f < base}
  <2>1. ASSUME NEW j \in 1..i - 1
        PROVE  s[j] \in F /\ s[j] < base
    BY <1>1, <1>4
  <2>2. ASSUME NEW f \in F, f < base
        PROVE  \E j \in 1..i - 1 : s[j] = f
    <3>1. PICK j \in 1..Len(s) : s[j] = f
      BY <1>1 DEF Elements
    <3>2. ~(j >= i)
      BY <3>1, <2>2, <1>1, <1>5
    <3>3. j \in 1..i - 1
      BY <3>2, <1>1
    <3> QED  BY <3>1, <3>3
  <2> QED  BY <2>1, <2>2
<1> DEFINE r == GivenBack(p, base, n)
           q == WithNext(F, r, base, n)
           t == WithPrev(F, q, base)
<1>7. Inserted(a, base, n) = r
  BY <1>0 DEF Inserted, GivenBack
<1>8. q = IF i <= Len(s) THEN MergedNext(r, base, n, s[i]) ELSE r
  <2>1. CASE base + n \in F
    <3>1. PICK j \in 1..Len(s) : s[j] = base + n
      BY <2>1, <1>1 DEF Elements
    <3>2. j >= i
      <4> SUFFICES ASSUME j < i PROVE FALSE
        BY <1>1
      <4>1. s[j] < base
        BY <1>4
      <4> QED  BY <4>1, <3>1, <1>1
    <3>3. i \in 1..Len(s) /\ i <= Len(s)
      BY <3>2, <1>1
    <3>4. s[i] >= base + n /\ (i = j \/ s[i] < s[j])
      BY <3>2, <3>3, <1>1, <1>5 DEF Sorted
    <3>5. s[i] = base + n
      BY <3>1, <3>3, <3>4, <1>1
    <3> QED  BY <2>1, <3>3, <3>5 DEF WithNext
  <2>2. CASE base + n \notin F
    <3>1. i <= Len(s) => base + n # s[i]
      <4>1. i <= Len(s) => i \in 1..Len(s)
        BY <1>1
      <4> QED  BY <4>1, <2>2, <1>1
    <3> QED  BY <2>2, <3>1 DEF WithNext, MergedNext
  <2> QED  BY <2>1, <2>2
<1> DEFINE m == [x \in 1..n |-> base + x - 1]
           l == SubSeq(s, 1, i - 1) \o m \o SubSeq(s, i, Len(s))
<1>9. FreePages(a, base, n) = [list |-> l, property |-> t, nr_free |-> Len(s) + n]
  <2> HIDE DEF r, q, m
  <2>1. t = MergedPrev(q, base, {s[j] : j \in 1..i - 1})
    BY <1>6 DEF WithPrev
  <2> HIDE DEF t
  <2> USE DEF m
  <2> QED  BY <2>1, <1>0, <1>1, <1>2, <1>7, <1>8 DEF FreePages
<1>10. t \in [Frame -> Nat] /\ Blocks(G, t)
  <2> HIDE DEF r, q, t
  <2>1. /\ q \in [Frame -> Nat] /\ Run(G, base, q[base])
        /\ \A f \in G \ {base} :
             /\ f - 1 \in G => q[f] = 0
             /\ f - 1 \notin G => Run(F, f, p[f]) /\ q[f] = p[f]
        /\ \A f \in F : f < base => q[f] = p[f]
    <3>1. base..base + n - 1 \subseteq Frame \ F /\ r = GivenBack(p, base, n) /\ q = WithNext(F, r, base, n)
      BY <1>3 DEF r, q
    <3>2. F \in SUBSET Frame /\ p \in [Frame -> Nat] /\ Blocks(F, p) /\ base \in Frame /\ n \in Nat /\ 0 < n
      BY <1>1
    <3>3. PICK v, u : v = r /\ u = q
      OBVIOUS
    <3>4. PICK B : B = base..base + n - 1
      OBVIOUS
    <3>5. B \subseteq Frame \ F /\ v = GivenBack(p, base, n) /\ u = WithNext(F, v, base, n)
      BY <3>1, <3>3, <3>4
    <3>6. BlocksBut(u, F \cup B, F, p, base)
      BY <3>2, <3>4, <3>5, BlocksNext
    <3> QED  BY <3>3, <3>4, <3>6 DEF BlocksBut
  <2>2. /\ G \in SUBSET Frame /\ F \cup {base} \subseteq G /\ base \notin F
        /\ \A f \in G : f < base => f \in F
    <3>1. base \in base..base + n - 1 /\ base..base + n - 1 \subseteq Frame \ F
      BY <1>1, <1>3
    <3>2. \A f \in base..base + n - 1 : ~(f < base)
      BY <1>1
    <3> QED  BY <3>1, <3>2, <1>1
  <2>3. ASSUME NEW f \in G \ {base}, f - 1 \notin G
        PROVE  f + p[f] = base \/ f + p[f] \notin G
    <3>1. Run(F, f, p[f]) /\ f \in Nat /\ f \in Frame
      BY <2>1, <2>2, <2>3, FrameAssumption DEF Frame
    <3>2. PICK k \in Nat : k = p[f]
      BY <3>1, <1>1
    <3>3. k > 0 /\ f..f + k - 1 \subseteq F /\ f + k \notin F
      BY <3>1, <3>2 DEF Run
    <3>4. CASE f + k \in base..base + n - 1 /\ f + k # base
      <4>1. (f + k) - 1 \in base..base + n - 1 /\ (f + k) - 1 \in f..f + k - 1
        BY <3>1, <3>3, <3>4, <1>1
      <4>2. base..base + n - 1 \subseteq Frame \ F
        BY <1>3
      <4> QED  BY <4>1, <4>2, <3>3
    <3> QED  BY <3>2, <3>3, <3>4
  <2>4. t = WithPrev(F, q, base)
    BY DEF t
  <2> HIDE DEF G
  <2> QED  BY <1>1, <2>1, <2>2, <2>3, <2>4, BlocksPrev
<1>11. m \in Seq(Frame) /\ Len(m) = n /\ \A x \in 1..n : m[x] = base + x - 1
  <2>1. \A x \in 1..n : base + x - 1 \in base..base + n - 1
    BY <1>1
  <2>2. \A x \in 1..n : base + x - 1 \in Frame
    BY <2>1
  <2> QED  BY <2>2
<1> HIDE DEF m
<1>12. /\ l \in Seq(Frame) /\ Len(l) = Len(s) + n
       /\ \A j \in 1..Len(s) + n :
            l[j] = IF j < i THEN s[j] ELSE IF j < i + n THEN base + (j - i) ELSE s[j - n]
  <2>1. WithRun(l, Frame, s, i, m)
    BY <1>1, <1>11, SpliceFacts
  <2>2. ASSUME NEW j \in 1..Len(s) + n, ~(j < i), j < i + n
        PROVE  m[j - i + 1] = base + (j - i)
    <3>1. j - i + 1 \in 1..n
      BY <2>2, <1>1
    <3>2. m[j - i + 1] = base + (j - i + 1) - 1
      BY <3>1, <1>11
    <3> QED  BY <3>1, <3>2, <1>1
  <2>3. /\ l \in Seq(Frame) /\ Len(l) = Len(s) + n
        /\ \A j \in 1..Len(s) + n :
             l[j] = IF j < i THEN s[j] ELSE IF j < i + n THEN m[j - i + 1] ELSE s[j - n]
    BY <2>1, <1>11 DEF WithRun
  <2> QED  BY <2>2, <2>3
<1> HIDE DEF l
<1>13. ASSUME NEW j \in 1..Len(s) + n
       PROVE  \/ j < i /\ j \in 1..Len(s) /\ l[j] = s[j] /\ s[j] < base /\ s[j] \in Nat
              \/ j >= i /\ j < i + n /\ l[j] = base + (j - i)
              \/ /\ j >= i + n /\ j - n \in 1..Len(s) /\ l[j] = s[j - n]
                 /\ s[j - n] >= base + n /\ s[j - n] \in Nat
  <2>1. l[j] = IF j < i THEN s[j] ELSE IF j < i + n THEN base + (j - i) ELSE s[j - n]
    BY <1>12
  <2>2. j \in Int /\ i \in Int
    BY <1>1
  <2>3. CASE j < i
    <3>1. j \in 1..Len(s)
      BY <2>3, <1>1
    <3> QED  BY <2>1, <2>3, <3>1, <1>1, <1>4
  <2>4. CASE j >= i /\ j < i + n
    <3>1. ~(j < i)
      BY <2>2, <2>4
    <3> QED  BY <2>1, <2>4, <3>1
  <2>5. CASE j >= i + n
    <3>1. j - n \in 1..Len(s) /\ j - n >= i /\ ~(j < i) /\ ~(j < i + n)
      BY <2>2, <2>5, <1>1
    <3> QED  BY <2>1, <2>5, <3>1, <1>1, <1>5
  <2> QED  BY <2>2, <2>3, <2>4, <2>5
<1>14. Sorted(l)
  <2>1. ASSUME NEW j \in 1..Len(s) + n, NEW h \in 1..Len(s) + n, j < h
        PROVE  l[j] < l[h]
    <3>0. j \in Int /\ h \in Int /\ i \in Int
      BY <1>1
    <3>1. CASE h < i
      <4>1. /\ l[h] = s[h] /\ h \in 1..Len(s) /\ l[j] = s[j] /\ j \in 1..Len(s)
        BY <3>0, <3>1, <2>1, <1>13
      <4>2. s[j] < s[h]
        BY <4>1, <2>1, <1>1 DEF Sorted
      <4> QED  BY <4>1, <4>2
    <3>2. CASE j < i /\ ~(h < i)
      <4>1. l[j] < base /\ l[j] \in Nat
        BY <3>0, <3>2, <1>13
      <4>2. l[h] >= base /\ l[h] \in Int
        BY <3>0, <3>2, <1>13, <1>1
      <4> QED  BY <4>1, <4>2, <1>1
    <3>3. CASE j >= i /\ h < i + n
      <4>1. l[j] = base + (j - i) /\ l[h] = base + (h - i)
        BY <3>0, <3>3, <2>1, <1>13
      <4> QED  BY <4>1, <3>0, <2>1, <1>1
    <3>4. CASE j >= i /\ j < i + n /\ h >= i + n
      <4>1. l[j] = base + (j - i)
        BY <3>0, <3>4, <1>13
      <4>2. l[h] >= base + n /\ l[h] \in Nat
        BY <3>0, <3>4, <1>13
      <4> QED  BY <4>1, <4>2, <3>0, <3>4, <1>1
    <3>5. CASE j >= i + n
      <4>1. /\ l[j] = s[j - n] /\ j - n \in 1..Len(s)
            /\ l[h] = s[h - n] /\ h - n \in 1..Len(s)
        BY <3>0, <3>5, <2>1, <1>13
      <4>2. j - n < h - n
        BY <3>0, <2>1
      <4>3. s[j - n] < s[h - n]
        BY <4>1, <4>2, <1>1 DEF Sorted
      <4> QED  BY <4>1, <4>3
    <3> QED  BY <3>0, <3>1, <3>2, <3>3, <3>4, <3>5
  <2> QED  BY <2>1, <1>12 DEF Sorted
<1>15. Elements(l) = G
  <2>1. ASSUME NEW j \in 1..Len(s) + n
        PROVE  l[j] \in G
    <3>1. CASE l[j] = base + (j - i) /\ j >= i /\ j < i + n
      <4>1. base + (j - i) \in base..base + n - 1
        BY <3>1, <1>1
      <4> QED  BY <3>1, <4>1
    <3>2. CASE l[j] = s[j] /\ j \in 1..Len(s)
      BY <3>2, <1>1
    <3>3. CASE l[j] = s[j - n] /\ j - n \in 1..Len(s)
      BY <3>3, <1>1
    <3> QED  BY <3>1, <3>2, <3>3, <1>13
  <2>2. ASSUME NEW g \in F
        PROVE  \E j \in 1..Len(s) + n : l[j] = g
    <3>1. PICK k \in 1..Len(s) : s[k] = g
      BY <1>1 DEF Elements
    <3>2. CASE k < i
      <4>1. k \in 1..Len(s) + n
        BY <1>1
      <4> QED  BY <3>1, <3>2, <4>1, <1>12
    <3>3. CASE ~(k < i)
      <4>1. k + n \in 1..Len(s) + n /\ ~(k + n < i) /\ ~(k + n < i + n) /\ (k + n) - n = k
        BY <3>3, <1>1
      <4> QED  BY <3>1, <4>1, <1>12
    <3> QED  BY <3>2, <3>3
  <2>3. ASSUME NEW g \in base..base + n - 1
        PROVE  \E j \in 1..Len(s) + n : l[j] = g
    <3>1. /\ i + (g - base) \in 1..Len(s) + n /\ ~(i + (g - base) < i) /\ i + (g - base) < i + n
          /\ base + ((i + (g - base)) - i) = g
      BY <1>1
    <3> QED  BY <3>1, <1>12
  <2> QED  BY <2>1, <2>2, <2>3, <1>12 DEF Elements
<1>16. AreaOK([list |-> l, property |-> t, nr_free |-> Len(s) + n])
  <2> HIDE DEF t
  <2> QED  BY <1>10, <1>12, <1>14, <1>15 DEF AreaOK, Free
<1>17. Free([list |-> l, property |-> t, nr_free |-> Len(s) + n]) = G
  BY <1>15 DEF Free
<1> QED  BY <1>0, <1>9, <1>16, <1>17

-----------------------------------------------------------------------------
(* One page after the other. *)

\* s is what at most k calls of alloc_page make of an area whose free frames
\* are F.
Obtained(s, F, k) ==
  /\ AreaOK(s.area)
  /\ s.got \in Seq(Frame) /\ Len(s.got) <= k
  /\ \A i, j \in 1..Len(s.got) : s.got[i] = s.got[j] => i = j
  /\ Elements(s.got) \subseteq F
  /\ Free(s.area) = F \ Elements(s.got)

\* One more call of alloc_page.
LEMMA OneMoreFacts ==
  ASSUME NEW F, NEW k \in Nat, NEW s, Obtained(s, F, k)
  PROVE  Obtained(OneMore(s), F, k + 1)
<1>0. PICK a, g : a = s.area /\ g = s.got
  OBVIOUS
<1>1. /\ AreaOK(a) /\ g \in Seq(Frame) /\ Len(g) \in Nat /\ Len(g) <= k
      /\ \A i, j \in 1..Len(g) : g[i] = g[j] => i = j
      /\ \A i \in 1..Len(g) : g[i] \in Elements(g)
      /\ Elements(g) \subseteq F /\ Free(a) = F \ Elements(g)
  BY <1>0, ElementFacts DEF Obtained
<1>2. CASE ~CanAlloc(a, 1)
  <2>1. OneMore(s) = s /\ Len(g) <= k + 1
    BY <1>0, <1>1, <1>2 DEF OneMore
  <2> QED  BY <2>1, <1>0, <1>1 DEF Obtained
<1>3. CASE CanAlloc(a, 1)
  <2>1. PICK r : r = AllocPages(a, 1)
    OBVIOUS
  <2>2. PICK c, b : c = r.area /\ b = r.base
    OBVIOUS
  <2>3. AreaOK(c) /\ b \in Frame /\ b \in Free(a) /\ Free(c) = Free(a) \ {b}
    <3>1. /\ AreaOK(c) /\ b \in Frame /\ b..b + 1 - 1 \subseteq Free(a)
          /\ Free(c) = Free(a) \ (b..b + 1 - 1)
      BY <1>1, <1>3, <2>1, <2>2, AllocFacts
    <3>2. b..b + 1 - 1 = {b}
      BY <3>1, FrameAssumption DEF Frame
    <3> QED  BY <3>1, <3>2
  <2> DEFINE h == Append(g, b)
  <2>4. /\ h \in Seq(Frame) /\ Len(h) = Len(g) + 1
        /\ \A i \in 1..Len(g) : h[i] = g[i]
        /\ h[Len(g) + 1] = b
    BY <1>1, <2>3, AppendProperties
  <2>5. OneMore(s) = [area |-> c, got |-> h]
    BY <1>0, <1>3, <2>1, <2>2 DEF OneMore
  <2> HIDE DEF h
  <2>6. \A i \in 1..Len(h) : i = Len(g) + 1 \/ i \in 1..Len(g)
    BY <1>1, <2>4
  <2>7. Elements(h) = Elements(g) \cup {b}
    <3>1. Elements(h) \subseteq Elements(g) \cup {b}
      BY <1>1, <2>4, <2>6 DEF Elements
    <3>2. Len(g) + 1 \in 1..Len(h) /\ \A i \in 1..Len(g) : i \in 1..Len(h)
      BY <1>1, <2>4
    <3> QED  BY <3>1, <3>2, <2>4 DEF Elements
  <2>8. \A i, j \in 1..Len(h) : h[i] = h[j] => i = j
    <3>1. \A i \in 1..Len(g) : g[i] # b
      BY <1>1, <2>3
    <3> QED  BY <3>1, <2>4, <2>6, <1>1
  <2>9. Len(h) <= k + 1
    BY <1>1, <2>4
  <2> QED  BY <1>1, <2>3, <2>4, <2>5, <2>7, <2>8, <2>9 DEF Obtained
<1> QED  BY <1>2, <1>3

AllocRun(v, a, n) ==
  v = [k \in 0..n |-> IF k = 0 THEN [area |-> a, got |-> <<>>] ELSE OneMore(v[k - 1])]

\* The recursive function of AllocEach exists.
LEMMA AllocRuns ==
  ASSUME NEW a, NEW n \in Nat
  PROVE  \E v : AllocRun(v, a, n)
<1> DEFINE T == {m \in Nat : ~\E v : AllocRun(v, a, m)}
<1> SUFFICES ASSUME T # {} PROVE FALSE
  OBVIOUS
<1>1. PICK m \in T : \A i \in T : m <= i
  BY NatLeast
<1>2. m # 0
  <2>1. AllocRun([i \in 0..0 |-> [area |-> a, got |-> <<>>]], a, 0)
    BY DEF AllocRun
  <2> QED  BY <2>1
<1>3. m - 1 \in Nat /\ m - 1 \notin T
  BY <1>1, <1>2
<1>4. PICK v : AllocRun(v, a, m - 1)
  BY <1>3
<1> DEFINE w == [i \in 0..m |-> IF i = 0 THEN [area |-> a, got |-> <<>>] ELSE OneMore(v[i - 1])]
<1>5. \A i \in 0..m - 1 : w[i] = v[i]
  <2>1. \A i \in 0..m - 1 :
          v[i] = IF i = 0 THEN [area |-> a, got |-> <<>>] ELSE OneMore(v[i - 1])
    BY <1>4 DEF AllocRun
  <2>2. \A i \in 0..m - 1 : i \in 0..m
    BY <1>3
  <2> QED  BY <2>1, <2>2
<1>6. \A i \in 0..m : i # 0 => i - 1 \in 0..m - 1
  BY <1>3
<1>7. \A i \in 0..m : i # 0 => w[i - 1] = v[i - 1]
  BY <1>5, <1>6
<1>8. AllocRun(w, a, m)
  BY <1>7 DEF AllocRun
<1> QED  BY <1>8, <1>1

\* alloc_page called n times gives at most n frames, each once.
LEMMA AllocEachFacts ==
  ASSUME NEW a, AreaOK(a), NEW n \in Nat
  PROVE  Obtained(AllocEach(a, n), Free(a), n)
<1> DEFINE v == CHOOSE u : AllocRun(u, a, n)
<1>1. AllocEach(a, n) = v[n]
  BY DEF AllocEach, AllocRun
<1>2. AllocRun(v, a, n)
  <2>1. \E u : AllocRun(u, a, n)
    BY AllocRuns
  <2> QED  BY <2>1
<1> HIDE DEF v
<1>3. /\ v[0] = [area |-> a, got |-> <<>>]
      /\ \A k \in 1..n : v[k] = OneMore(v[k - 1])
  <2>1. \A k \in 0..n : v[k] = IF k = 0 THEN [area |-> a, got |-> <<>>] ELSE OneMore(v[k - 1])
    BY <1>2 DEF AllocRun
  <2>2. 0 \in 0..n /\ \A k \in 1..n : k \in 0..n /\ k # 0
    OBVIOUS
  <2> QED  BY <2>1, <2>2
<1> DEFINE T == {k \in Nat : k <= n /\ ~Obtained(v[k], Free(a), k)}
<1>4. 0 \notin T
  <2>1. <<>> \in Seq(Frame) /\ Len(<<>>) = 0 /\ Elements(<<>>) = {}
    BY EmptySeq DEF Elements
  <2>2. PICK e : e = <<>>
    OBVIOUS
  <2>3. e \in Seq(Frame) /\ Len(e) = 0 /\ Elements(e) = {} /\ \A i \in 1..Len(e) : FALSE
    BY <2>1, <2>2
  <2>4. v[0].area = a /\ v[0].got = e
    BY <2>2, <1>3
  <2>5. \A i, j \in 1..Len(e) : e[i] = e[j] => i = j
    BY <2>3
  <2>6. Obtained(v[0], Free(a), 0)
    BY <2>3, <2>4, <2>5 DEF Obtained
  <2> QED  BY <2>6
<1>5. T = {}
  <2> SUFFICES ASSUME T # {} PROVE FALSE
    OBVIOUS
  <2>1. PICK k \in T : \A j \in T : k <= j
    BY NatLeast
  <2>2. k # 0
    BY <1>4
  <2>3. PICK j \in Nat : j = k - 1 /\ j \notin T /\ k \in 1..n /\ j <= n /\ k = j + 1
    BY <2>1, <2>2
  <2>4. Obtained(v[j], Free(a), j)
    BY <2>3
  <2>5. Obtained(OneMore(v[j]), Free(a), j + 1)
    BY <2>3, <2>4, OneMoreFacts
  <2>6. v[k] = OneMore(v[j])
    BY <2>3, <1>3
  <2> QED  BY <2>3, <2>5, <2>6
<1>6. n \notin T /\ n <= n
  BY <1>5
<1> QED  BY <1>1, <1>6

FreeRun(v, a, fs, n) ==
  v = [k \in 0..n |-> IF k = 0 THEN a ELSE FreePages(v[k - 1], fs[k], 1)]

\* The recursive function of FreeEach exists.
LEMMA FreeRuns ==
  ASSUME NEW a, NEW fs, NEW n \in Nat
  PROVE  \E v : FreeRun(v, a, fs, n)
<1> DEFINE T == {m \in Nat : ~\E v : FreeRun(v, a, fs, m)}
<1> SUFFICES ASSUME T # {} PROVE FALSE
  OBVIOUS
<1>1. PICK m \in T : \A i \in T : m <= i
  BY NatLeast
<1>2. m # 0
  <2>1. FreeRun([i \in 0..0 |-> a], a, fs, 0)
    BY DEF FreeRun
  <2> QED  BY <2>1
<1>3. m - 1 \in Nat /\ m - 1 \notin T
  BY <1>1, <1>2
<1>4. PICK v : FreeRun(v, a, fs, m - 1)
  BY <1>3
<1> DEFINE w == [i \in 0..m |-> IF i = 0 THEN a ELSE FreePages(v[i - 1], fs[i], 1)]
<1>5. \A i \in 0..m - 1 : w[i] = v[i]
  <2>1. \A i \in 0..m - 1 : v[i] = IF i = 0 THEN a ELSE FreePages(v[i - 1], fs[i], 1)
    BY <1>4 DEF FreeRun
  <2>2. \A i \in 0..m - 1 : i \in 0..m
    BY <1>3
  <2> QED  BY <2>1, <2>2
<1>6. \A i \in 0..m : i # 0 => i - 1 \in 0..m - 1
  BY <1>3
<1>7. \A i \in 0..m : i # 0 => w[i - 1] = v[i - 1]
  BY <1>5, <1>6
<1>8. FreeRun(w, a, fs, m)
  BY <1>7 DEF FreeRun
<1> QED  BY <1>8, <1>1

\* Frames that are not free, each of them once, go back one after the other.
LEMMA FreeEachFacts ==
  ASSUME NEW a, AreaOK(a), NEW fs \in Seq(Frame),
         \A i, j \in 1..Len(fs) : fs[i] = fs[j] => i = j,
         Elements(fs) \cap Free(a) = {}
  PROVE  AreaOK(FreeEach(a, fs)) /\ Free(FreeEach(a, fs)) = Free(a) \cup Elements(fs)
<1>0. PICK n \in Nat : n = Len(fs) /\ \A i \in 1..n : fs[i] \in Frame /\ fs[i] \in Elements(fs)
  BY ElementFacts
<1> DEFINE v == CHOOSE u : FreeRun(u, a, fs, Len(fs))
<1>1. FreeEach(a, fs) = v[Len(fs)]
  BY DEF FreeEach, FreeRun
<1>2. FreeRun(v, a, fs, n)
  <2>1. \E u : FreeRun(u, a, fs, n)
    BY FreeRuns
  <2> QED  BY <2>1, <1>0
<1> HIDE DEF v
<1>3. v[0] = a /\ \A k \in 1..n : v[k] = FreePages(v[k - 1], fs[k], 1)
  <2>1. \A k \in 0..n : v[k] = IF k = 0 THEN a ELSE FreePages(v[k - 1], fs[k], 1)
    BY <1>2 DEF FreeRun
  <2>2. 0 \in 0..n /\ \A k \in 1..n : k \in 0..n /\ k # 0
    OBVIOUS
  <2> QED  BY <2>1, <2>2
<1> DEFINE First(k) == {fs[i] : i \in 1..k}
           Good(k) == AreaOK(v[k]) /\ Free(v[k]) = Free(a) \cup First(k)
           T == {k \in Nat : k <= n /\ ~Good(k)}
<1>4. Good(0)
  <2>1. First(0) = {}
    OBVIOUS
  <2> QED  BY <2>1, <1>3
<1>5. T = {}
  <2> SUFFICES ASSUME T # {} PROVE FALSE
    OBVIOUS
  <2>1. PICK k \in T : \A j \in T : k <= j
    BY NatLeast
  <2>2. k # 0
    BY <1>4
  <2>3. PICK j \in Nat : j = k - 1 /\ j \notin T /\ k \in 1..n /\ j <= n /\ k = j + 1
    BY <2>1, <2>2
  <2>4. Good(j)
    BY <2>3
  <2>5. PICK c, f : c = v[j] /\ f = fs[k]
    OBVIOUS
  <2>6. f \in Frame /\ f \in Elements(fs) /\ f \notin Free(a) /\ f \notin First(j)
    <3>1. f \in Frame /\ f \in Elements(fs)
      BY <1>0, <2>3, <2>5
    <3>2. ASSUME NEW i \in 1..j PROVE fs[i] # f
      <4>1. i \in 1..Len(fs) /\ k \in 1..Len(fs) /\ i # k
        BY <2>3, <1>0
      <4> QED  BY <4>1, <2>5
    <3> QED  BY <3>1, <3>2
  <2>7. f..f + 1 - 1 = {f}
    BY <2>6, FrameAssumption DEF Frame
  <2>8. AreaOK(c) /\ f..f + 1 - 1 \subseteq Frame \ Free(c)
    BY <2>4, <2>5, <2>6, <2>7
  <2>9. AreaOK(FreePages(c, f, 1)) /\ Free(FreePages(c, f, 1)) = Free(c) \cup (f..f + 1 - 1)
    BY <2>6, <2>8, FreeFacts
  <2>10. First(k) = First(j) \cup {f}
    <3>1. \A i : i \in 1..k <=> i \in 1..j \/ i = k
      BY <2>3
    <3> QED  BY <3>1, <2>5
  <2>11. v[k] = FreePages(c, f, 1)
    BY <2>3, <2>5, <1>3
  <2>12. Good(k)
    <3> HIDE DEF First
    <3> QED  BY <2>4, <2>5, <2>7, <2>9, <2>10, <2>11
  <2> QED  BY <2>1, <2>12
<1>6. n \notin T /\ n <= n
  BY <1>5
<1>7. First(n) = Elements(fs)
  BY <1>0 DEF Elements
<1>8. Good(n)
  BY <1>6
<1> QED  BY <1>0, <1>1, <1>7, <1>8

-----------------------------------------------------------------------------
(* Who owns which frames. *)

Apart(p) ==
  /\ Stack(p) \cap mm[p] = {} /\ files[p] \notin Stack(p) \cup mm[p]
  /\ Held(buffer[p]) \cap (Stack(p) \cup mm[p] \cup {files[p]}) = {}

OwnTypes ==
  /\ kstack \in [Proc -> Frame \cup {NoFrame}]
  /\ mm \in [Proc -> SUBSET Frame]
  /\ files \in [Proc -> Frame \cup {NoFrame}]
  /\ buffer \in [Proc -> Frame \cup {NoFrame}]

\* Every frame is free or has one place in one process.
OwnInv ==
  /\ AreaOK(area) /\ OwnTypes
  /\ \A p \in Proc : Stack(p) \subseteq Frame /\ Apart(p)
  /\ \A p, q \in Proc : p # q => Owned(p) \cap Owned(q) = {}
  /\ Free(area) = Unowned

\* A process has a stack until it is reaped, and a files_struct until it exits;
\* it exits in no read.
HoldInv ==
  /\ \A p \in Proc \ Used :
       kstack[p] = NoFrame /\ mm[p] = {} /\ files[p] = NoFrame /\ buffer[p] = NoFrame
  /\ \A p \in zombies : mm[p] = {} /\ files[p] = NoFrame /\ buffer[p] = NoFrame
  /\ \A p \in Used \ {initproc} : kstack[p] # NoFrame
  /\ \A p \in (Used \ zombies) \ {initproc} : files[p] # NoFrame

\* What q has is left alone.
Untouched(q) ==
  kstack'[q] = kstack[q] /\ mm'[q] = mm[q] /\ files'[q] = files[q] /\ buffer'[q] = buffer[q]

\* Sets of frames are finite.
LEMMA FramesFinite ==
  /\ IsFiniteSet(Frame) /\ Cardinality(Frame) = NFrame /\ NoFrame \notin Frame
  /\ \A S \in SUBSET Frame : IsFiniteSet(S) /\ Cardinality(S) \in Nat
<1>1. IsFiniteSet(Frame) /\ Cardinality(Frame) = NFrame
  BY FS_Interval, FrameAssumption DEF Frame
<1>2. ASSUME NEW S \in SUBSET Frame PROVE IsFiniteSet(S) /\ Cardinality(S) \in Nat
  <2>1. IsFiniteSet(S)
    BY <1>1, FS_Subset
  <2> QED  BY <2>1, FS_CardinalityType
<1> QED  BY <1>1, <1>2, FrameAssumption DEF Frame, NoFrame

\* Frames change hands between the free list and one process.
LEMMA OwnMoved ==
  ASSUME OwnInv, NEW p \in Proc, AreaOK(area'), OwnTypes',
         \A q \in Proc \ {p} : Untouched(q),
         Stack(p)' \subseteq Frame, Apart(p)',
         Owned(p)' \cap Free(area') = {},
         Owned(p)' \cup Free(area') = Owned(p) \cup Free(area)
  PROVE  OwnInv'
<1>1. \A q \in Proc \ {p} : Stack(q)' = Stack(q) /\ Owned(q)' = Owned(q)
  BY DEF Stack, Owned, Untouched
<1>2. \A q \in Proc \ {p} : Stack(q)' \subseteq Frame /\ Apart(q)'
  BY <1>1 DEF OwnInv, Apart, Untouched
<1>3. \A q \in Proc \ {p} : Owned(q) \cap (Owned(p) \cup Free(area)) = {}
  BY DEF OwnInv, Unowned
<1>4. \A q \in Proc \ {p} : Owned(q)' \cap Owned(p)' = {} /\ Owned(q)' \cap Free(area') = {}
  BY <1>1, <1>3
<1>5. ASSUME NEW q \in Proc, NEW r \in Proc, q # r
      PROVE  Owned(q)' \cap Owned(r)' = {}
  <2>1. CASE q # p /\ r # p
    BY <2>1, <1>1, <1>5 DEF OwnInv
  <2> QED  BY <2>1, <1>4, <1>5
<1>6. Free(area') = Unowned'
  <2>1. Free(area') \subseteq Frame
    BY ElementFacts DEF AreaOK, Free
  <2>2. ASSUME NEW f \in Free(area')
        PROVE  f \in Unowned'
    <3>1. f \in Frame /\ \A q \in Proc : f \notin Owned(q)'
      BY <2>1, <2>2, <1>4
    <3> QED  BY <3>1 DEF Unowned
  <2>3. ASSUME NEW f \in Unowned'
        PROVE  f \in Free(area')
    <3>1. f \in Frame /\ \A q \in Proc : f \notin Owned(q)'
      BY <2>3 DEF Unowned
    <3>2. CASE f \in Owned(p)
      BY <3>1, <3>2
    <3>3. CASE f \notin Owned(p)
      <4>1. \A q \in Proc : f \notin Owned(q)
        BY <3>1, <3>3, <1>1
      <4>2. f \in Free(area)
        BY <3>1, <4>1 DEF OwnInv, Unowned
      <4> QED  BY <3>1, <4>2
    <3> QED  BY <3>2, <3>3
  <2> QED  BY <2>2, <2>3
<1>7. (Free(area) = Unowned)'
  BY <1>6
<1>8. \A q \in Proc : Stack(q)' \subseteq Frame /\ Apart(q)'
  BY <1>2
<1> QED  BY <1>5, <1>7, <1>8 DEF OwnInv

\* exit_mmap gives each frame back once, in some order.
LEMMA OrderFacts ==
  ASSUME NEW S \in SUBSET Frame, NEW order \in SetToSeqs(S)
  PROVE  /\ order \in Seq(Frame) /\ Elements(order) = S
         /\ \A i, j \in 1..Len(order) : order[i] = order[j] => i = j
<1>1. PICK n \in Nat : n = Cardinality(S) /\ IsFiniteSet(S)
  BY FramesFinite
<1>2. order \in [1..n -> S] /\ \A i, j \in 1..n : i # j => order[i] # order[j]
  BY <1>1 DEF SetToSeqs
<1>3. order \in Seq(Frame) /\ Len(order) = n
  <2>1. order \in [1..n -> Frame]
    BY <1>2
  <2> QED  BY <2>1
<1>4. order \in Surjection(1..n, S)
  <2>1. order \in Injection(1..n, S)
    BY <1>2 DEF Injection, IsInjective
  <2>2. IsFiniteSet(1..n) /\ Cardinality(1..n) = n
    BY FS_Interval
  <2> QED  BY <2>1, <2>2, <1>1, FS_Injection
<1>5. Elements(order) = S
  BY <1>2, <1>3, <1>4 DEF Surjection, Elements
<1> QED  BY <1>2, <1>3, <1>5

\* At boot every frame is free, in one block.
LEMMA OwnInit == Init => OwnInv /\ HoldInv
<1> SUFFICES ASSUME Init PROVE OwnInv /\ HoldInv
  OBVIOUS
<1>1. NFrame \in Nat /\ NFrame > 0 /\ Frame = 1..NFrame
  BY FrameAssumption DEF Frame
<1> DEFINE l == [i \in Frame |-> i]
           p == [f \in Frame |-> IF f = 1 THEN NFrame ELSE 0]
<1>2. l \in Seq(Frame) /\ Len(l) = NFrame /\ \A i \in 1..NFrame : l[i] = i
  BY <1>1
<1>3. p \in [Frame -> Nat] /\ p[1] = NFrame /\ \A f \in Frame : f # 1 => p[f] = 0
  BY <1>1
<1>4. area = [list |-> l, property |-> p, nr_free |-> NFrame]
  BY DEF Init, AreaInit
<1> HIDE DEF l, p
<1>5. Sorted(l) /\ Elements(l) = Frame
  BY <1>1, <1>2 DEF Sorted, Elements
<1>6. Blocks(Frame, p)
  <2>1. ASSUME NEW f \in Frame, f - 1 \in Frame PROVE p[f] = 0
    BY <2>1, <1>1, <1>3
  <2>2. ASSUME NEW f \in Frame, f - 1 \notin Frame PROVE Run(Frame, f, p[f])
    <3>1. f = 1
      BY <2>2, <1>1
    <3>2. Run(Frame, 1, NFrame)
      BY <1>1 DEF Run
    <3> QED  BY <3>1, <3>2, <1>3
  <2> QED  BY <2>1, <2>2 DEF Blocks
<1>7. AreaOK(area) /\ Free(area) = Frame
  BY <1>1, <1>2, <1>3, <1>4, <1>5, <1>6 DEF AreaOK, Free
<1>8. /\ kstack \in [Proc -> {NoFrame}] /\ mm \in [Proc -> {{}}] /\ files \in [Proc -> {NoFrame}]
      /\ buffer \in [Proc -> {NoFrame}]
      /\ \A q \in Proc : kstack[q] = NoFrame /\ mm[q] = {} /\ files[q] = NoFrame /\ buffer[q] = NoFrame
  BY DEF Init
<1>9. \A q \in Proc : Stack(q) = {} /\ Owned(q) = {} /\ Apart(q)
  BY <1>8 DEF Stack, Owned, Apart, Held
<1>10. Unowned = Frame
  BY <1>9 DEF Unowned
<1>11. OwnInv
  BY <1>7, <1>8, <1>9, <1>10 DEF OwnInv, OwnTypes
<1>12. Used = {initproc} /\ zombies = {}
  <2>1. proc_list = <<initproc>> /\ DOMAIN proc_list = {1} /\ proc_list[1] = initproc
    BY DEF Init
  <2> QED  BY <2>1 DEF Used, Range, Init
<1>13. HoldInv
  BY <1>8, <1>12 DEF HoldInv
<1> QED  BY <1>11, <1>13

\* A fork takes a stack, the frames of a copy and a files_struct from the free list.
LEMMA OwnFork ==
  ASSUME PidInv, OwnInv, HoldInv, NEW p \in Proc \cup {initproc}, NEW c \in Proc, Fork(p, c)
  PROVE  OwnInv' /\ HoldInv'
<1> DEFINE F == Free(area)
           a == Copied(p)
           k == SizeOf(p)
<1>1. /\ MayFork(p) /\ c \notin Used /\ Len(a.got) = k + 1
      /\ area' = a.area
      /\ kstack' = [kstack EXCEPT ![c] = StackOf.base]
      /\ mm' = [mm EXCEPT ![c] = Range(SubSeq(a.got, 1, k))]
      /\ files' = [files EXCEPT ![c] = a.got[k + 1]]
      /\ zombies' = zombies /\ buffer' = buffer
  BY DEF Fork
<1>2. Used' = Used \cup {c} /\ zombies \subseteq Used
  BY PidsFork DEF PidInv
<1>3. /\ kstack[c] = NoFrame /\ mm[c] = {} /\ files[c] = NoFrame /\ Owned(c) = {}
      /\ buffer[c] = NoFrame
  BY <1>1 DEF HoldInv, Owned, Stack, Held
<1>4. k \in Nat
  <2>1. CASE p = initproc
    BY <2>1 DEF SizeOf
  <2>2. CASE p # initproc
    BY <2>2, FramesFinite DEF SizeOf, OwnInv, OwnTypes
  <2> QED  BY <2>1, <2>2
<1>5. PICK b, e : b = StackOf.base /\ e = StackOf.area
  OBVIOUS
<1> DEFINE B == b..b + KSTACKPAGE - 1
<1>6. /\ AreaOK(e) /\ b \in Frame /\ B \subseteq F /\ Free(e) = F \ B
  <2>1. AreaOK(area) /\ KSTACKPAGE \in Nat /\ KSTACKPAGE > 0 /\ CanAlloc(area, KSTACKPAGE)
    BY <1>1, ForkAssumption DEF OwnInv, MayFork
  <2> QED  BY <2>1, <1>5, AllocFacts DEF StackOf
<1>7. PICK d, g : d = a.area /\ g = a.got
  OBVIOUS
<1>8. /\ AreaOK(d) /\ g \in Seq(Frame) /\ Len(g) = k + 1
      /\ \A i, j \in 1..k + 1 : g[i] = g[j] => i = j
      /\ Elements(g) \subseteq F \ B /\ Free(d) = (F \ B) \ Elements(g)
  <2>1. Obtained(a, Free(e), k + 1)
    <3>1. PICK m \in Nat : m = k + 1
      BY <1>4
    <3>2. a = AllocEach(e, m)
      BY <1>5, <3>1 DEF Copied
    <3>3. Obtained(AllocEach(e, m), Free(e), m)
      BY <1>6, AllocEachFacts
    <3> QED  BY <3>1, <3>2, <3>3
  <2> QED  BY <2>1, <1>1, <1>6, <1>7 DEF Obtained
<1>9. \A i \in 1..k + 1 : g[i] \in Frame /\ g[i] \in Elements(g)
  BY <1>8, ElementFacts
<1> DEFINE M == Range(SubSeq(g, 1, k))
<1>10. M = {g[i] : i \in 1..k}
  <2>1. PICK h \in 1..Len(g) + 1 : h = k + 1 /\ h - 1 = k
    BY <1>4, <1>8
  <2>2. /\ SubSeq(g, 1, h - 1) \in Seq(Frame) /\ Len(SubSeq(g, 1, h - 1)) = h - 1
        /\ \A j \in 1..h - 1 : SubSeq(g, 1, h - 1)[j] = g[j]
    BY <1>8, SubSeqFacts
  <2>3. DOMAIN SubSeq(g, 1, k) = 1..k /\ \A j \in 1..k : SubSeq(g, 1, k)[j] = g[j]
    BY <2>1, <2>2, LenProperties
  <2> QED  BY <2>3 DEF Range
<1>11. PICK f : f = g[k + 1]
  OBVIOUS
<1>12. /\ f \in Frame /\ f \notin M /\ M \subseteq Frame /\ M \cup {f} = Elements(g)
       /\ M \cap B = {} /\ f \notin B /\ f # NoFrame /\ b # NoFrame
  <2>1. k + 1 \in 1..k + 1 /\ \A i \in 1..k : i \in 1..k + 1 /\ i # k + 1
    BY <1>4
  <2>2. f \in Frame /\ f \in Elements(g) /\ M \subseteq Frame /\ M \subseteq Elements(g)
    BY <2>1, <1>9, <1>10, <1>11
  <2>3. f \notin M
    BY <2>1, <1>8, <1>10, <1>11
  <2>4. Elements(g) \subseteq M \cup {f}
    <3>1. \A i \in 1..k + 1 : i \in 1..k \/ i = k + 1
      BY <1>4
    <3> QED  BY <3>1, <1>8, <1>10, <1>11 DEF Elements
  <2> QED  BY <2>2, <2>3, <2>4, <1>6, <1>8, FramesFinite
<1> HIDE DEF M, B, F, a, k
<1>13. /\ area' = d
       /\ kstack' = [kstack EXCEPT ![c] = b]
       /\ mm' = [mm EXCEPT ![c] = M]
       /\ files' = [files EXCEPT ![c] = f]
  BY <1>1, <1>5, <1>7, <1>11 DEF M
<1>14. /\ OwnTypes'
       /\ kstack'[c] = b /\ mm'[c] = M /\ files'[c] = f /\ buffer'[c] = NoFrame
       /\ \A q \in Proc \ {c} : Untouched(q)
  BY <1>1, <1>3, <1>6, <1>12, <1>13 DEF OwnInv, OwnTypes, Untouched
<1>15. Stack(c)' = B /\ Held(files[c])' = {f} /\ Held(buffer[c])' = {} /\ Owned(c)' = B \cup M \cup {f}
  BY <1>12, <1>14 DEF Stack, Owned, Held, B
<1>16. B \subseteq Frame /\ B \subseteq F
  BY <1>6, ElementFacts DEF OwnInv, Unowned, F, B
<1>17. Apart(c)'
  BY <1>12, <1>14, <1>15 DEF Apart
<1>18. OwnInv'
  <2>1. Stack(c)' \subseteq Frame /\ AreaOK(area')
    BY <1>8, <1>13, <1>15, <1>16
  <2>2. /\ Owned(c)' \cap Free(area') = {}
        /\ Owned(c)' \cup Free(area') = Owned(c) \cup Free(area)
    BY <1>3, <1>8, <1>12, <1>13, <1>15, <1>16 DEF F
  <2> QED  BY <2>1, <2>2, <1>14, <1>17, OwnMoved
<1>19. HoldInv'
  <2>1. zombies' = zombies /\ c \notin zombies
    BY <1>1, <1>2
  <2>2. Used \subseteq Proc \cup {initproc}
    BY UsedFacts
  <2>3. \A q \in Proc \ Used' :
          kstack'[q] = NoFrame /\ mm'[q] = {} /\ files'[q] = NoFrame /\ buffer'[q] = NoFrame
    BY <1>2, <1>14 DEF HoldInv, Untouched
  <2>4. \A q \in zombies' : mm'[q] = {} /\ files'[q] = NoFrame /\ buffer'[q] = NoFrame
    <3>1. zombies \subseteq Proc
      BY <2>2 DEF PidInv
    <3> QED  BY <3>1, <2>1, <1>14 DEF HoldInv, Untouched
  <2>5. \A q \in Used' \ {initproc} : kstack'[q] # NoFrame
    BY <2>2, <1>2, <1>12, <1>14 DEF HoldInv, Untouched
  <2>6. \A q \in (Used' \ zombies') \ {initproc} : files'[q] # NoFrame
    BY <2>1, <2>2, <1>2, <1>12, <1>14 DEF HoldInv, Untouched
  <2> QED  BY <2>3, <2>4, <2>5, <2>6 DEF HoldInv
<1> QED  BY <1>18, <1>19

\* The frames of an address space freed, in any order.
LEMMA FreedFacts ==
  ASSUME NEW a, AreaOK(a), NEW S \in SUBSET Frame, S \cap Free(a) = {},
         NEW e \in Freed(a, S)
  PROVE  AreaOK(e) /\ Free(e) = Free(a) \cup S
<1>1. PICK order \in SetToSeqs(S) : e = FreeEach(a, order)
  BY DEF Freed
<1> QED  BY <1>1, OrderFacts, FreeEachFacts

\* The two ways to write the elements of a list of frames.
LEMMA RangeElements ==
  ASSUME NEW s \in Seq(Frame)
  PROVE  Range(s) = Elements(s)
BY ElementFacts DEF Range, Elements

\* A list of frames backwards.
LEMMA ReverseFacts ==
  ASSUME NEW s \in Seq(Frame), \A i, j \in 1..Len(s) : s[i] = s[j] => i = j
  PROVE  /\ Reverse(s) \in Seq(Frame) /\ Elements(Reverse(s)) = Elements(s)
         /\ \A i, j \in 1..Len(Reverse(s)) : Reverse(s)[i] = Reverse(s)[j] => i = j
<1>1. PICK n \in Nat : n = Len(s) /\ \A i \in 1..n : s[i] \in Frame
  BY ElementFacts
<1>2. PICK r : r = Reverse(s)
  OBVIOUS
<1>3. r = [i \in 1..n |-> s[(n - i) + 1]]
  BY <1>1, <1>2 DEF Reverse
<1>4. \A i \in 1..n : (n - i) + 1 \in 1..n /\ (n - ((n - i) + 1)) + 1 = i
  BY <1>1
<1>5. r \in Seq(Frame) /\ Len(r) = n /\ \A i \in 1..n : r[i] = s[(n - i) + 1]
  <2>1. r \in [1..n -> Frame]
    BY <1>1, <1>3, <1>4
  <2> QED  BY <2>1, <1>3, <1>1
<1>6. Elements(r) = Elements(s)
  <2>1. ASSUME NEW i \in 1..n PROVE r[i] \in Elements(s)
    <3>1. (n - i) + 1 \in 1..Len(s) /\ r[i] = s[(n - i) + 1]
      BY <1>1, <1>4, <1>5
    <3> QED  BY <3>1 DEF Elements
  <2>2. ASSUME NEW i \in 1..n PROVE s[i] \in Elements(r)
    <3>1. (n - i) + 1 \in 1..Len(r) /\ r[(n - i) + 1] = s[i]
      <4>1. PICK j \in 1..n : j = (n - i) + 1 /\ (n - j) + 1 = i
        BY <1>4
      <4>2. r[j] = s[(n - j) + 1] /\ j \in 1..Len(r)
        BY <4>1, <1>5
      <4> QED  BY <4>1, <4>2
    <3> QED  BY <3>1 DEF Elements
  <2>3. Elements(s) = {s[i] : i \in 1..n} /\ Elements(r) = {r[i] : i \in 1..n}
    BY <1>1, <1>5 DEF Elements
  <2> QED  BY <2>1, <2>2, <2>3
<1>7. ASSUME NEW i \in 1..n, NEW j \in 1..n, r[i] = r[j] PROVE i = j
  <2>1. PICK a \in 1..n, b \in 1..n : a = (n - i) + 1 /\ b = (n - j) + 1
    BY <1>4
  <2>2. s[a] = s[b]
    BY <2>1, <1>5, <1>7
  <2>3. a = b
    BY <2>2, <1>1
  <2> QED  BY <2>1, <2>3, <1>1
<1> QED  BY <1>2, <1>5, <1>6, <1>7

\* put_kargv frees what copy_kargv got.
LEMMA PutFacts ==
  ASSUME NEW s, NEW F, NEW n \in Nat, Obtained(s, F, n),
         NEW a, AreaOK(a), Elements(s.got) \cap Free(a) = {}
  PROVE  AreaOK(PutKargv(a, s.got)) /\ Free(PutKargv(a, s.got)) = Free(a) \cup Elements(s.got)
<1>1. PICK g : g = s.got
  OBVIOUS
<1>2. g \in Seq(Frame) /\ \A i, j \in 1..Len(g) : g[i] = g[j] => i = j
  BY <1>1 DEF Obtained
<1>3. PICK r : r = Reverse(g)
  OBVIOUS
<1>4. /\ r \in Seq(Frame) /\ Elements(r) = Elements(g)
      /\ \A i, j \in 1..Len(r) : r[i] = r[j] => i = j
  BY <1>2, <1>3, ReverseFacts
<1>5. AreaOK(FreeEach(a, r)) /\ Free(FreeEach(a, r)) = Free(a) \cup Elements(r)
  BY <1>1, <1>4, FreeEachFacts
<1> QED  BY <1>1, <1>3, <1>4, <1>5 DEF PutKargv

\* Buffers taken and given back leave the same frames free.
LEMMA TakenFacts ==
  ASSUME NEW a, AreaOK(a), NEW n \in Nat
  PROVE  AreaOK(TakenAndGiven(a, n)) /\ Free(TakenAndGiven(a, n)) = Free(a)
<1>1. PICK r : r = AllocEach(a, n)
  OBVIOUS
<1>2. Obtained(r, Free(a), n)
  BY <1>1, AllocEachFacts
<1>3. /\ AreaOK(r.area) /\ Elements(r.got) \subseteq Free(a)
      /\ Free(r.area) = Free(a) \ Elements(r.got)
  BY <1>2 DEF Obtained
<1>4. /\ AreaOK(PutKargv(r.area, r.got))
      /\ Free(PutKargv(r.area, r.got)) = Free(r.area) \cup Elements(r.got)
  BY <1>2, <1>3, PutFacts
<1>5. TakenAndGiven(a, n) = PutKargv(r.area, r.got)
  BY <1>1 DEF TakenAndGiven
<1> QED  BY <1>3, <1>4, <1>5

\* What one call after another got.
LEMMA ObtainedMore ==
  ASSUME NEW F, NEW m \in Nat, NEW n \in Nat, NEW r, NEW s, NEW w,
         Obtained(r, F, m), Obtained(s, F \ Elements(r.got), n),
         w.area = s.area, w.got = r.got \o s.got
  PROVE  Obtained(w, F, m + n)
<1>1. PICK g, h, v : g = r.got /\ h = s.got /\ v = g \o h
  OBVIOUS
<1>2. /\ g \in Seq(Frame) /\ Len(g) \in Nat /\ Len(g) <= m
      /\ h \in Seq(Frame) /\ Len(h) \in Nat /\ Len(h) <= n
      /\ \A i, j \in 1..Len(g) : g[i] = g[j] => i = j
      /\ \A i, j \in 1..Len(h) : h[i] = h[j] => i = j
      /\ \A i \in 1..Len(g) : g[i] \in Elements(g)
      /\ \A i \in 1..Len(h) : h[i] \in Elements(h)
      /\ Elements(g) \subseteq F /\ Elements(h) \subseteq F \ Elements(g)
  BY <1>1, ElementFacts DEF Obtained
<1>3. /\ v \in Seq(Frame) /\ Len(v) = Len(g) + Len(h)
      /\ \A i \in 1..Len(g) + Len(h) : v[i] = IF i <= Len(g) THEN g[i] ELSE h[i - Len(g)]
  <2>1. g \in Seq(Frame) /\ h \in Seq(Frame) /\ v = g \o h
    BY <1>1, <1>2
  <2> QED  BY ONLY <2>1, ConcatProperties
<1>4. PICK a \in Nat, b \in Nat : a = Len(g) /\ b = Len(h)
  BY <1>2
<1>5. ASSUME NEW i \in 1..a + b
      PROVE  \/ i \in 1..a /\ v[i] = g[i]
             \/ i \notin 1..a /\ i - a \in 1..b /\ v[i] = h[i - a]
  BY <1>3, <1>4
<1>6. ASSUME NEW i \in 1..a + b, NEW j \in 1..a + b, v[i] = v[j] PROVE i = j
  <2>1. CASE i \in 1..a /\ j \in 1..a
    BY <2>1, <1>2, <1>4, <1>5, <1>6
  <2>2. CASE i \in 1..a /\ j \notin 1..a
    BY <2>2, <1>2, <1>4, <1>5, <1>6
  <2>3. CASE i \notin 1..a /\ j \in 1..a
    BY <2>3, <1>2, <1>4, <1>5, <1>6
  <2>4. CASE i \notin 1..a /\ j \notin 1..a
    <3>1. PICK x \in 1..b, y \in 1..b : x = i - a /\ y = j - a /\ v[i] = h[x] /\ v[j] = h[y]
      BY <2>4, <1>5
    <3>2. x = y
      BY <3>1, <1>2, <1>4, <1>6
    <3> QED  BY <3>1, <3>2, <1>4
  <2> QED  BY <2>1, <2>2, <2>3, <2>4
<1>7. Elements(v) = Elements(g) \cup Elements(h)
  <2>1. Elements(v) \subseteq Elements(g) \cup Elements(h)
    <3>1. \A i \in 1..a + b : v[i] \in Elements(g) \cup Elements(h)
      BY <1>2, <1>4, <1>5
    <3> QED  BY <3>1, <1>3, <1>4 DEF Elements
  <2>2. ASSUME NEW i \in 1..a PROVE g[i] \in Elements(v)
    <3>1. i \in 1..Len(v) /\ v[i] = g[i]
      BY <1>3, <1>4
    <3> QED  BY <3>1 DEF Elements
  <2>3. ASSUME NEW i \in 1..b PROVE h[i] \in Elements(v)
    <3>1. a + i \in 1..Len(v) /\ v[a + i] = h[i]
      <4>1. PICK x \in 1..a + b : x = a + i /\ x - a = i /\ x \notin 1..a
        BY <1>4
      <4> QED  BY <4>1, <1>3, <1>4, <1>5
    <3> QED  BY <3>1 DEF Elements
  <2> QED  BY <2>1, <2>2, <2>3, <1>4 DEF Elements
<1>8. AreaOK(s.area) /\ Free(s.area) = F \ Elements(v)
  BY <1>1, <1>7 DEF Obtained
<1>9. Len(v) <= m + n /\ Elements(v) \subseteq F
  BY <1>2, <1>3, <1>4, <1>7
<1>10. \A i, j \in 1..Len(v) : v[i] = v[j] => i = j
  <2> SUFFICES ASSUME NEW i \in 1..Len(v), NEW j \in 1..Len(v), v[i] = v[j]
               PROVE  i = j
    OBVIOUS
  <2>1. i \in 1..a + b /\ j \in 1..a + b
    BY <1>3, <1>4
  <2> QED  BY <2>1, <1>6
<1>11. v = w.got /\ s.area = w.area
  BY <1>1
<1>12. AreaOK(w.area) /\ Free(w.area) = F \ Elements(w.got)
  BY <1>8, <1>11
<1>13. /\ w.got \in Seq(Frame) /\ Len(w.got) <= m + n /\ Elements(w.got) \subseteq F
       /\ \A i, j \in 1..Len(w.got) : w.got[i] = w.got[j] => i = j
  BY <1>3, <1>9, <1>10, <1>11
<1> QED  BY <1>12, <1>13 DEF Obtained

\* The frames load_icode gets, with the buffer it reads through in between.
LEMMA LoadedFacts ==
  ASSUME NEW a, AreaOK(a), NEW k \in Nat, k > 0
  PROVE  Obtained(Loaded(a, k), Free(a), k)
<1>1. PICK r : r = AllocEach(a, 1)
  OBVIOUS
<1>2. Obtained(r, Free(a), 1)
  BY <1>1, AllocEachFacts
<1>3. AreaOK(r.area) /\ Free(r.area) = Free(a) \ Elements(r.got)
  BY <1>2 DEF Obtained
<1>4. PICK e : e = Buffered(r.area)
  OBVIOUS
<1>5. AreaOK(e) /\ Free(e) = Free(a) \ Elements(r.got)
  BY <1>3, <1>4, TakenFacts DEF Buffered
<1>6. PICK n \in Nat : n = k - 1 /\ 1 + n = k
  OBVIOUS
<1>7. PICK s : s = AllocEach(e, n)
  OBVIOUS
<1>8. Obtained(s, Free(a) \ Elements(r.got), n)
  <2>1. Obtained(s, Free(e), n)
    BY <1>5, <1>7, AllocEachFacts
  <2> QED  BY <2>1, <1>5
<1>9. PICK w : w = Loaded(a, k)
  OBVIOUS
<1>10. w = [area |-> s.area, got |-> r.got \o s.got, read |-> CanAlloc(r.area, 1)]
  BY <1>1, <1>4, <1>6, <1>7, <1>9 DEF Loaded
<1>11. w.area = s.area /\ w.got = r.got \o s.got
  BY <1>10
<1>12. Obtained(w, Free(a), 1 + n)
  BY <1>2, <1>8, <1>11, ObtainedMore
<1> QED  BY <1>6, <1>9, <1>12

\* What a process that lives owns.
LEMMA AliveFacts ==
  ASSUME PidInv, OwnInv, HoldInv, NEW p \in Proc, Alive(p)
  PROVE  /\ p \in Used /\ p \notin zombies /\ p # initproc
         /\ files[p] \in Frame /\ files[p] # NoFrame
         /\ mm[p] \subseteq Frame /\ mm[p] \cap Free(area) = {}
         /\ files[p] \notin mm[p] /\ files[p] \notin Stack(p) /\ files[p] \notin Free(area)
         /\ Owned(p) = Stack(p) \cup mm[p] \cup {files[p]} \cup Held(buffer[p])
         /\ Stack(p) \cap mm[p] = {} /\ Stack(p) \cap Free(area) = {}
         /\ Held(buffer[p]) \cap (Stack(p) \cup mm[p] \cup {files[p]} \cup Free(area)) = {}
<1>1. p \in Used /\ p \notin zombies /\ p # initproc
  BY DEF Alive
<1>2. files[p] # NoFrame /\ files[p] \in Frame /\ mm[p] \subseteq Frame
  BY <1>1 DEF HoldInv, OwnInv, OwnTypes
<1>3. Owned(p) = Stack(p) \cup mm[p] \cup {files[p]} \cup Held(buffer[p])
  <2>1. Held(files[p]) = {files[p]}
    BY <1>2 DEF Held
  <2> QED  BY <2>1 DEF Owned
<1>4. Owned(p) \cap Free(area) = {}
  BY DEF OwnInv, Unowned
<1>5. Apart(p)
  BY DEF OwnInv
<1> QED  BY <1>1, <1>2, <1>3, <1>4, <1>5 DEF Apart

\* A process that runs is in no read.
LEMMA RunningFacts ==
  ASSUME PidInv, OwnInv, HoldInv, NEW p \in Proc, Running(p)
  PROVE  /\ p \in Used /\ p \notin zombies /\ p # initproc
         /\ files[p] \in Frame /\ files[p] # NoFrame
         /\ mm[p] \subseteq Frame /\ mm[p] \cap Free(area) = {}
         /\ files[p] \notin mm[p] /\ files[p] \notin Stack(p) /\ files[p] \notin Free(area)
         /\ Owned(p) = Stack(p) \cup mm[p] \cup {files[p]}
         /\ Stack(p) \cap mm[p] = {} /\ Stack(p) \cap Free(area) = {}
         /\ buffer[p] = NoFrame /\ Held(buffer[p]) = {}
<1>1. Alive(p) /\ buffer[p] = NoFrame
  BY DEF Running
<1>2. Held(buffer[p]) = {}
  BY <1>1 DEF Held
<1> QED  BY <1>1, <1>2, AliveFacts

\* The frames of do_execve: those of the arguments, and those of the new
\* address space, taken from what is left with the old one freed.
LEMMA ExecFacts ==
  ASSUME PidInv, OwnInv, HoldInv, NEW p \in Proc, Running(p),
         NEW argc \in Nat, NEW e \in Freed(Buffered(Args(argc).area), mm[p]),
         NEW k \in Nat, k > 0
  PROVE  /\ Obtained(Args(argc), Free(area), argc)
         /\ Obtained(Loaded(e, k),
                     (Free(area) \ Elements(Args(argc).got)) \cup mm[p], k)
<1>1. AreaOK(area) /\ mm[p] \subseteq Frame /\ mm[p] \cap Free(area) = {}
  BY RunningFacts DEF OwnInv
<1>2. PICK args : args = Args(argc)
  OBVIOUS
<1>3. Obtained(args, Free(area), argc)
  BY <1>1, <1>2, AllocEachFacts DEF Args
<1>4. AreaOK(args.area) /\ Free(args.area) = Free(area) \ Elements(args.got)
  BY <1>3 DEF Obtained
<1>5. PICK b : b = Buffered(args.area)
  OBVIOUS
<1>6. AreaOK(b) /\ Free(b) = Free(area) \ Elements(args.got)
  BY <1>4, <1>5, TakenFacts DEF Buffered
<1>7. e \in Freed(b, mm[p])
  BY <1>2, <1>5
<1>8. AreaOK(e) /\ Free(e) = (Free(area) \ Elements(args.got)) \cup mm[p]
  <2>1. mm[p] \cap Free(b) = {}
    BY <1>1, <1>6
  <2> QED  BY <2>1, <1>1, <1>6, <1>7, FreedFacts
<1>9. Obtained(Loaded(e, k), Free(e), k)
  BY <1>8, LoadedFacts
<1> QED  BY <1>2, <1>3, <1>8, <1>9

\* An exec gives all frames of the address space back and takes others.
LEMMA OwnExecuted ==
  ASSUME PidInv, OwnInv, HoldInv, NEW p \in Proc, Running(p),
         NEW argc \in Nat, NEW args, Obtained(args, Free(area), argc),
         NEW k \in Nat, NEW new,
         Obtained(new, (Free(area) \ Elements(args.got)) \cup mm[p], k),
         Executed(p, args, new)
  PROVE  OwnInv' /\ HoldInv'
<1>1. UNCHANGED <<proc_list, zombies, kstack, files, buffer>>
  BY DEF Executed
<1>2. PICK e, g : e = PutKargv(new.area, args.got) /\ g = new.got
  OBVIOUS
<1>3. area' = e /\ mm' = [mm EXCEPT ![p] = Range(g)]
  BY <1>2 DEF Executed
<1>4. /\ AreaOK(e) /\ g \in Seq(Frame)
      /\ Elements(g) \subseteq Free(area) \cup mm[p]
      /\ Free(e) = (Free(area) \cup mm[p]) \ Elements(g)
  <2>1. PICK G, F : G = Elements(args.got) /\ F = Free(area)
    OBVIOUS
  <2>2. G \subseteq F /\ F \cap mm[p] = {}
    BY <2>1, RunningFacts DEF Obtained
  <2>3. /\ AreaOK(new.area) /\ g \in Seq(Frame)
        /\ Elements(g) \subseteq (F \ G) \cup mm[p]
        /\ Free(new.area) = ((F \ G) \cup mm[p]) \ Elements(g)
    BY <2>1, <1>2 DEF Obtained
  <2>4. AreaOK(e) /\ Free(e) = Free(new.area) \cup G
    <3>1. G \cap Free(new.area) = {}
      BY <2>2, <2>3
    <3> QED  BY <3>1, <2>1, <2>3, <1>2, PutFacts
  <2> QED  BY <2>1, <2>2, <2>3, <2>4
<1>5. PICK M : M = Elements(g)
  OBVIOUS
<1>6. area' = e /\ mm' = [mm EXCEPT ![p] = M] /\ M \subseteq Frame
  BY <1>3, <1>4, <1>5, RangeElements, ElementFacts
<1>7. /\ OwnTypes' /\ mm'[p] = M /\ files'[p] = files[p] /\ buffer'[p] = buffer[p]
      /\ \A q \in Proc \ {p} : Untouched(q)
  BY <1>1, <1>6 DEF OwnInv, OwnTypes, Untouched
<1>8. /\ Stack(p)' = Stack(p) /\ Held(buffer[p])' = {}
      /\ Owned(p)' = Stack(p) \cup M \cup {files[p]} /\ Stack(p) \subseteq Frame
  <2>1. files[p] # NoFrame /\ Held(buffer[p]) = {}
    BY RunningFacts
  <2> QED  BY <2>1, <1>1, <1>7 DEF Stack, Owned, Held, OwnInv
<1>9. /\ Stack(p) \cap M = {} /\ files[p] \notin M /\ files[p] \notin Stack(p)
  BY <1>4, <1>5, RunningFacts
<1>10. Apart(p)'
  BY <1>7, <1>8, <1>9 DEF Apart
<1>11. /\ Owned(p)' \cap Free(area') = {}
       /\ Owned(p)' \cup Free(area') = Owned(p) \cup Free(area)
  <2>1. /\ Owned(p) = Stack(p) \cup mm[p] \cup {files[p]}
        /\ Stack(p) \cap mm[p] = {} /\ Stack(p) \cap Free(area) = {}
        /\ files[p] \notin mm[p] /\ files[p] \notin Free(area)
    BY RunningFacts
  <2>2. Free(area') = (Free(area) \cup mm[p]) \ M /\ M \subseteq Free(area) \cup mm[p]
    BY <1>4, <1>5, <1>6
  <2> QED  BY <2>1, <2>2, <1>8
<1>12. OwnInv'
  BY <1>4, <1>6, <1>7, <1>8, <1>10, <1>11, OwnMoved
<1>13. HoldInv'
  <2>1. Used' = Used /\ p \in Used /\ p \notin zombies
    BY <1>1, RunningFacts DEF Used
  <2>2. zombies \subseteq Proc
    BY UsedFacts DEF PidInv
  <2>3. \A q \in Proc \ {p} : Untouched(q)
    BY <1>7
  <2> QED  BY <2>1, <2>2, <2>3, <1>1, <1>7 DEF HoldInv, Untouched
<1> QED  BY <1>12, <1>13

\* exit gives back the files_struct after the address space.
LEMMA OwnEnded ==
  ASSUME PidInv, OwnInv, HoldInv, NEW p \in Proc, Running(p),
         NEW a, AreaOK(a), Free(a) = Free(area) \cup mm[p], Ended(p, a)
  PROVE  OwnInv' /\ HoldInv'
<1>1. PICK e, f : e = FreePages(a, f, 1) /\ f = files[p]
  OBVIOUS
<1>2. /\ area' = e /\ mm' = [mm EXCEPT ![p] = {}] /\ files' = [files EXCEPT ![p] = NoFrame]
      /\ zombies' = zombies \cup {p} /\ UNCHANGED <<proc_list, kstack, buffer>>
  BY <1>1 DEF Ended
<1>3. /\ p \in Used /\ p \notin zombies /\ p # initproc
      /\ f \in Frame /\ f # NoFrame
      /\ mm[p] \subseteq Frame /\ mm[p] \cap Free(area) = {}
      /\ f \notin mm[p] /\ f \notin Stack(p) /\ f \notin Free(area)
      /\ Owned(p) = Stack(p) \cup mm[p] \cup {f}
      /\ Stack(p) \cap mm[p] = {} /\ Stack(p) \cap Free(area) = {}
      /\ buffer[p] = NoFrame
  BY <1>1, RunningFacts
<1>4. AreaOK(e) /\ Free(e) = Free(area) \cup mm[p] \cup {f}
  <2>1. f..f + 1 - 1 = {f}
    BY <1>3, FrameAssumption DEF Frame
  <2>2. f..f + 1 - 1 \subseteq Frame \ Free(a)
    BY <2>1, <1>3
  <2>3. AreaOK(e) /\ Free(e) = Free(a) \cup (f..f + 1 - 1)
    BY <1>1, <1>3, <2>2, FreeFacts
  <2> QED  BY <2>1, <2>3
<1>5. /\ OwnTypes' /\ mm'[p] = {} /\ files'[p] = NoFrame /\ buffer'[p] = NoFrame
      /\ \A q \in Proc \ {p} : Untouched(q)
  BY <1>2, <1>3 DEF OwnInv, OwnTypes, Untouched
<1>6. Stack(p)' = Stack(p) /\ Owned(p)' = Stack(p) /\ Stack(p) \subseteq Frame
  BY <1>2, <1>5 DEF Stack, Owned, Held, OwnInv
<1>7. Apart(p)'
  BY <1>5, <1>6, FramesFinite DEF Apart, Held
<1>8. /\ Owned(p)' \cap Free(area') = {}
      /\ Owned(p)' \cup Free(area') = Owned(p) \cup Free(area)
  BY <1>2, <1>3, <1>4, <1>6
<1>9. OwnInv'
  BY <1>2, <1>4, <1>5, <1>6, <1>7, <1>8, OwnMoved
<1>10. HoldInv'
  <2>1. Used' = Used /\ Used \subseteq Proc \cup {initproc} /\ zombies \subseteq Used \ {initproc}
    BY <1>2, UsedFacts DEF Used, PidInv
  <2> QED  BY <2>1, <1>2, <1>3, <1>5 DEF HoldInv, Untouched
<1> QED  BY <1>9, <1>10

\* A process exits.
LEMMA OwnExit ==
  ASSUME PidInv, OwnInv, HoldInv, NEW p \in Proc, Exit(p)
  PROVE  OwnInv' /\ HoldInv'
<1>1. Running(p)
  BY DEF Exit
<1>2. PICK e \in Freed(area, mm[p]) : Ended(p, e)
  BY DEF Exit
<1>3. AreaOK(area) /\ mm[p] \subseteq Frame /\ mm[p] \cap Free(area) = {}
  BY <1>1, RunningFacts DEF OwnInv
<1>4. AreaOK(e) /\ Free(e) = Free(area) \cup mm[p]
  BY <1>3, FreedFacts
<1> QED  BY <1>1, <1>2, <1>4, OwnEnded

\* sysfile_open fails: the arguments go back, and then the address space.
LEMMA OwnExecOpenFails ==
  ASSUME PidInv, OwnInv, HoldInv, NEW p \in Proc, NEW argc \in Nat, ExecOpenFails(p, argc)
  PROVE  OwnInv' /\ HoldInv'
<1>1. PICK args, b : args = Args(argc) /\ b = PutKargv(Buffered(args.area), args.got)
  OBVIOUS
<1>2. PICK e \in Freed(b, mm[p]) : Ended(p, e)
  BY <1>1 DEF ExecOpenFails
<1>3. /\ Running(p) /\ AreaOK(area) /\ mm[p] \subseteq Frame /\ mm[p] \cap Free(area) = {}
  BY RunningFacts DEF ExecOpenFails, OwnInv
<1>4. Obtained(args, Free(area), argc)
  BY <1>1, <1>3, AllocEachFacts DEF Args
<1>5. /\ AreaOK(args.area) /\ Elements(args.got) \subseteq Free(area)
      /\ Free(args.area) = Free(area) \ Elements(args.got)
  BY <1>4 DEF Obtained
<1>6. AreaOK(b) /\ Free(b) = Free(area)
  <2>1. PICK c : c = Buffered(args.area)
    OBVIOUS
  <2>2. AreaOK(c) /\ Free(c) = Free(area) \ Elements(args.got)
    BY <2>1, <1>5, TakenFacts DEF Buffered
  <2>3. AreaOK(b) /\ Free(b) = Free(c) \cup Elements(args.got)
    BY <2>1, <2>2, <1>1, <1>4, PutFacts
  <2> QED  BY <2>2, <2>3, <1>5
<1>7. AreaOK(e) /\ Free(e) = Free(area) \cup mm[p]
  BY <1>3, <1>6, FreedFacts
<1> QED  BY <1>2, <1>3, <1>7, OwnEnded

\* load_icode fails: its frames go back, then the arguments, and the process exits.
LEMMA OwnExecFails ==
  ASSUME PidInv, OwnInv, HoldInv, NEW p \in Proc, Running(p),
         NEW argc \in Nat, NEW args, Obtained(args, Free(area), argc),
         NEW k \in Nat, NEW new,
         Obtained(new, (Free(area) \ Elements(args.got)) \cup mm[p], k),
         ExecFails(p, args, new)
  PROVE  OwnInv' /\ HoldInv'
<1>1. PICK g, G, F : g = new.got /\ G = Elements(args.got) /\ F = Free(area)
  OBVIOUS
<1>2. /\ AreaOK(new.area) /\ g \in Seq(Frame)
      /\ Elements(g) \subseteq (F \ G) \cup mm[p]
      /\ Free(new.area) = ((F \ G) \cup mm[p]) \ Elements(g)
  BY <1>1 DEF Obtained
<1>3. G \subseteq F /\ F \cap mm[p] = {}
  BY <1>1, RunningFacts DEF Obtained
<1>4. PICK c \in Freed(new.area, Elements(g)) : Ended(p, PutKargv(c, args.got))
  BY <1>1, <1>2, RangeElements DEF ExecFails
<1>6. AreaOK(c) /\ Free(c) = (F \ G) \cup mm[p]
  <2>1. Elements(g) \in SUBSET Frame /\ Elements(g) \cap Free(new.area) = {}
    BY <1>2, ElementFacts
  <2>2. AreaOK(c) /\ Free(c) = Free(new.area) \cup Elements(g)
    BY <2>1, <1>2, FreedFacts
  <2> QED  BY <2>2, <1>2
<1>7. PICK e : e = PutKargv(c, args.got)
  OBVIOUS
<1>8. AreaOK(e) /\ Free(e) = Free(area) \cup mm[p]
  <2>1. G \cap Free(c) = {}
    BY <1>3, <1>6
  <2>2. AreaOK(e) /\ Free(e) = Free(c) \cup G
    BY <2>1, <1>1, <1>6, <1>7, PutFacts
  <2> QED  BY <2>2, <1>1, <1>3, <1>6
<1> QED  BY <1>4, <1>7, <1>8, OwnEnded

\* What do_execve makes of the frames once the program is open.
LEMMA OwnExec ==
  ASSUME PidInv, OwnInv, HoldInv, NEW p \in Proc, NEW argc \in Nat,
         Exec(p, argc), ~OutOfMemory
  PROVE  OwnInv' /\ HoldInv'
<1>1. PICK args : args = Args(argc)
  OBVIOUS
<1>2. PICK e \in Freed(Buffered(args.area), mm[p]), k \in 1..MaxPages :
        LET new == Loaded(e, k)
        IN Executed(p, args, new) \/ ExecFails(p, args, new)
  BY <1>1 DEF Exec
<1>3. PICK new : new = Loaded(e, k)
  OBVIOUS
<1>4. Running(p) /\ k \in Nat /\ k > 0
  BY <1>2, ForkAssumption DEF Exec
<1>5. /\ Obtained(args, Free(area), argc)
      /\ Obtained(new, (Free(area) \ Elements(args.got)) \cup mm[p], k)
  BY <1>1, <1>2, <1>3, <1>4, ExecFacts
<1>6. Executed(p, args, new) \/ ExecFails(p, args, new)
  BY <1>2, <1>3
<1> QED  BY <1>4, <1>5, <1>6, OwnExecuted, OwnExecFails

\* A buffer is the process's as long as its read sleeps.
LEMMA OwnRead ==
  ASSUME PidInv, OwnInv, HoldInv, NEW p \in Proc, Alive(p), AreaOK(area'),
         NEW f \in Frame \cup {NoFrame}, buffer' = [buffer EXCEPT ![p] = f],
         Held(f) \cap Free(area') = {},
         Held(f) \cup Free(area') = Held(buffer[p]) \cup Free(area),
         UNCHANGED <<proc_list, zombies, kstack, mm, files>>
  PROVE  OwnInv' /\ HoldInv'
<1>1. /\ p \in Used /\ p \notin zombies /\ p # initproc
      /\ files[p] \notin mm[p] /\ files[p] \notin Stack(p) /\ files[p] \notin Free(area)
      /\ Owned(p) = Stack(p) \cup mm[p] \cup {files[p]} \cup Held(buffer[p])
      /\ Stack(p) \cap mm[p] = {} /\ Stack(p) \cap Free(area) = {} /\ mm[p] \cap Free(area) = {}
      /\ Held(buffer[p]) \cap (Stack(p) \cup mm[p] \cup {files[p]} \cup Free(area)) = {}
      /\ files[p] # NoFrame
  BY AliveFacts
<1>2. /\ OwnTypes' /\ buffer'[p] = f /\ \A q \in Proc \ {p} : Untouched(q)
  BY DEF OwnInv, OwnTypes, Untouched
<1>3. /\ Stack(p)' = Stack(p) /\ Held(buffer[p])' = Held(f) /\ Stack(p) \subseteq Frame
      /\ Owned(p)' = Stack(p) \cup mm[p] \cup {files[p]} \cup Held(f)
  <2>1. Held(files[p]) = {files[p]}
    BY <1>1 DEF Held
  <2>2. Stack(p)' = Stack(p) /\ Held(buffer[p])' = Held(f) /\ Held(files[p])' = Held(files[p])
    BY <1>2 DEF Stack, Held
  <2> QED  BY <2>1, <2>2 DEF Owned, OwnInv
<1>4. Held(f) \cap (Stack(p) \cup mm[p] \cup {files[p]}) = {}
  BY <1>1
<1>5. Apart(p)'
  BY <1>1, <1>3, <1>4 DEF Apart
<1>6. /\ Owned(p)' \cap Free(area') = {}
      /\ Owned(p)' \cup Free(area') = Owned(p) \cup Free(area)
  BY <1>1, <1>3
<1>7. OwnInv'
  BY <1>2, <1>3, <1>5, <1>6, OwnMoved
<1>8. HoldInv'
  <2>1. Used' = Used /\ zombies \subseteq Proc
    BY UsedFacts DEF Used, PidInv
  <2> QED  BY <2>1, <1>1, <1>2 DEF HoldInv, Untouched
<1> QED  BY <1>7, <1>8

\* A read of stdin takes its buffer and sleeps.
LEMMA OwnReadSleeps ==
  ASSUME PidInv, OwnInv, HoldInv, NEW p \in Proc, ReadSleeps(p)
  PROVE  OwnInv' /\ HoldInv'
<1>1. PICK e, g, f : e = AllocEach(area, 1).area /\ g = AllocEach(area, 1).got /\ f = g[1]
  OBVIOUS
<1>2. /\ Running(p) /\ g # <<>> /\ area' = e /\ buffer' = [buffer EXCEPT ![p] = f]
      /\ UNCHANGED <<proc_list, zombies, kstack, mm, files>>
  BY <1>1 DEF ReadSleeps
<1>3. /\ AreaOK(e) /\ g \in Seq(Frame) /\ Len(g) <= 1
      /\ Elements(g) \subseteq Free(area) /\ Free(e) = Free(area) \ Elements(g)
  <2>1. Obtained(AllocEach(area, 1), Free(area), 1)
    BY AllocEachFacts DEF OwnInv
  <2> QED  BY <2>1, <1>1 DEF Obtained
<1>4. Len(g) = 1
  <2>1. PICK n \in Nat : n = Len(g) /\ n # 0 /\ n <= 1
    BY <1>2, <1>3, EmptySeq
  <2>2. n = 1
    BY ONLY <2>1
  <2> QED  BY <2>1, <2>2
<1>5. Elements(g) = {f} /\ f \in Frame
  BY <1>1, <1>3, <1>4, ElementFacts DEF Elements
<1>6. Held(f) = {f}
  BY <1>5, FramesFinite DEF Held
<1>7. Alive(p) /\ Held(buffer[p]) = {}
  BY <1>2 DEF Running, Held
<1> QED  BY <1>2, <1>3, <1>5, <1>6, <1>7, OwnRead

\* The read returns and its buffer goes back.
LEMMA OwnReadReturns ==
  ASSUME PidInv, OwnInv, HoldInv, NEW p \in Proc, ReadReturns(p)
  PROVE  OwnInv' /\ HoldInv'
<1>1. PICK e, f : e = FreePages(area, f, 1) /\ f = buffer[p]
  OBVIOUS
<1>2. /\ Alive(p) /\ f # NoFrame /\ area' = e /\ buffer' = [buffer EXCEPT ![p] = NoFrame]
      /\ UNCHANGED <<proc_list, zombies, kstack, mm, files>>
  BY <1>1 DEF ReadReturns
<1>3. f \in Frame /\ Held(f) = {f} /\ Held(NoFrame) = {}
  BY <1>1, <1>2 DEF OwnInv, OwnTypes, Held
<1>4. f \notin Free(area)
  BY <1>1, <1>2, <1>3, AliveFacts
<1>5. AreaOK(e) /\ Free(e) = Free(area) \cup {f}
  <2>1. f..f + 1 - 1 = {f}
    BY <1>3, FrameAssumption DEF Frame
  <2>2. f..f + 1 - 1 \subseteq Frame \ Free(area)
    BY <2>1, <1>3, <1>4
  <2>3. AreaOK(e) /\ Free(e) = Free(area) \cup (f..f + 1 - 1)
    BY <1>1, <1>3, <2>2, FreeFacts DEF OwnInv
  <2> QED  BY <2>1, <2>3
<1> QED  BY <1>1, <1>2, <1>3, <1>5, OwnRead

\* A page fault takes a frame.
LEMMA OwnPageFault ==
  ASSUME PidInv, OwnInv, HoldInv, NEW p \in Proc, PageFault(p), ~OutOfMemory
  PROVE  OwnInv' /\ HoldInv'
<1>1. Alive(p)
  BY DEF PageFault
<1>2. PICK e, g : e = AllocEach(area, 1).area /\ g = AllocEach(area, 1).got
  OBVIOUS
<1>3. /\ area' = e /\ mm' = [mm EXCEPT ![p] = @ \cup Range(g)]
      /\ UNCHANGED <<proc_list, zombies, kstack, files, buffer>>
  BY <1>2 DEF PageFault
<1>4. /\ AreaOK(e) /\ g \in Seq(Frame) /\ Elements(g) \subseteq Free(area)
      /\ Free(e) = Free(area) \ Elements(g)
  <2>1. Obtained(AllocEach(area, 1), Free(area), 1)
    BY AllocEachFacts DEF OwnInv
  <2> QED  BY <2>1, <1>2 DEF Obtained
<1>5. PICK M : M = mm[p] \cup Elements(g)
  OBVIOUS
<1>6. /\ p \in Used /\ p \notin zombies /\ p # initproc
      /\ files[p] \in Frame /\ mm[p] \subseteq Frame /\ mm[p] \cap Free(area) = {}
      /\ files[p] \notin mm[p] /\ files[p] \notin Stack(p) /\ files[p] \notin Free(area)
      /\ Owned(p) = Stack(p) \cup mm[p] \cup {files[p]} \cup Held(buffer[p]) /\ files[p] # NoFrame
      /\ Stack(p) \cap mm[p] = {} /\ Stack(p) \cap Free(area) = {}
      /\ Held(buffer[p]) \cap (Stack(p) \cup mm[p] \cup {files[p]} \cup Free(area)) = {}
  BY <1>1, AliveFacts
<1>7. mm' = [mm EXCEPT ![p] = M] /\ M \subseteq Frame
  BY <1>3, <1>4, <1>5, <1>6, RangeElements, ElementFacts
<1>8. /\ OwnTypes' /\ mm'[p] = M /\ \A q \in Proc \ {p} : Untouched(q)
  BY <1>3, <1>7 DEF OwnInv, OwnTypes, Untouched
<1>9. /\ Stack(p)' = Stack(p) /\ Held(buffer[p])' = Held(buffer[p])
      /\ Owned(p)' = Stack(p) \cup M \cup {files[p]} \cup Held(buffer[p])
      /\ Stack(p) \subseteq Frame
  <2>1. Held(files[p]) = {files[p]}
    BY <1>6 DEF Held
  <2>2. Stack(p)' = Stack(p) /\ Held(buffer[p])' = Held(buffer[p]) /\ Held(files[p])' = Held(files[p])
    BY <1>3 DEF Stack
  <2> QED  BY <2>1, <2>2, <1>8 DEF Owned, OwnInv
<1>10. Apart(p)'
  <2>1. /\ Stack(p) \cap M = {} /\ files[p] \notin Stack(p) \cup M
        /\ Held(buffer[p]) \cap (Stack(p) \cup M \cup {files[p]}) = {}
    BY <1>4, <1>5, <1>6
  <2> QED  BY <2>1, <1>3, <1>8, <1>9 DEF Apart
<1>11. /\ Owned(p)' \cap Free(area') = {}
       /\ Owned(p)' \cup Free(area') = Owned(p) \cup Free(area)
  BY <1>3, <1>4, <1>5, <1>6, <1>9
<1>12. OwnInv'
  BY <1>3, <1>4, <1>8, <1>9, <1>10, <1>11, OwnMoved
<1>13. HoldInv'
  <2>1. Used' = Used /\ zombies \subseteq Proc
    BY <1>3, UsedFacts DEF Used, PidInv
  <2> QED  BY <2>1, <1>3, <1>6, <1>8 DEF HoldInv, Untouched
<1> QED  BY <1>12, <1>13

\* The stack of a zombie goes back when it is reaped.
LEMMA OwnWait ==
  ASSUME PidInv, OwnInv, HoldInv, NEW c \in Proc, Wait(c)
  PROVE  OwnInv' /\ HoldInv'
<1>1. PICK b, e : b = kstack[c] /\ e = FreePages(area, b, KSTACKPAGE)
  OBVIOUS
<1>2. /\ c \in zombies /\ area' = e /\ kstack' = [kstack EXCEPT ![c] = NoFrame]
      /\ zombies' = zombies \ {c} /\ UNCHANGED <<mm, files, buffer>>
  BY <1>1 DEF Wait
<1>3. /\ Used' = Used \ {c} /\ c \in Used \ {initproc}
      /\ zombies \subseteq Proc /\ Used \subseteq Proc \cup {initproc}
  BY <1>2, PidsWait, UsedFacts DEF PidInv
<1>4. b \in Frame /\ b # NoFrame /\ mm[c] = {} /\ files[c] = NoFrame /\ buffer[c] = NoFrame
  BY <1>1, <1>2, <1>3 DEF HoldInv, OwnInv, OwnTypes
<1>5. /\ Stack(c) = b..b + KSTACKPAGE - 1 /\ Owned(c) = Stack(c)
      /\ Stack(c) \subseteq Frame /\ Stack(c) \cap Free(area) = {}
  <2>1. Stack(c) = b..b + KSTACKPAGE - 1 /\ Owned(c) = Stack(c)
    BY <1>1, <1>4 DEF Stack, Owned, Held
  <2> QED  BY <2>1 DEF OwnInv, Unowned
<1>6. AreaOK(e) /\ Free(e) = Free(area) \cup Stack(c)
  <2>1. /\ AreaOK(area) /\ KSTACKPAGE \in Nat /\ KSTACKPAGE > 0
        /\ b..b + KSTACKPAGE - 1 \subseteq Frame \ Free(area)
    BY <1>5, ForkAssumption DEF OwnInv
  <2>2. AreaOK(e) /\ Free(e) = Free(area) \cup (b..b + KSTACKPAGE - 1)
    BY <2>1, <1>1, <1>4, FreeFacts
  <2> QED  BY <2>2, <1>5
<1>7. /\ OwnTypes' /\ kstack'[c] = NoFrame /\ mm'[c] = {} /\ files'[c] = NoFrame
      /\ buffer'[c] = NoFrame /\ \A q \in Proc \ {c} : Untouched(q)
  BY <1>2, <1>4 DEF OwnInv, OwnTypes, Untouched
<1>8. Stack(c)' = {} /\ Owned(c)' = {}
  BY <1>7 DEF Stack, Owned, Held
<1>9. Apart(c)'
  BY <1>7, <1>8 DEF Apart, Held
<1>10. OwnInv'
  <2>1. Stack(c)' \subseteq Frame /\ AreaOK(area')
    BY <1>2, <1>6, <1>8
  <2>2. /\ Owned(c)' \cap Free(area') = {}
        /\ Owned(c)' \cup Free(area') = Owned(c) \cup Free(area)
    BY <1>2, <1>5, <1>6, <1>8
  <2> QED  BY <2>1, <2>2, <1>7, <1>9, OwnMoved
<1>11. HoldInv'
  BY <1>2, <1>3, <1>7 DEF HoldInv, Untouched
<1> QED  BY <1>10, <1>11

\* The steps that leave the same frames free.
LEMMA OwnKept ==
  ASSUME OwnInv, HoldInv, AreaOK(area'), Free(area') = Free(area),
         UNCHANGED <<proc_list, zombies, kstack, mm, files, buffer>>
  PROVE  OwnInv' /\ HoldInv'
<1>1. /\ Used' = Used /\ Unowned' = Unowned
      /\ \A p \in Proc : Stack(p)' = Stack(p) /\ Owned(p)' = Owned(p) /\ Apart(p)' = Apart(p)
  BY DEF Used, Unowned, Stack, Owned, Apart
<1>2. (Free(area) = Unowned)' /\ OwnTypes'
  BY <1>1 DEF OwnInv, OwnTypes
<1> QED  BY <1>1, <1>2 DEF OwnInv, HoldInv

\* Every step keeps the frames where they belong.
LEMMA OwnNext == PidInv /\ OwnInv /\ HoldInv /\ [Next]_vars => OwnInv' /\ HoldInv'
<1> SUFFICES ASSUME PidInv, OwnInv, HoldInv, [Next]_vars PROVE OwnInv' /\ HoldInv'
  OBVIOUS
<1>1. ASSUME OutOfMemory PROVE OwnInv' /\ HoldInv'
  BY <1>1, OwnKept DEF OutOfMemory, OwnInv
<1>2. ASSUME NEW p \in Proc \cup {initproc}, NEW c \in Proc, Fork(p, c) PROVE OwnInv' /\ HoldInv'
  BY <1>2, OwnFork
<1>3. ASSUME NEW p \in Proc, NEW argc \in 1..EXEC_MAX_ARG_NUM, Exec(p, argc)
      PROVE  OwnInv' /\ HoldInv'
  <2>1. argc \in Nat
    BY ForkAssumption
  <2> QED  BY <2>1, <1>1, <1>3, OwnExec
<1>4. ASSUME NEW p \in Proc, NEW argc \in 1..EXEC_MAX_ARG_NUM, ExecOpenFails(p, argc)
      PROVE  OwnInv' /\ HoldInv'
  <2>1. argc \in Nat
    BY ForkAssumption
  <2> QED  BY <2>1, <1>4, OwnExecOpenFails
<1>5. ASSUME NEW n \in Nat, area' = TakenAndGiven(area, n),
             UNCHANGED <<proc_list, zombies, kstack, mm, files, buffer>>
      PROVE  OwnInv' /\ HoldInv'
  <2>1. AreaOK(area') /\ Free(area') = Free(area)
    BY <1>5, TakenFacts DEF OwnInv
  <2> QED  BY <2>1, <1>5, OwnKept
<1>11. ASSUME NEW p \in Proc, NEW argc \in 1..EXEC_MAX_ARG_NUM, ExecRefused(p, argc)
       PROVE  OwnInv' /\ HoldInv'
  <2>1. argc \in Nat
    BY ForkAssumption
  <2> QED  BY <2>1, <1>5, <1>11 DEF ExecRefused
<1>12. ASSUME NEW p \in Proc, FileCall(p) PROVE OwnInv' /\ HoldInv'
  BY <1>5, <1>12 DEF FileCall, Buffered
<1>6. ASSUME NEW p \in Proc, PageFault(p) PROVE OwnInv' /\ HoldInv'
  BY <1>1, <1>6, OwnPageFault
<1>7. ASSUME NEW p \in Proc, Exit(p) PROVE OwnInv' /\ HoldInv'
  BY <1>7, OwnExit
<1>8. ASSUME NEW c \in Proc, Wait(c) PROVE OwnInv' /\ HoldInv'
  BY <1>8, OwnWait
<1>9. ASSUME NEW p \in Proc, ReadSleeps(p) \/ ReadReturns(p) PROVE OwnInv' /\ HoldInv'
  BY <1>9, OwnReadSleeps, OwnReadReturns
<1>10. CASE UNCHANGED vars
  <2>1. area' = area /\ UNCHANGED <<proc_list, zombies, kstack, mm, files, buffer>>
    BY <1>10 DEF vars
  <2>2. AreaOK(area') /\ Free(area') = Free(area)
    BY <2>1 DEF OwnInv
  <2> QED  BY <2>1, <2>2, OwnKept
<1> QED  BY <1>1, <1>2, <1>3, <1>4, <1>6, <1>7, <1>8, <1>9, <1>10, <1>11, <1>12
         DEF Next, ForkOutOfMemory, ExecOutOfMemory, FileOutOfMemory

\* Two sets with nothing in common.
LEMMA DisjointUnion ==
  ASSUME NEW S, NEW T, IsFiniteSet(S), IsFiniteSet(T), S \cap T = {}
  PROVE  Cardinality(S \cup T) = Cardinality(S) + Cardinality(T)
<1>1. Cardinality(S) \in Nat /\ Cardinality(T) \in Nat
  BY FS_CardinalityType
<1>2. Cardinality(S \cap T) = 0
  BY FS_EmptySet
<1>3. Cardinality(S \cup T) = Cardinality(S) + Cardinality(T) - Cardinality(S \cap T)
  BY FS_Union
<1> QED  BY <1>1, <1>2, <1>3

(***************************************************************************)
(* No frame is ever lost or given out twice, whatever processes fork, load *)
(* new programs, fail to, read, exit and are reaped, and in whatever order *)
(* their frames come back to the free list: those of the arguments and of  *)
(* the buffers of file calls too.                                          *)
(***************************************************************************)
THEOREM NoFrameLost == Spec => []FramesExact
<1>1. Init => PidInv /\ OwnInv /\ HoldInv
  BY PidsInit, OwnInit
<1>2. (PidInv /\ OwnInv /\ HoldInv) /\ [Next]_vars => (PidInv /\ OwnInv /\ HoldInv)'
  BY PidsNext, OwnNext
<1>3. OwnInv => FramesExact
  <2> SUFFICES ASSUME OwnInv PROVE FramesExact
    OBVIOUS
  <2>1. PICK s : s = area.list /\ s \in Seq(Frame) /\ Sorted(s)
    BY DEF OwnInv, AreaOK
  <2>2. Range(s) = Unowned
    BY <2>1, RangeElements DEF OwnInv, Free
  <2>3. \A i \in 1..Len(s) - 1 : s[i] < s[i + 1]
    <3>1. Len(s) \in Nat
      BY <2>1, ElementFacts
    <3>2. \A i \in 1..Len(s) - 1 : i \in 1..Len(s) /\ i + 1 \in 1..Len(s) /\ i < i + 1
      BY <3>1
    <3> QED  BY <3>2, <2>1 DEF Sorted
  <2>4. ASSUME NEW p \in Proc
        PROVE  Cardinality(Owned(p)) =
                 Cardinality(Stack(p)) + Cardinality(mm[p])
                 + Cardinality(Held(files[p])) + Cardinality(Held(buffer[p]))
    <3>1. PICK S, M, X, Y : /\ S = Stack(p) /\ M = mm[p]
                            /\ X = Held(files[p]) /\ Y = Held(buffer[p])
      OBVIOUS
    <3>2. S \subseteq Frame /\ M \subseteq Frame /\ X \subseteq Frame /\ Y \subseteq Frame
      BY <3>1 DEF OwnInv, OwnTypes, Held
    <3>3. S \cap M = {} /\ (S \cup M) \cap X = {} /\ ((S \cup M) \cup X) \cap Y = {}
      <4>1. Apart(p) /\ X \subseteq {files[p]}
        BY <3>1 DEF OwnInv, Held
      <4> QED  BY <4>1, <3>1 DEF Apart
    <3>4. /\ IsFiniteSet(S) /\ IsFiniteSet(M) /\ IsFiniteSet(X) /\ IsFiniteSet(Y)
          /\ IsFiniteSet(S \cup M) /\ IsFiniteSet((S \cup M) \cup X)
      BY <3>2, FramesFinite
    <3>5. Cardinality(S \cup M) = Cardinality(S) + Cardinality(M)
      BY <3>3, <3>4, DisjointUnion
    <3>6. Cardinality((S \cup M) \cup X) = Cardinality(S \cup M) + Cardinality(X)
      BY <3>3, <3>4, DisjointUnion
    <3>7. Cardinality(((S \cup M) \cup X) \cup Y) = Cardinality((S \cup M) \cup X) + Cardinality(Y)
      BY <3>3, <3>4, DisjointUnion
    <3>8. Owned(p) = ((S \cup M) \cup X) \cup Y
      BY <3>1 DEF Owned
    <3> QED  BY <3>1, <3>5, <3>6, <3>7, <3>8
  <2>5. \A p, q \in Proc : p # q => Owned(p) \cap Owned(q) = {}
    BY DEF OwnInv
  <2> QED  BY <2>1, <2>2, <2>3, <2>4, <2>5 DEF FramesExact
<1> QED  BY <1>1, <1>2, <1>3, PTL DEF Spec

(***************************************************************************)
(* First fit finds room whenever there is room: a block given back is      *)
(* merged with both its neighbours and a split one counts what it has      *)
(* left, so the property of a block's first frame is never too small.      *)
(***************************************************************************)
THEOREM RoomIsFound == Spec => []AllocatesIfItCan
<1>1. Init => PidInv /\ OwnInv /\ HoldInv
  BY PidsInit, OwnInit
<1>2. (PidInv /\ OwnInv /\ HoldInv) /\ [Next]_vars => (PidInv /\ OwnInv /\ HoldInv)'
  BY PidsNext, OwnNext
<1>3. OwnInv => AllocatesIfItCan
  <2> SUFFICES ASSUME OwnInv, NEW n \in 1..Cardinality(Frame)
               PROVE  CanAlloc(area, n) <=> \E f \in Frame : f..f + n - 1 \subseteq Unowned
    BY DEF AllocatesIfItCan
  <2>1. n \in Nat /\ n > 0
    BY FramesFinite, FrameAssumption
  <2>2. PICK s, p, F : s = area.list /\ p = area.property /\ F = Free(area)
    OBVIOUS
  <2>3. /\ AreaOK(area) /\ s \in Seq(Frame) /\ Sorted(s) /\ Len(s) \in Nat
        /\ DOMAIN s = 1..Len(s) /\ F = Elements(s) /\ F \subseteq Frame /\ F = Unowned
        /\ p \in [Frame -> Nat] /\ Blocks(F, p) /\ area.nr_free = Len(s)
        /\ NFrame \in Nat /\ \A x \in F : x \in Nat
    BY <2>2, ElementFacts, FrameAssumption DEF OwnInv, AreaOK, Free, Frame
  <2>4. ASSUME CanAlloc(area, n)
        PROVE  \E f \in Frame : f..f + n - 1 \subseteq Unowned
    BY <2>1, <2>2, <2>3, <2>4, AllocFacts
  <2>5. ASSUME NEW f \in Frame, f..f + n - 1 \subseteq Unowned
        PROVE  CanAlloc(area, n)
    <3>1. f \in F /\ f \in Nat /\ f..f + n - 1 \subseteq F
      <4>1. f \in f..f + n - 1
        BY <2>1, FrameAssumption DEF Frame
      <4> QED  BY <4>1, <2>3, <2>5
    <3>2. PICK h \in F : h <= f /\ Run(F, h, p[h]) /\ f < h + p[h]
      BY <2>3, <3>1, BlockOf
    <3>3. PICK m \in Nat : m = p[h]
      BY <2>3, <3>2
    <3>4. h \in Nat /\ h..h + m - 1 \subseteq F /\ h + m \notin F /\ f < h + m
      BY <2>3, <3>2, <3>3 DEF Run
    <3>5. m >= n
      <4> SUFFICES ASSUME m < n PROVE FALSE
        BY <2>1
      <4>1. h + m \in f..f + n - 1
        BY <2>1, <3>1, <3>2, <3>4
      <4> QED  BY <4>1, <3>1, <3>4
    <3>6. PICK i \in 1..Len(s) : s[i] = h
      BY <2>3 DEF Elements
    <3>7. i \in Fits(area, n)
      BY <2>2, <2>3, <3>3, <3>5, <3>6 DEF Fits
    <3>8. n <= Len(s)
      <4>1. \A x \in 0..m - 1 : i + x \in 1..Len(s)
        BY <2>3, <3>3, <3>4, <3>6, Consecutive
      <4>2. n - 1 \in 0..m - 1
        BY <2>1, <3>5
      <4>3. i + (n - 1) \in 1..Len(s)
        BY <4>1, <4>2
      <4> QED  BY <4>3, <2>1, <2>3
    <3> QED  BY <3>7, <3>8, <2>3 DEF CanAlloc
  <2> QED  BY <2>4, <2>5
<1> QED  BY <1>1, <1>2, <1>3, PTL DEF Spec

=============================================================================
