---------------------------- MODULE StrideProofs ----------------------------
(***************************************************************************)
(* Strides that wrap around are ordered by the sign of their difference,   *)
(* whatever the width of a word and the number of competing processes; the *)
(* skew heap of the stride class keeps the processes of the pool, and      *)
(* where nobody sleeps or forks its root is a least one.                   *)
(***************************************************************************)
EXTENDS Stride, FiniteSetTheorems, WellFoundedInduction, TLAPS

(* The abstract pool. *)

Fits ==
  /\ stride \in [Proc -> Pool!Word]
  /\ Pool!Window

\* The steps of pick_next stay within the word.
LEMMA AdvanceWord ==
  ASSUME NEW a \in Pool!Word, NEW step \in 0 .. Pool!BIG_STRIDE
  PROVE  Pool!Advance(a, step) \in Pool!Word /\ Pool!Ahead(Pool!Advance(a, step), a) = step
BY WordAssumption DEF Pool!Advance, Pool!Ahead, Pool!Word, Pool!BIG_STRIDE

\* Seen from the base of a window, Less compares distances.
LEMMA LessIsFurther ==
  ASSUME NEW b \in Pool!Word, NEW a \in Pool!Word, NEW c \in Pool!Word,
         Pool!Ahead(a, b) <= Pool!BIG_STRIDE, Pool!Ahead(c, b) <= Pool!BIG_STRIDE
  PROVE  Pool!Less(a, c) <=> Pool!Ahead(a, b) < Pool!Ahead(c, b)
BY WordAssumption DEF Pool!Less, Pool!Ahead, Pool!Word, Pool!BIG_STRIDE

\* All strides are 0 at first.
LEMMA FitsAtFirst ==
  ASSUME Pool!Init
  PROVE  Fits
<1>1. 0 \in Pool!Word /\ Pool!Ahead(0, 0) <= Pool!BIG_STRIDE
  BY WordAssumption DEF Pool!Word, Pool!Ahead, Pool!BIG_STRIDE
<1>2. QED BY <1>1 DEF Pool!Init, Fits, Pool!Window

\* A step goes from the stride of a process that nobody comes before.
LEMMA FitsKept ==
  ASSUME Fits, [Pool!Next]_stride
  PROVE  Fits'
<1>1. ASSUME NEW p \in Proc, Pool!Pick(p) PROVE Fits'
  <2>1. PICK step \in 0 .. Pool!BIG_STRIDE :
          stride' = [stride EXCEPT ![p] = Pool!Advance(@, step)]
    BY <1>1 DEF Pool!Pick
  <2>2. stride[p] \in Pool!Word BY <1>1 DEF Fits
  <2>3. stride' \in [Proc -> Pool!Word] BY <1>1, <2>1, <2>2, AdvanceWord DEF Fits
  <2>4. Pool!Ahead(stride'[p], stride[p]) <= Pool!BIG_STRIDE
    <3>1. Pool!Ahead(stride'[p], stride[p]) = step BY <1>1, <2>1, <2>2, AdvanceWord DEF Fits
    <3>2. QED BY <3>1, WordAssumption DEF Pool!BIG_STRIDE
  <2>5. ASSUME NEW q \in Proc, q # p
        PROVE  Pool!Ahead(stride'[q], stride[p]) <= Pool!BIG_STRIDE
    <3>1. stride'[q] = stride[q] /\ stride[q] \in Pool!Word BY <1>1, <2>1, <2>5 DEF Fits
    <3>2. ~Pool!Less(stride[q], stride[p]) BY <1>1 DEF Pool!Pick, Pool!First
    <3>3. QED BY <2>2, <3>1, <3>2, WordAssumption DEF Pool!Less, Pool!Ahead, Pool!Word, Pool!BIG_STRIDE
  <2>6. QED BY <2>2, <2>3, <2>4, <2>5 DEF Fits, Pool!Window
<1>2. CASE UNCHANGED stride BY <1>2 DEF Fits, Pool!Window
<1>3. QED BY <1>1, <1>2 DEF Pool!Next

(***************************************************************************)
(* No two competing processes are further apart than BIG_STRIDE, the step  *)
(* of priority 1: pick_next advances one that nobody comes before.         *)
(***************************************************************************)
THEOREM WindowHolds == Pool!Spec => []Pool!Window
<1>1. Fits => Pool!Window BY DEF Fits
<1>2. Pool!Init => Fits BY FitsAtFirst
<1>3. Fits /\ [Pool!Next]_stride => Fits' BY FitsKept
<1>4. QED BY <1>1, <1>2, <1>3, PTL DEF Pool!Spec

\* A set of natural numbers has a least one.
LEMMA NatLeast ==
  ASSUME NEW T \in SUBSET Nat, T # {}
  PROVE  \E n \in T : \A m \in T : n <= m
<1>1. PICK n \in T : \A m \in T : << m, n >> \notin OpToRel(<, Nat)
  BY NatLessThanWellFounded, WFMin
<1>2. \A m \in T : ~(m < n)
  BY <1>1 DEF OpToRel
<1>3. QED BY <1>2

\* The one whose distance from the base of the window is least.
LEMMA LeastIsFirst ==
  ASSUME Proc # {}, Fits
  PROVE  \E p \in Proc : Pool!First(p)
<1>1. PICK b \in Pool!Word : \A p \in Proc : Pool!Ahead(stride[p], b) <= Pool!BIG_STRIDE
  BY DEF Pool!Window, Fits
<1> DEFINE D == { Pool!Ahead(stride[p], b) : p \in Proc }
<1>2. D \subseteq Nat /\ D # {}
  <2>1. \A p \in Proc : stride[p] \in Pool!Word BY DEF Fits
  <2>2. \A p \in Proc : Pool!Ahead(stride[p], b) \in Nat
    BY <2>1, WordAssumption DEF Pool!Ahead, Pool!Word
  <2>3. QED BY <2>2
<1>3. PICK d \in D : \A e \in D : d <= e
  BY <1>2, NatLeast
<1>4. PICK p \in Proc : d = Pool!Ahead(stride[p], b)
  BY <1>3
<1>5. ASSUME NEW q \in Proc PROVE ~Pool!Less(stride[q], stride[p])
  <2>1. Pool!Ahead(stride[p], b) <= Pool!Ahead(stride[q], b) BY <1>3, <1>4
  <2>2. Pool!Ahead(stride[p], b) \in Nat /\ Pool!Ahead(stride[q], b) \in Nat BY <1>2
  <2>3. ~(Pool!Ahead(stride[q], b) < Pool!Ahead(stride[p], b)) BY <2>1, <2>2
  <2>4. stride[p] \in Pool!Word /\ stride[q] \in Pool!Word BY DEF Fits
  <2>5. QED BY <1>1, <2>3, <2>4, LessIsFurther
<1>6. QED BY <1>5 DEF Pool!First

(***************************************************************************)
(* Within a window the comparison is an order with a least element: some   *)
(* competing process has nobody before it, so that pick_next's choice of   *)
(* the minimum is well defined.                                            *)
(***************************************************************************)
THEOREM SomeoneIsFirst ==
  ASSUME Proc # {}
  PROVE  Pool!Spec => [](\E p \in Proc : Pool!First(p))
<1>1. Fits => \E p \in Proc : Pool!First(p)
  BY LeastIsFirst
<1>2. Pool!Init => Fits BY FitsAtFirst
<1>3. Fits /\ [Pool!Next]_stride => Fits' BY FitsKept
<1>4. QED BY <1>1, <1>2, <1>3, PTL DEF Pool!Spec

-----------------------------------------------------------------------------
(* Forests.  A ghost function gives the processes below each one, itself   *)
(* included.                                                               *)

Heaps == [left : [Proc -> Link], right : [Proc -> Link], parent : [Proc -> Link]]

\* The processes below a link.
Under(D, l) == IF l = NULL THEN {} ELSE D[l]

Node(h, D, p) ==
  /\ D[p] = {p} \cup Under(D, h.left[p]) \cup Under(D, h.right[p])
  /\ p \notin Under(D, h.left[p]) /\ p \notin Under(D, h.right[p])
  /\ Under(D, h.left[p]) \cap Under(D, h.right[p]) = {}
  /\ h.left[p] # NULL => h.left[p] \in D[h.left[p]] /\ h.parent[h.left[p]] = p
  /\ h.right[p] # NULL => h.right[p] \in D[h.right[p]] /\ h.parent[h.right[p]] = p
  /\ \A q \in D[p] : D[q] \subseteq D[p]

Forest(h, D, S) ==
  /\ D \in [Proc -> SUBSET Proc]
  /\ \A p \in S : Node(h, D, p)

Size(D, l) == Cardinality(Under(D, l))

\* A child has fewer processes below it.
LEMMA SizeFacts ==
  ASSUME NEW h \in Heaps, NEW D, Forest(h, D, Proc)
  PROVE  /\ \A l \in Link : Size(D, l) \in Nat /\ Size(D, l) <= Cardinality(Proc)
         /\ \A p \in Proc : Size(D, h.left[p]) < Size(D, p) /\ Size(D, h.right[p]) < Size(D, p)
<1>1. \A l \in Link : Under(D, l) \in SUBSET Proc
  BY DEF Link, Under, Forest
<1>2. IsFiniteSet(Proc) /\ NULL \notin Proc
  BY ProcAssumption
<1>3. \A l \in Link : Size(D, l) \in Nat /\ Size(D, l) <= Cardinality(Proc)
  BY <1>1, <1>2, FS_Subset, FS_CardinalityType DEF Size
<1>4. ASSUME NEW p \in Proc, NEW l \in Link, Under(D, l) \subseteq D[p], p \in D[p], p \notin Under(D, l)
      PROVE  Size(D, l) < Size(D, p)
  <2>1. Under(D, p) = D[p] /\ p \in Link
    BY <1>2 DEF Under, Link
  <2>2. IsFiniteSet(D[p]) /\ Cardinality(D[p]) \in Nat
    BY <1>1, <1>2, <2>1, FS_Subset, FS_CardinalityType
  <2>3. /\ Cardinality(Under(D, l)) <= Cardinality(D[p])
        /\ Cardinality(D[p]) = Cardinality(Under(D, l)) => D[p] = Under(D, l)
    BY <1>4, <2>2, FS_Subset
  <2> QED  BY <1>3, <1>4, <2>1, <2>2, <2>3 DEF Size
<1>5. ASSUME NEW p \in Proc
      PROVE  Size(D, h.left[p]) < Size(D, p) /\ Size(D, h.right[p]) < Size(D, p)
  <2>1. h.left[p] \in Link /\ h.right[p] \in Link
    BY DEF Heaps
  <2>2. Node(h, D, p)
    BY DEF Forest
  <2>3. /\ p \in D[p] /\ p \notin Under(D, h.left[p]) /\ p \notin Under(D, h.right[p])
        /\ Under(D, h.left[p]) \subseteq D[p] /\ Under(D, h.right[p]) \subseteq D[p]
    BY <2>2 DEF Node
  <2> QED  BY <2>1, <2>3, <1>4
<1> QED  BY <1>3, <1>5

\* What holds of a process when it holds of its children holds of all.
LEMMA ForestInduction ==
  ASSUME NEW h \in Heaps, NEW D, Forest(h, D, Proc), NEW T,
         \A p \in Proc : (h.left[p] \in T \cup {NULL} /\ h.right[p] \in T \cup {NULL}) => p \in T
  PROVE  Proc \subseteq T
<1> DEFINE Bad == {n \in Nat : \E p \in Proc : p \notin T /\ n = Size(D, p)}
<1>1. CASE Bad = {}
  <2>1. \A p \in Proc : Size(D, p) \in Nat
    BY SizeFacts DEF Link
  <2> QED  BY <1>1, <2>1
<1>2. CASE Bad # {}
  <2>1. PICK n \in Bad : \A m \in Bad : n <= m
    BY <1>2, NatLeast
  <2>2. PICK p \in Proc : p \notin T /\ n = Size(D, p)
    BY <2>1
  <2>3. ASSUME NEW c \in Link, Size(D, c) < Size(D, p)
        PROVE  c \in T \cup {NULL}
    <3>1. Size(D, c) \in Nat /\ Size(D, p) \in Nat
      BY SizeFacts DEF Link
    <3>2. Size(D, c) \notin Bad
      <4> HIDE DEF Bad
      <4> QED  BY <2>1, <2>2, <2>3, <3>1
    <3> QED  BY <3>1, <3>2 DEF Link
  <2>4. /\ h.left[p] \in Link /\ Size(D, h.left[p]) < Size(D, p)
        /\ h.right[p] \in Link /\ Size(D, h.right[p]) < Size(D, p)
    BY SizeFacts DEF Heaps
  <2> QED  BY <2>2, <2>3, <2>4
<1> QED  BY <1>1, <1>2

-----------------------------------------------------------------------------
(* skew_heap_merge ends: each of its calls has fewer processes below.      *)

\* One call of skew_heap_merge, which takes the inner call from f.
Call(f, h, s, p, q) ==
  IF p = NULL \/ q = NULL THEN [root |-> IF p = NULL THEN q ELSE p, heap |-> h]
  ELSE IF Before(p, q, s) THEN Above(p, f[<< h.right[p], q >>], h.left[p])
  ELSE Above(q, f[<< p, h.right[q] >>], h.left[q])

Merges(f, h, s) == f = [x \in Link \X Link |-> Call(f, h, s, x[1], x[2])]

\* A function takes every call from the calls it makes.
LEMMA MergeRuns ==
  ASSUME NEW h \in Heaps, NEW D, Forest(h, D, Proc), NEW s
  PROVE  \E f : Merges(f, h, s)
<1> DEFINE M(x) == Size(D, x[1]) + Size(D, x[2])
           Dom(n) == {x \in Link \X Link : M(x) <= n}
           Run(n, f) == f = [x \in Dom(n) |-> Call(f, h, s, x[1], x[2])]
           T == {n \in Nat : ~\E f : Run(n, f)}
<1>1. \A x \in Link \X Link : M(x) \in Nat /\ M(x) <= Cardinality(Proc) + Cardinality(Proc)
  <2>1. Cardinality(Proc) \in Nat
    BY ProcAssumption, FS_CardinalityType
  <2>2. ASSUME NEW x \in Link \X Link
        PROVE  M(x) \in Nat /\ M(x) <= Cardinality(Proc) + Cardinality(Proc)
    <3>1. x[1] \in Link /\ x[2] \in Link
      OBVIOUS
    <3>2. /\ Size(D, x[1]) \in Nat /\ Size(D, x[1]) <= Cardinality(Proc)
          /\ Size(D, x[2]) \in Nat /\ Size(D, x[2]) <= Cardinality(Proc)
      BY <3>1, SizeFacts
    <3> QED  BY <2>1, <3>2
  <2> QED  BY <2>2
<1>2. ASSUME NEW p \in Proc, NEW q \in Proc
      PROVE  /\ << h.right[p], q >> \in Link \X Link /\ M(<< h.right[p], q >>) < M(<< p, q >>)
             /\ << p, h.right[q] >> \in Link \X Link /\ M(<< p, h.right[q] >>) < M(<< p, q >>)
  <2>1. /\ p \in Link /\ q \in Link /\ h.right[p] \in Link /\ h.right[q] \in Link
    BY DEF Heaps, Link
  <2>2. /\ Size(D, p) \in Nat /\ Size(D, q) \in Nat
        /\ Size(D, h.right[p]) \in Nat /\ Size(D, h.right[q]) \in Nat
        /\ Size(D, h.right[p]) < Size(D, p) /\ Size(D, h.right[q]) < Size(D, q)
    BY <2>1, SizeFacts
  <2> QED  BY <2>1, <2>2
<1> HIDE DEF M
<1>3. T = {}
  <2> SUFFICES ASSUME T # {} PROVE FALSE
    OBVIOUS
  <2>1. PICK m \in T : \A n \in T : m <= n
    BY NatLeast
  <2>2. PICK d : m # 0 => Run(m - 1, d)
    <3>1. CASE m = 0
      BY <3>1
    <3>2. CASE m # 0
      <4>1. m - 1 \in Nat /\ ~(m <= m - 1)
        BY <3>2
      <4>2. m - 1 \notin T
        <5> HIDE DEF T
        <5> QED  BY <4>1, <2>1
      <4>3. ~(~\E f : Run(m - 1, f))
        <5> HIDE DEF Run
        <5> QED  BY <4>1, <4>2
      <4> QED  BY <4>3
    <3> QED  BY <3>1, <3>2
  <2> DEFINE e == [x \in Dom(m) |-> Call(d, h, s, x[1], x[2])]
  <2>3. ASSUME NEW x \in Dom(m), NEW y \in Link \X Link, M(y) < M(x)
        PROVE  e[y] = d[y]
    <3>1. x \in Link \X Link /\ M(x) <= m /\ m \in Nat
      BY <2>1
    <3>2. M(x) \in Nat /\ M(y) \in Nat
      BY <1>1, <3>1
    <3>3. m # 0 /\ M(y) <= m /\ M(y) <= m - 1
      BY <2>3, <3>1, <3>2
    <3>4. y \in Dom(m) /\ y \in Dom(m - 1)
      BY <3>3
    <3>5. e[y] = Call(d, h, s, y[1], y[2])
      BY <3>4
    <3>6. d[y] = Call(d, h, s, y[1], y[2])
      <4>1. d = [z \in Dom(m - 1) |-> Call(d, h, s, z[1], z[2])]
        BY <2>2, <3>3
      <4> HIDE DEF Dom
      <4> QED  BY <4>1, <3>4
    <3> QED  BY <3>5, <3>6
  <2>4. ASSUME NEW x \in Dom(m)
        PROVE  Call(e, h, s, x[1], x[2]) = Call(d, h, s, x[1], x[2])
    <3>1. PICK p \in Link, q \in Link : x = << p, q >>
      OBVIOUS
    <3>2. x[1] = p /\ x[2] = q
      BY <3>1
    <3>3. CASE p = NULL \/ q = NULL
      BY <3>2, <3>3 DEF Call
    <3>4. CASE p # NULL /\ q # NULL
      <4>1. p \in Proc /\ q \in Proc
        BY <3>4 DEF Link
      <4>2. e[<< h.right[p], q >>] = d[<< h.right[p], q >>]
        BY <4>1, <3>1, <1>2, <2>3
      <4>3. e[<< p, h.right[q] >>] = d[<< p, h.right[q] >>]
        BY <4>1, <3>1, <1>2, <2>3
      <4> HIDE DEF e
      <4> QED  BY <3>2, <4>2, <4>3 DEF Call
    <3> QED  BY <3>3, <3>4
  <2>5. Run(m, e)
    BY <2>4
  <2> QED  BY <2>1, <2>5
<1>4. PICK N \in Nat : N = Cardinality(Proc) + Cardinality(Proc)
  BY ProcAssumption, FS_CardinalityType
<1>5. PICK f : Run(N, f)
  BY <1>3
<1>6. Dom(N) = Link \X Link
  BY <1>1, <1>4
<1> HIDE DEF Dom
<1> QED  BY <1>5, <1>6 DEF Merges

\* The calls of skew_heap_merge, the links of whose entries form a forest.
LEMMA MergeFacts ==
  ASSUME NEW h \in Heaps, NEW D, Forest(h, D, Proc), NEW s, NEW p \in Link, NEW q \in Link
  PROVE  /\ p = NULL \/ q = NULL =>
              HeapMerge(h, p, q, s) = [root |-> IF p = NULL THEN q ELSE p, heap |-> h]
         /\ p # NULL /\ q # NULL /\ Before(p, q, s) =>
              HeapMerge(h, p, q, s) = Above(p, HeapMerge(h, h.right[p], q, s), h.left[p])
         /\ p # NULL /\ q # NULL /\ ~Before(p, q, s) =>
              HeapMerge(h, p, q, s) = Above(q, HeapMerge(h, p, h.right[q], s), h.left[q])
<1> DEFINE f == CHOOSE g : Merges(g, h, s)
<1>1. Merges(f, h, s)
  BY MergeRuns
<1>2. \A a, b : HeapMerge(h, a, b, s) = f[<< a, b >>]
  BY DEF HeapMerge, Merges, Call
<1> HIDE DEF f
<1>3. HeapMerge(h, p, q, s) = Call(f, h, s, p, q)
  <2>1. << p, q >> \in Link \X Link /\ << p, q >>[1] = p /\ << p, q >>[2] = q
    OBVIOUS
  <2>2. f[<< p, q >>] = Call(f, h, s, p, q)
    BY <1>1, <2>1 DEF Merges
  <2> QED  BY <1>2, <2>2
<1> QED  BY <1>2, <1>3 DEF Call

-----------------------------------------------------------------------------
(* What a merge does.                                                      *)

\* c may stand below p.
Later(s, c, p) == ~(Pool!Less(s[c], s[p]) /\ ~Pool!Less(s[p], s[c]))

InOrder(h, s, S) ==
  \A p \in S : /\ h.left[p] # NULL => Later(s, h.left[p], p)
               /\ h.right[p] # NULL => Later(s, h.right[p], p)

SameLinks(h, k, p) ==
  k.left[p] = h.left[p] /\ k.right[p] = h.right[p] /\ k.parent[p] = h.parent[p]

\* m is a heap of the processes S, which h had below a and b.
Joined(m, h, D, s, a, b, S) ==
  /\ m.heap \in Heaps /\ m.root \in {a, b} /\ (m.root = NULL => a = NULL /\ b = NULL)
  /\ \A p \in Proc \ S : SameLinks(h, m.heap, p)
  /\ m.root # NULL => m.heap.parent[m.root] = h.parent[m.root]
  /\ InOrder(m.heap, s, S)
  /\ \E E : /\ Forest(m.heap, E, S) /\ Under(E, m.root) = S
            /\ \A p \in Proc \ S : E[p] = D[p]

\* g is h with other children of p.
Relinked(g, h, p, l, r) ==
  /\ g \in Heaps /\ g.parent = h.parent
  /\ \A q \in Proc : /\ g.left[q] = IF q = p THEN l ELSE h.left[q]
                     /\ g.right[q] = IF q = p THEN r ELSE h.right[q]

\* g is h with the parent u of c, if c is an entry.
Reparented(g, h, c, u) ==
  /\ g \in Heaps /\ g.left = h.left /\ g.right = h.right
  /\ \A q \in Proc : g.parent[q] = IF q = c THEN u ELSE h.parent[q]

\* The new children are those of p alone.
LEMMA WithLinksFacts ==
  ASSUME NEW h \in Heaps, NEW p \in Proc, NEW l \in Link, NEW r \in Link
  PROVE  Relinked(WithLinks(h, p, l, r), h, p, l, r)
<1>1. h.left \in [Proc -> Link] /\ h.right \in [Proc -> Link]
  BY DEF Heaps
<1>2. PICK f \in [Proc -> Link] : f = [h.left EXCEPT ![p] = l]
  BY <1>1
<1>3. PICK g \in [Proc -> Link] : g = [h.right EXCEPT ![p] = r]
  BY <1>1
<1>4. WithLinks(h, p, l, r) = [h EXCEPT !.left = f, !.right = g]
  BY <1>2, <1>3 DEF WithLinks
<1>5. \A q \in Proc : f[q] = (IF q = p THEN l ELSE h.left[q]) /\ g[q] = (IF q = p THEN r ELSE h.right[q])
  BY <1>1, <1>2, <1>3
<1> QED  BY <1>4, <1>5 DEF Heaps, Relinked

\* Only c gets another parent, and NULL gets none.
LEMMA WithParentFacts ==
  ASSUME NEW h \in Heaps, NEW c \in Link, NEW u \in Link
  PROVE  Reparented(WithParent(h, c, u), h, c, u)
<1>1. CASE c = NULL
  <2>1. \A q \in Proc : q # c
    BY <1>1, ProcAssumption
  <2> QED  BY <1>1, <2>1 DEF WithParent, Reparented
<1>2. CASE c # NULL
  <2>1. h.parent \in [Proc -> Link]
    BY DEF Heaps
  <2>2. PICK f \in [Proc -> Link] : f = [h.parent EXCEPT ![c] = u]
    BY <2>1
  <2>3. WithParent(h, c, u) = [h EXCEPT !.parent = f]
    BY <1>2, <2>2 DEF WithParent
  <2>4. \A q \in Proc : f[q] = IF q = c THEN u ELSE h.parent[q]
    BY <2>1, <2>2
  <2> QED  BY <2>3, <2>4 DEF Heaps, Reparented
<1> QED  BY <1>1, <1>2

\* The result of linking p above m.
IsAbove(k, m, p, r) ==
  /\ k \in Heaps
  /\ \A q \in Proc :
       /\ k.left[q] = IF q = p THEN m.root ELSE m.heap.left[q]
       /\ k.right[q] = IF q = p THEN r ELSE m.heap.right[q]
       /\ k.parent[q] = IF q = m.root THEN p ELSE m.heap.parent[q]

\* What skew_heap_merge writes once the inner call has returned.
LEMMA AboveFacts ==
  ASSUME NEW m, m.heap \in Heaps, m.root \in Link, NEW p \in Proc, NEW r \in Link
  PROVE  Above(p, m, r).root = p /\ IsAbove(Above(p, m, r).heap, m, p, r)
<1>1. PICK h \in Heaps, l \in Link : h = m.heap /\ l = m.root
  OBVIOUS
<1>2. PICK g : g = WithLinks(h, p, l, r)
  OBVIOUS
<1>3. Relinked(g, h, p, l, r)
  BY <1>2, WithLinksFacts
<1>4. g \in Heaps /\ p \in Link
  BY <1>3 DEF Relinked, Link
<1>5. PICK k : k = WithParent(g, l, p)
  OBVIOUS
<1>6. Reparented(k, g, l, p)
  BY <1>4, <1>5, WithParentFacts
<1>7. Above(p, m, r) = [root |-> p, heap |-> k]
  BY <1>1, <1>2, <1>5 DEF Above
<1>8. IsAbove(k, m, p, r)
  BY <1>1, <1>3, <1>6 DEF Relinked, Reparented, IsAbove
<1> QED  BY <1>7, <1>8

\* What the links of x and of those below say of x stays true with them.
LEMMA NodeSame ==
  ASSUME NEW h \in Heaps, NEW D, NEW k \in Heaps, NEW F, NEW x \in Proc, Node(h, D, x),
         k.left[x] = h.left[x], k.right[x] = h.right[x],
         \A y \in D[x] : F[y] = D[y],
         \A y \in D[x] : y # x => k.parent[y] = h.parent[y]
  PROVE  Node(k, F, x)
<1>1. x \in D[x] /\ F[x] = D[x]
  BY DEF Node
<1>2. ASSUME NEW c \in {h.left[x], h.right[x]}
      PROVE  /\ Under(F, c) = Under(D, c)
             /\ c # NULL => c \in F[c] /\ k.parent[c] = x
  <2>1. CASE c = NULL
    BY <2>1 DEF Under
  <2>2. CASE c # NULL
    <3>1. c \in D[c] /\ h.parent[c] = x /\ c \in D[x] /\ c # x
      BY <2>2 DEF Node, Under
    <3>2. F[c] = D[c] /\ k.parent[c] = h.parent[c]
      BY <3>1
    <3> QED  BY <2>2, <3>1, <3>2 DEF Under
  <2> QED  BY <2>1, <2>2
<1> QED  BY <1>1, <1>2 DEF Node

\* The root of a tree is below no other process of the tree.
LEMMA RootBelowNone ==
  ASSUME NEW h \in Heaps, NEW D, NEW S, Forest(h, D, S), NEW t \in S, D[t] = S, NEW x \in S, x # t
  PROVE  t \notin D[x]
<1> SUFFICES ASSUME t \in D[x] PROVE FALSE
  OBVIOUS
<1>1. Node(h, D, x) /\ Node(h, D, t)
  BY DEF Forest
<1>2. PICK c \in {h.left[x], h.right[x]} : c # NULL /\ t \in D[c] /\ x \notin D[c]
  BY <1>1 DEF Node, Under
<1>3. c \in D[x] /\ D[x] \subseteq S
  BY <1>1, <1>2 DEF Node, Under
<1>4. Node(h, D, c)
  BY <1>3 DEF Forest
<1>5. D[t] \subseteq D[c]
  BY <1>2, <1>4 DEF Node
<1> QED  BY <1>2, <1>5

\* The inner merge, linked below p.
LEMMA AboveJoins ==
  ASSUME NEW h \in Heaps, NEW D, Forest(h, D, Proc), NEW s,
         NEW p \in Proc, NEW q \in Proc, D[p] \cap D[q] = {},
         NEW A, A = D[p] \cup D[q], NEW B, B = Under(D, h.right[p]) \cup D[q],
         InOrder(h, s, A), Later(s, q, p),
         NEW m, Joined(m, h, D, s, h.right[p], q, B)
  PROVE  Joined(Above(p, m, h.left[p]), h, D, s, p, q, A)
<1>1. PICK l \in Link, r \in Link : l = h.left[p] /\ r = h.right[p]
  BY DEF Heaps
<1>2. PICK L, R : L = Under(D, l) /\ R = Under(D, r)
  OBVIOUS
<1>3. \A x \in Proc : Node(h, D, x) /\ x \in D[x] /\ D[x] \subseteq Proc
  BY DEF Forest, Node
<1>4. D[p] = {p} \cup L \cup R /\ p \notin L /\ p \notin R /\ L \cap R = {}
  BY <1>1, <1>2, <1>3 DEF Node
<1>5. /\ A = {p} \cup L \cup B /\ p \notin B /\ L \cap B = {} /\ A \subseteq Proc
      /\ B = R \cup D[q]
  BY <1>1, <1>2, <1>3, <1>4
<1>6. p # NULL /\ q # NULL
  BY ProcAssumption
<1>7. PICK t : t = m.root /\ t \in {r, q} /\ t # NULL
  BY <1>1, <1>6 DEF Joined
<1>8. t \in Proc /\ t \in B /\ t # p /\ t \notin L
  <2>1. t \in Proc /\ t \in D[t]
    BY <1>3, <1>7 DEF Link
  <2>2. t \in B
    BY <1>2, <1>5, <1>7, <2>1 DEF Under
  <2> QED  BY <2>1, <2>2, <1>5
<1>9. /\ l # NULL => l \in Proc /\ l \in L /\ l # p /\ l # t /\ h.parent[l] = p
      /\ l # NULL => Later(s, l, p)
      /\ r # NULL => Later(s, r, p)
  <2>1. p \in A
    BY <1>5
  <2>2. /\ l # NULL => Later(s, l, p)
        /\ r # NULL => Later(s, r, p)
    BY <2>1, <1>1 DEF InOrder
  <2>3. ASSUME l # NULL
        PROVE  l \in Proc /\ l \in L /\ l # p /\ l # t /\ h.parent[l] = p
    <3>1. l \in Proc /\ l \in L
      BY <1>2, <1>3, <2>3 DEF Link, Under
    <3>2. h.parent[l] = p
      BY <1>1, <1>3, <2>3 DEF Node
    <3> QED  BY <3>1, <3>2, <1>4, <1>8
  <2> QED  BY <2>2, <2>3
<1>10. PICK g : g = m.heap
  OBVIOUS
<1>11. /\ g \in Heaps /\ \A x \in Proc \ B : SameLinks(h, g, x)
       /\ InOrder(g, s, B)
  BY <1>10 DEF Joined
<1>12. PICK E : /\ Forest(g, E, B) /\ E[t] = B
                /\ \A x \in Proc \ B : E[x] = D[x]
  BY <1>7, <1>10 DEF Joined, Under
<1>13. PICK k : k = Above(p, m, l).heap
  OBVIOUS
<1>14. Above(p, m, l).root = p /\ IsAbove(k, m, p, l)
  <2>1. m.heap \in Heaps /\ m.root \in Link
    BY <1>7, <1>8, <1>10, <1>11 DEF Link
  <2> QED  BY <2>1, <1>13, AboveFacts
<1>15. /\ k \in Heaps
       /\ \A x \in Proc : /\ k.left[x] = IF x = p THEN t ELSE g.left[x]
                          /\ k.right[x] = IF x = p THEN l ELSE g.right[x]
                          /\ k.parent[x] = IF x = t THEN p ELSE g.parent[x]
  BY <1>7, <1>10, <1>14 DEF IsAbove
<1>16. ASSUME NEW x \in B
       PROVE  Node(g, E, x) /\ E[x] \subseteq B
  <2>1. Node(g, E, x) /\ Node(g, E, t)
    BY <1>8, <1>12 DEF Forest
  <2> QED  BY <2>1, <1>12 DEF Node
<1>17. ASSUME NEW x \in L
       PROVE  x \in Proc /\ Node(h, D, x) /\ D[x] \subseteq L
  <2>1. l # NULL /\ L = D[l]
    BY <1>2 DEF Under
  <2>2. Node(h, D, l) /\ x \in Proc
    BY <2>1, <1>3, <1>9
  <2> QED  BY <2>1, <2>2, <1>3 DEF Node
<1>18. PICK F : F = [E EXCEPT ![p] = A]
  OBVIOUS
<1>19. /\ F \in [Proc -> SUBSET Proc] /\ F[p] = A
       /\ \A x \in Proc : x # p => F[x] = E[x]
  <2>1. E \in [Proc -> SUBSET Proc]
    BY <1>12 DEF Forest
  <2> QED  BY <2>1, <1>5, <1>18
<1>20. ASSUME NEW x \in B
       PROVE  Node(k, F, x)
  <2>1. x \in Proc /\ x # p
    BY <1>5
  <2>2. k.left[x] = g.left[x] /\ k.right[x] = g.right[x]
    BY <1>15, <2>1
  <2>3. ASSUME NEW y \in E[x]
        PROVE  F[y] = E[y] /\ (y # x => k.parent[y] = g.parent[y])
    <3>1. y \in Proc /\ y \in B /\ y # p
      BY <1>5, <1>16
    <3>2. y # x => y # t
      <4>1. x # t => t \notin E[x]
        BY <1>8, <1>11, <1>12, RootBelowNone
      <4> QED  BY <4>1
    <3> QED  BY <3>1, <3>2, <1>15, <1>19
  <2>4. Node(g, E, x)
    BY <1>16
  <2> QED  BY <2>1, <2>2, <2>3, <2>4, <1>11, <1>15, NodeSame
<1>21. ASSUME NEW x \in L
       PROVE  Node(k, F, x) /\ k.left[x] = h.left[x] /\ k.right[x] = h.right[x]
  <2>1. x \in Proc /\ x # p /\ x \notin B /\ Node(h, D, x)
    BY <1>4, <1>5, <1>17
  <2>2. k.left[x] = h.left[x] /\ k.right[x] = h.right[x]
    BY <1>11, <1>15, <2>1 DEF SameLinks
  <2>3. ASSUME NEW y \in D[x]
        PROVE  F[y] = D[y] /\ k.parent[y] = h.parent[y]
    <3>1. y \in Proc /\ y # p /\ y \notin B /\ y # t
      BY <1>4, <1>5, <1>8, <1>17
    <3> QED  BY <3>1, <1>11, <1>12, <1>15, <1>19 DEF SameLinks
  <2>4. Node(k, F, x)
    BY <2>1, <2>2, <2>3, <1>15, NodeSame
  <2> QED  BY <2>2, <2>4
<1>22. Node(k, F, p)
  <2>1. k.left[p] = t /\ k.right[p] = l
    BY <1>15
  <2>2. Under(F, t) = B
    BY <1>7, <1>8, <1>12, <1>19 DEF Under
  <2>3. Under(F, l) = L
    <3>1. CASE l = NULL
      BY <3>1, <1>2 DEF Under
    <3>2. CASE l # NULL
      <4>1. F[l] = D[l]
        BY <3>2, <1>5, <1>9, <1>12, <1>19
      <4> QED  BY <3>2, <4>1, <1>2 DEF Under
    <3> QED  BY <3>1, <3>2
  <2>4. t \in F[t] /\ k.parent[t] = p
    BY <1>7, <1>8, <1>15, <2>2 DEF Under
  <2>5. l # NULL => l \in F[l] /\ k.parent[l] = p
    <3>1. l # NULL => k.parent[l] = h.parent[l]
      BY <1>5, <1>9, <1>11, <1>15 DEF SameLinks
    <3> QED  BY <3>1, <1>9, <2>3 DEF Under
  <2>6. ASSUME NEW y \in F[p]
        PROVE  F[y] \subseteq F[p]
    <3>1. CASE y = p
      BY <3>1
    <3>2. CASE y \in B
      BY <3>2, <1>5, <1>16, <1>19
    <3>3. CASE y \in L
      BY <3>3, <1>5, <1>12, <1>17, <1>19
    <3> QED  BY <3>1, <3>2, <3>3, <1>5, <1>19
  <2>7. PICK Z : Z = F[p] /\ Z = {p} \cup B \cup L
    BY <1>5, <1>19
  <2>8. /\ F[p] = {p} \cup Under(F, k.left[p]) \cup Under(F, k.right[p])
        /\ p \notin Under(F, k.left[p]) /\ p \notin Under(F, k.right[p])
        /\ Under(F, k.left[p]) \cap Under(F, k.right[p]) = {}
    BY ONLY <2>1, <2>2, <2>3, <2>7, <1>4, <1>5
  <2> QED  BY ONLY <2>1, <2>4, <2>5, <2>6, <2>8 DEF Node
<1>23. InOrder(k, s, A)
  <2>1. ASSUME NEW x \in A
        PROVE  /\ k.left[x] # NULL => Later(s, k.left[x], x)
               /\ k.right[x] # NULL => Later(s, k.right[x], x)
    <3>1. CASE x = p
      <4>1. k.left[x] = t /\ k.right[x] = l
        BY <3>1, <1>15
      <4> QED  BY <3>1, <4>1, <1>7, <1>9
    <3>2. CASE x \in B
      <4>1. k.left[x] = g.left[x] /\ k.right[x] = g.right[x]
        BY <3>2, <1>5, <1>15
      <4> QED  BY <3>2, <4>1, <1>11 DEF InOrder
    <3>3. CASE x \in L
      <4>1. k.left[x] = h.left[x] /\ k.right[x] = h.right[x]
        BY <3>3, <1>21
      <4> QED  BY <4>1 DEF InOrder
    <3> QED  BY <3>1, <3>2, <3>3, <1>5
  <2> QED  BY <2>1 DEF InOrder
<1>24. \A x \in Proc \ A : SameLinks(h, k, x)
  BY <1>5, <1>8, <1>11, <1>15 DEF SameLinks
<1>25. k.parent[p] = h.parent[p]
  BY <1>5, <1>8, <1>11, <1>15 DEF SameLinks
<1>26. /\ Forest(k, F, A) /\ Under(F, p) = A
       /\ \A x \in Proc \ A : F[x] = D[x]
  <2>1. Forest(k, F, A)
    BY <1>5, <1>19, <1>20, <1>21, <1>22 DEF Forest
  <2> QED  BY <2>1, <1>5, <1>6, <1>12, <1>19 DEF Under
<1>27. PICK a : a = Above(p, m, h.left[p]) /\ a.root = p /\ a.heap = k
  BY <1>1, <1>13, <1>14
<1>28. Joined(a, h, D, s, p, q, A)
  BY ONLY <1>6, <1>15, <1>23, <1>24, <1>25, <1>26, <1>27 DEF Joined
<1> QED  BY <1>27, <1>28

\* It does not matter which of the two heaps comes first.
LEMMA JoinedSym ==
  ASSUME NEW m, NEW h, NEW D, NEW s, NEW a, NEW b, NEW S, Joined(m, h, D, s, a, b, S)
  PROVE  Joined(m, h, D, s, b, a, S)
BY DEF Joined

\* The heaps below a and b can be merged.
Apart(h, D, s, a, b) ==
  /\ Under(D, a) \cap Under(D, b) = {}
  /\ InOrder(h, s, Under(D, a) \cup Under(D, b))

MergeGood(h, D, s, a, b) ==
  Apart(h, D, s, a, b) =>
    Joined(HeapMerge(h, a, b, s), h, D, s, a, b, Under(D, a) \cup Under(D, b))

\* A merge with an empty heap changes nothing.
LEMMA MergeEmpty ==
  ASSUME NEW h \in Heaps, NEW D, Forest(h, D, Proc), NEW s,
         NEW a \in Link, NEW b \in Link, a = NULL \/ b = NULL
  PROVE  MergeGood(h, D, s, a, b)
<1> SUFFICES ASSUME Apart(h, D, s, a, b)
             PROVE  Joined(HeapMerge(h, a, b, s), h, D, s, a, b, Under(D, a) \cup Under(D, b))
  BY DEF MergeGood
<1>1. PICK c \in Link : c = IF a = NULL THEN b ELSE a
  OBVIOUS
<1>2. HeapMerge(h, a, b, s) = [root |-> c, heap |-> h]
  BY <1>1, MergeFacts
<1>3. PICK S : S = Under(D, a) \cup Under(D, b)
  OBVIOUS
<1>4. S = Under(D, c) /\ S \subseteq Proc
  BY <1>1, <1>3 DEF Under, Forest, Link
<1>5. InOrder(h, s, S)
  BY <1>3 DEF Apart
<1>6. Forest(h, D, S)
  BY <1>4 DEF Forest
<1>7. PICK m : m = [root |-> c, heap |-> h]
  OBVIOUS
<1>8. \A x \in Proc \ S : SameLinks(h, h, x)
  BY DEF SameLinks
<1>9. m.root = c /\ m.heap = h
  BY <1>7
<1>10. Joined(m, h, D, s, a, b, S)
  BY <1>1, <1>4, <1>5, <1>6, <1>8, <1>9 DEF Joined
<1> QED  BY <1>2, <1>3, <1>7, <1>10

\* The heap of p is merged with that of q below p.
LEMMA MergeBelow ==
  ASSUME NEW h \in Heaps, NEW D, Forest(h, D, Proc), NEW s,
         NEW p \in Proc, NEW q \in Proc, Apart(h, D, s, p, q), Later(s, q, p),
         NEW m, Apart(h, D, s, h.right[p], q) =>
                  Joined(m, h, D, s, h.right[p], q, Under(D, h.right[p]) \cup Under(D, q))
  PROVE  Joined(Above(p, m, h.left[p]), h, D, s, p, q, Under(D, p) \cup Under(D, q))
<1>1. Under(D, p) = D[p] /\ Under(D, q) = D[q]
  BY ProcAssumption DEF Under
<1>2. Under(D, h.right[p]) \subseteq D[p]
  BY DEF Forest, Node
<1>3. Apart(h, D, s, h.right[p], q)
  BY <1>1, <1>2 DEF Apart, InOrder
<1>4. D[p] \cap D[q] = {} /\ InOrder(h, s, D[p] \cup D[q])
  BY <1>1 DEF Apart
<1>5. Joined(m, h, D, s, h.right[p], q, Under(D, h.right[p]) \cup D[q])
  BY <1>1, <1>3
<1> QED  BY <1>1, <1>4, <1>5, AboveJoins

(***************************************************************************)
(* skew_heap_merge makes one heap of two that share no process.            *)
(***************************************************************************)
LEMMA MergeJoins ==
  ASSUME NEW h \in Heaps, NEW D, Forest(h, D, Proc), NEW s
  PROVE  \A a, b \in Link : MergeGood(h, D, s, a, b)
<1> DEFINE Bad == {n \in Nat : \E a, b \in Link : ~MergeGood(h, D, s, a, b) /\ n = Size(D, a) + Size(D, b)}
<1>1. \A a, b \in Link : Size(D, a) \in Nat /\ Size(D, b) \in Nat /\ Size(D, a) + Size(D, b) \in Nat
  BY SizeFacts
<1>2. CASE Bad = {}
  BY <1>1, <1>2
<1>3. CASE Bad # {}
  <2>1. PICK n \in Bad : \A i \in Bad : n <= i
    BY <1>3, NatLeast
  <2>2. PICK a \in Link, b \in Link : ~MergeGood(h, D, s, a, b) /\ n = Size(D, a) + Size(D, b)
    BY <2>1
  <2>3. ASSUME NEW c \in Link, NEW d \in Link, Size(D, c) + Size(D, d) < n
        PROVE  MergeGood(h, D, s, c, d)
    <3>1. Size(D, c) + Size(D, d) \in Nat
      BY <1>1
    <3>2. Size(D, c) + Size(D, d) \notin Bad
      <4> HIDE DEF Bad
      <4> QED  BY <2>1, <2>2, <2>3, <3>1, <1>1
    <3> QED  BY <3>1, <3>2
  <2>4. a # NULL /\ b # NULL /\ a \in Proc /\ b \in Proc
    BY <2>2, MergeEmpty DEF Link
  <2>5. h.right[a] \in Link /\ h.right[b] \in Link /\ h.left[a] \in Link /\ h.left[b] \in Link
    BY <2>4 DEF Heaps
  <2>6. Size(D, h.right[a]) < Size(D, a) /\ Size(D, h.right[b]) < Size(D, b)
    BY <2>4, SizeFacts
  <2>7. Size(D, h.right[a]) + Size(D, b) < n /\ Size(D, a) + Size(D, h.right[b]) < n
    BY <2>2, <2>5, <2>6, <1>1
  <2>8. MergeGood(h, D, s, h.right[a], b) /\ MergeGood(h, D, s, a, h.right[b])
    BY <2>3, <2>5, <2>7
  <2>9. Apart(h, D, s, a, b)
    BY <2>2 DEF MergeGood
  <2>10. CASE Before(a, b, s)
    <3>1. HeapMerge(h, a, b, s) = Above(a, HeapMerge(h, h.right[a], b, s), h.left[a])
      BY <2>4, <2>10, MergeFacts
    <3>2. Later(s, b, a)
      BY <2>10 DEF Later, Before
    <3>3. PICK m : m = HeapMerge(h, h.right[a], b, s)
      OBVIOUS
    <3>4. Apart(h, D, s, h.right[a], b) =>
            Joined(m, h, D, s, h.right[a], b, Under(D, h.right[a]) \cup Under(D, b))
      BY <2>8, <3>3 DEF MergeGood
    <3>5. Joined(Above(a, m, h.left[a]), h, D, s, a, b, Under(D, a) \cup Under(D, b))
      BY <2>4, <2>9, <3>2, <3>4, MergeBelow
    <3> QED  BY <3>1, <3>3, <3>5, <2>2 DEF MergeGood
  <2>11. CASE ~Before(a, b, s)
    <3>1. HeapMerge(h, a, b, s) = Above(b, HeapMerge(h, a, h.right[b], s), h.left[b])
      BY <2>4, <2>11, MergeFacts
    <3>2. Later(s, a, b)
      BY <2>11 DEF Later, Before
    <3>3. PICK m : m = HeapMerge(h, a, h.right[b], s)
      OBVIOUS
    <3>4. \A c, d : /\ Under(D, c) \cup Under(D, d) = Under(D, d) \cup Under(D, c)
                    /\ Apart(h, D, s, c, d) => Apart(h, D, s, d, c)
      BY DEF Apart, InOrder
    <3>5. Apart(h, D, s, h.right[b], a) =>
            Joined(m, h, D, s, h.right[b], a, Under(D, h.right[b]) \cup Under(D, a))
      <4> SUFFICES ASSUME Apart(h, D, s, h.right[b], a)
                   PROVE  Joined(m, h, D, s, h.right[b], a, Under(D, h.right[b]) \cup Under(D, a))
        OBVIOUS
      <4>1. Apart(h, D, s, a, h.right[b])
        BY <3>4
      <4>2. Joined(m, h, D, s, a, h.right[b], Under(D, a) \cup Under(D, h.right[b]))
        BY <4>1, <2>8, <3>3 DEF MergeGood
      <4>3. Joined(m, h, D, s, h.right[b], a, Under(D, a) \cup Under(D, h.right[b]))
        BY <4>2, JoinedSym
      <4> QED  BY <4>3, <3>4
    <3>6. Apart(h, D, s, b, a)
      BY <2>9, <3>4
    <3>7. Joined(Above(b, m, h.left[b]), h, D, s, b, a, Under(D, b) \cup Under(D, a))
      BY <2>4, <3>2, <3>5, <3>6, MergeBelow
    <3>8. Joined(Above(b, m, h.left[b]), h, D, s, a, b, Under(D, b) \cup Under(D, a))
      BY <3>7, JoinedSym
    <3> QED  BY <3>1, <3>3, <3>4, <3>8, <2>2 DEF MergeGood
  <2> QED  BY <2>10, <2>11
<1> QED  BY <1>2, <1>3

-----------------------------------------------------------------------------
(* The operations on the heap of the pool.                                 *)

\* The links of an entry that is in no heap are NULL.
NoLinksOf(h, p) == h.left[p] = NULL /\ h.right[p] = NULL /\ h.parent[p] = NULL

\* The root r leads to the processes S, in an order that s allows.
HeapOK(h, r, s, S) ==
  /\ h \in Heaps /\ r \in Link /\ S \subseteq Proc
  /\ r # NULL => r \in S /\ h.parent[r] = NULL
  /\ \A p \in Proc \ S : NoLinksOf(h, p)
  /\ InOrder(h, s, S)
  /\ \E D : Forest(h, D, Proc) /\ Under(D, r) = S

\* The order depends only on the strides in the heap.
LEMMA OrderSame ==
  ASSUME NEW h \in Heaps, NEW D, NEW S, Forest(h, D, S), \A x \in S : D[x] \subseteq S,
         NEW s, NEW z, \A x \in S : z[x] = s[x], InOrder(h, s, S)
  PROVE  InOrder(h, z, S)
<1>1. ASSUME NEW x \in S, NEW c \in {h.left[x], h.right[x]}, c # NULL
      PROVE  Later(z, c, x)
  <2>1. Node(h, D, x) /\ D[x] \subseteq S
    BY DEF Forest
  <2>2. c \in S
    BY <1>1, <2>1 DEF Node, Under
  <2>3. Later(s, c, x)
    BY <1>1 DEF InOrder
  <2> QED  BY <2>2, <2>3 DEF Later
<1> QED  BY <1>1 DEF InOrder

\* The strides of processes outside the heap do not matter.
LEMMA HeapSame ==
  ASSUME NEW h, NEW r, NEW s, NEW S, HeapOK(h, r, s, S), NEW z, \A x \in S : z[x] = s[x]
  PROVE  HeapOK(h, r, z, S)
<1>1. PICK D : Forest(h, D, Proc) /\ Under(D, r) = S
  BY DEF HeapOK
<1>2. h \in Heaps /\ S \subseteq Proc /\ r \in Link /\ InOrder(h, s, S)
  BY DEF HeapOK
<1>3. ASSUME NEW x \in S
      PROVE  D[x] \subseteq S
  <2>1. r # NULL /\ S = D[r] /\ r \in Proc
    BY <1>1, <1>2 DEF Under, Link
  <2> QED  BY <1>1, <2>1 DEF Forest, Node
<1>4. Forest(h, D, S)
  BY <1>1, <1>2 DEF Forest
<1>5. InOrder(h, z, S)
  BY <1>2, <1>3, <1>4, OrderSame
<1> QED  BY <1>5 DEF HeapOK

\* k is h without the links of p.
IsCleared(k, h, p) ==
  /\ k \in Heaps
  /\ \A q \in Proc : /\ k.left[q] = IF q = p THEN NULL ELSE h.left[q]
                     /\ k.right[q] = IF q = p THEN NULL ELSE h.right[q]
                     /\ k.parent[q] = IF q = p THEN NULL ELSE h.parent[q]

\* skew_heap_init writes the links of its entry alone.
LEMMA ClearedFacts ==
  ASSUME NEW h \in Heaps, NEW p \in Proc
  PROVE  IsCleared(Cleared(h, p), h, p)
<1>1. p \in Link /\ NULL \in Link
  BY DEF Link
<1>2. PICK g : g = WithLinks(h, p, NULL, NULL)
  OBVIOUS
<1>3. Relinked(g, h, p, NULL, NULL)
  BY <1>1, <1>2, WithLinksFacts
<1>4. g \in Heaps
  BY <1>3 DEF Relinked
<1>5. Reparented(WithParent(g, p, NULL), g, p, NULL)
  BY <1>1, <1>4, WithParentFacts
<1> QED  BY <1>2, <1>3, <1>5 DEF Relinked, Reparented, IsCleared, Cleared

\* The links of an entry that is in no heap are clear already.
LEMMA ClearedSame ==
  ASSUME NEW h \in Heaps, NEW p \in Proc, NoLinksOf(h, p)
  PROVE  Cleared(h, p) = h
<1>1. PICK k : k = Cleared(h, p)
  OBVIOUS
<1>2. IsCleared(k, h, p)
  BY <1>1, ClearedFacts
<1>3. /\ k.left \in [Proc -> Link] /\ k.right \in [Proc -> Link] /\ k.parent \in [Proc -> Link]
      /\ h.left \in [Proc -> Link] /\ h.right \in [Proc -> Link] /\ h.parent \in [Proc -> Link]
      /\ k = [left |-> k.left, right |-> k.right, parent |-> k.parent]
      /\ h = [left |-> h.left, right |-> h.right, parent |-> h.parent]
  BY <1>2 DEF IsCleared, Heaps
<1>4. \A q \in Proc : k.left[q] = h.left[q] /\ k.right[q] = h.right[q] /\ k.parent[q] = h.parent[q]
  BY <1>2 DEF IsCleared, NoLinksOf
<1>5. k.left = h.left /\ k.right = h.right /\ k.parent = h.parent
  BY <1>3, <1>4
<1>6. k = h
  BY <1>3, <1>5
<1> QED  BY <1>1, <1>6

\* Alone in its tree.
LEMMA NoLinksNode ==
  ASSUME NEW h, NEW D, NEW p, NoLinksOf(h, p)
  PROVE  Node(h, D, p) <=> D[p] = {p}
BY DEF Node, NoLinksOf, Under

(***************************************************************************)
(* skew_heap_insert adds the process.                                      *)
(***************************************************************************)
LEMMA InsertOK ==
  ASSUME NEW h, NEW r, NEW s, NEW S, HeapOK(h, r, s, S), NEW p \in Proc \ S,
         NEW pool, pool = HeapInsert([root |-> r, heap |-> h], p, s)
  PROVE  HeapOK(pool.heap, pool.root, s, S \cup {p})
<1>1. PICK D : Forest(h, D, Proc) /\ Under(D, r) = S
  BY DEF HeapOK
<1>2. /\ h \in Heaps /\ r \in Link /\ p \in Link /\ S \subseteq Proc
      /\ \A q \in Proc \ S : NoLinksOf(h, q)
  BY DEF HeapOK, Link
<1>3. pool = HeapMerge(h, r, p, s)
  BY <1>2, ClearedSame DEF HeapInsert
<1>4. \A q \in Proc \ S : D[q] = {q}
  BY <1>1, <1>2, NoLinksNode DEF Forest
<1>5. p # NULL /\ Under(D, p) = {p}
  BY <1>4, ProcAssumption DEF Under
<1>6. PICK A : A = S \cup {p} /\ A \subseteq Proc
  BY <1>2
<1>7. Apart(h, D, s, r, p)
  <2>1. InOrder(h, s, A)
    BY <1>2, <1>6 DEF HeapOK, InOrder, NoLinksOf
  <2> QED  BY <2>1, <1>1, <1>5, <1>6 DEF Apart
<1>8. Joined(pool, h, D, s, r, p, A)
  <2>1. MergeGood(h, D, s, r, p)
    BY <1>1, <1>2, MergeJoins
  <2> QED  BY <2>1, <1>1, <1>3, <1>5, <1>6, <1>7 DEF MergeGood
<1>9. PICK k, t : k = pool.heap /\ t = pool.root
  OBVIOUS
<1>10. /\ k \in Heaps /\ t \in {r, p} /\ t # NULL /\ k.parent[t] = h.parent[t]
       /\ \A q \in Proc \ A : SameLinks(h, k, q)
       /\ InOrder(k, s, A)
  BY <1>5, <1>8, <1>9 DEF Joined
<1>11. t \in Link /\ t \in A /\ k.parent[t] = NULL
  BY <1>2, <1>6, <1>10 DEF HeapOK, NoLinksOf
<1>12. \A q \in Proc \ A : NoLinksOf(k, q)
  BY <1>2, <1>6, <1>10 DEF SameLinks, NoLinksOf
<1>13. PICK E : Forest(k, E, A) /\ Under(E, t) = A /\ \A q \in Proc \ A : E[q] = D[q]
  BY <1>8, <1>9 DEF Joined
<1>14. Forest(k, E, Proc)
  <2>1. \A q \in Proc \ A : Node(k, E, q)
    BY <1>4, <1>6, <1>12, <1>13, NoLinksNode
  <2> QED  BY <2>1, <1>13 DEF Forest
<1>15. HeapOK(k, t, s, A)
  BY <1>6, <1>10, <1>11, <1>12, <1>13, <1>14 DEF HeapOK
<1> QED  BY <1>6, <1>9, <1>15

(***************************************************************************)
(* skew_heap_remove of the root, which has no parent, takes the root away. *)
(***************************************************************************)
LEMMA RemoveOK ==
  ASSUME NEW h, NEW r, NEW s, NEW S, HeapOK(h, r, s, S), r # NULL,
         NEW z, \A x \in S : x # r => z[x] = s[x],
         NEW pool, pool = HeapRemove([root |-> r, heap |-> h], r, z)
  PROVE  HeapOK(pool.heap, pool.root, z, S \ {r})
<1>1. PICK D : Forest(h, D, Proc) /\ Under(D, r) = S
  BY DEF HeapOK
<1>2. /\ h \in Heaps /\ r \in Proc /\ r \in S /\ S \subseteq Proc /\ h.parent[r] = NULL
      /\ S = D[r] /\ InOrder(h, s, S)
      /\ \A q \in Proc \ S : NoLinksOf(h, q)
  BY <1>1 DEF HeapOK, Link, Under
<1>3. PICK a \in Link, b \in Link : a = h.left[r] /\ b = h.right[r]
  BY <1>2 DEF Heaps
<1>4. PICK B : B = S \ {r}
  OBVIOUS
<1>5. Node(h, D, r)
  BY <1>1, <1>2 DEF Forest
<1>6. Under(D, a) \cup Under(D, b) = B /\ Under(D, a) \cap Under(D, b) = {}
  BY <1>2, <1>3, <1>4, <1>5 DEF Node
<1>7. ASSUME NEW x \in B
      PROVE  D[x] \subseteq B
  <2>1. PICK c \in {a, b} : c # NULL /\ x \in D[c] /\ D[c] \subseteq B /\ c \in D[c]
    BY <1>3, <1>5, <1>6 DEF Under, Node
  <2>2. Node(h, D, c)
    BY <2>1, <1>1, <1>2, <1>4 DEF Forest
  <2> QED  BY <2>1, <2>2 DEF Node
<1>8. Apart(h, D, z, a, b)
  <2>1. Forest(h, D, B)
    BY <1>1, <1>2, <1>4 DEF Forest
  <2>2. InOrder(h, s, B) /\ \A x \in B : z[x] = s[x]
    BY <1>2, <1>4 DEF InOrder
  <2>3. InOrder(h, z, B)
    BY <1>2, <1>7, <2>1, <2>2, OrderSame
  <2> QED  BY <2>3, <1>6 DEF Apart
<1>9. PICK m : m = HeapMerge(h, a, b, z)
  OBVIOUS
<1>10. Joined(m, h, D, z, a, b, B)
  <2>1. MergeGood(h, D, z, a, b)
    BY <1>1, <1>2, MergeJoins
  <2> QED  BY <2>1, <1>6, <1>8, <1>9 DEF MergeGood
<1>11. PICK g, t : g = m.heap /\ t = m.root
  OBVIOUS
<1>12. /\ g \in Heaps /\ t \in Link
       /\ \A q \in Proc \ B : SameLinks(h, g, q)
       /\ InOrder(g, z, B)
  BY <1>10, <1>11 DEF Joined
<1>13. PICK E : Forest(g, E, B) /\ Under(E, t) = B /\ \A q \in Proc \ B : E[q] = D[q]
  BY <1>10, <1>11 DEF Joined
<1>14. PICK f : f = WithParent(g, t, NULL)
  OBVIOUS
<1>15. Reparented(f, g, t, NULL)
  <2>1. NULL \in Link
    BY DEF Link
  <2> QED  BY <2>1, <1>12, <1>14, WithParentFacts
<1>16. PICK k : k = Cleared(f, r)
  OBVIOUS
<1>17. IsCleared(k, f, r)
  BY <1>2, <1>15, <1>16, ClearedFacts DEF Reparented
<1>18. pool = [root |-> t, heap |-> k]
  BY <1>2, <1>3, <1>9, <1>11, <1>14, <1>16 DEF HeapRemove
<1>19. /\ k \in Heaps
       /\ \A q \in Proc : q # r => /\ k.left[q] = g.left[q] /\ k.right[q] = g.right[q]
                                   /\ k.parent[q] = IF q = t THEN NULL ELSE g.parent[q]
       /\ NoLinksOf(k, r)
  BY <1>2, <1>15, <1>17 DEF Reparented, IsCleared, NoLinksOf
<1>20. t # NULL => t \in B /\ t \in Proc /\ E[t] = B
  <2>1. t # NULL => t \in {a, b}
    BY <1>10, <1>11 DEF Joined
  <2>2. a # NULL => a \in B
    BY <1>3, <1>5, <1>6 DEF Node, Under
  <2>3. b # NULL => b \in B
    BY <1>3, <1>5, <1>6 DEF Node, Under
  <2> QED  BY <2>1, <2>2, <2>3, <1>2, <1>4, <1>13 DEF Under
<1>21. ASSUME NEW q \in Proc \ B
       PROVE  NoLinksOf(k, q)
  <2>1. CASE q = r
    BY <2>1, <1>19
  <2>2. CASE q # r
    <3>1. NoLinksOf(h, q) /\ SameLinks(h, g, q) /\ q # t
      <4>1. q # NULL
        BY ProcAssumption
      <4> QED  BY <4>1, <2>2, <1>2, <1>4, <1>12, <1>20
    <3> QED  BY <2>2, <3>1, <1>19 DEF NoLinksOf, SameLinks
  <2> QED  BY <2>1, <2>2
<1>22. PICK F : F = [E EXCEPT ![r] = {r}]
  OBVIOUS
<1>23. /\ F \in [Proc -> SUBSET Proc] /\ F[r] = {r}
       /\ \A q \in Proc : q # r => F[q] = E[q]
  <2>1. E \in [Proc -> SUBSET Proc]
    BY <1>13 DEF Forest
  <2> QED  BY <2>1, <1>2, <1>22
<1>24. ASSUME NEW x \in B
       PROVE  Node(k, F, x)
  <2>1. t # NULL
    BY <1>13 DEF Under
  <2>2. Node(g, E, x) /\ Node(g, E, t) /\ x \in Proc /\ x # r
    BY <2>1, <1>2, <1>4, <1>13, <1>20 DEF Forest
  <2>3. E[x] \subseteq B
    BY <2>1, <2>2, <1>20 DEF Node
  <2>4. ASSUME NEW y \in E[x]
        PROVE  F[y] = E[y] /\ (y # x => k.parent[y] = g.parent[y])
    <3>1. y \in Proc /\ y # r
      BY <2>3, <1>2, <1>4
    <3>2. y # x => y # t
      <4>1. x # t => t \notin E[x]
        BY <2>1, <1>12, <1>13, <1>20, RootBelowNone
      <4> QED  BY <4>1
    <3> QED  BY <3>1, <3>2, <1>19, <1>23
  <2>5. k.left[x] = g.left[x] /\ k.right[x] = g.right[x]
    BY <2>2, <1>19
  <2> QED  BY <2>2, <2>4, <2>5, <1>12, <1>19, NodeSame
<1>25. Forest(k, F, Proc)
  <2>1. ASSUME NEW q \in Proc \ B
        PROVE  Node(k, F, q)
    <3>1. CASE q = r
      BY <3>1, <1>21, <1>23, NoLinksNode
    <3>2. CASE q # r
      <4>1. Node(h, D, q) /\ NoLinksOf(h, q)
        BY <3>2, <1>1, <1>2, <1>4 DEF Forest
      <4>2. D[q] = {q}
        BY <4>1, NoLinksNode
      <4>3. F[q] = {q}
        BY <3>2, <4>2, <1>13, <1>23
      <4> QED  BY <4>3, <1>21, NoLinksNode
    <3> QED  BY <3>1, <3>2
  <2> QED  BY <2>1, <1>23, <1>24 DEF Forest
<1>26. Under(F, t) = B
  BY <1>4, <1>13, <1>20, <1>23 DEF Under
<1>27. InOrder(k, z, B)
  <2>1. \A x \in B : k.left[x] = g.left[x] /\ k.right[x] = g.right[x]
    BY <1>2, <1>4, <1>19
  <2> QED  BY <2>1, <1>12 DEF InOrder
<1>28. t # NULL => k.parent[t] = NULL
  BY <1>4, <1>19, <1>20
<1>29. HeapOK(k, t, z, B)
  BY <1>2, <1>4, <1>12, <1>19, <1>20, <1>21, <1>25, <1>26, <1>27, <1>28 DEF HeapOK
<1> QED  BY <1>4, <1>18, <1>29

-----------------------------------------------------------------------------
(* The heap at first. *)

\* The empty pool.
LEMMA EmptyOK ==
  ASSUME NEW s
  PROVE  HeapOK(NoLinks, NULL, s, {})
<1>1. NoLinks \in Heaps /\ \A p \in Proc : NoLinksOf(NoLinks, p)
  BY DEF NoLinks, Heaps, Link, NoLinksOf
<1>2. PICK D : D = [p \in Proc |-> {p}]
  OBVIOUS
<1>3. Forest(NoLinks, D, Proc)
  BY <1>1, <1>2, NoLinksNode DEF Forest
<1>4. Under(D, NULL) = {} /\ NULL \in Link /\ InOrder(NoLinks, s, {})
  BY DEF Under, Link, InOrder
<1> QED  BY <1>1, <1>3, <1>4 DEF HeapOK

\* The first n of the processes are inserted.
Fills(f, procs, s, n) ==
  f = [i \in 0..n |-> IF i = 0 THEN [root |-> NULL, heap |-> NoLinks]
                      ELSE HeapInsert(f[i - 1], procs[i], s)]

\* The insertions one after the other are a function of their number.
LEMMA FillRuns ==
  ASSUME NEW procs, NEW s, NEW n \in Nat
  PROVE  \E f : Fills(f, procs, s, n)
<1> DEFINE T == {m \in Nat : ~\E f : Fills(f, procs, s, m)}
<1>1. CASE T = {}
  BY <1>1
<1>2. CASE T # {}
  <2>1. PICK m \in T : \A i \in T : m <= i
    BY <1>2, NatLeast
  <2>2. m # 0
    <3>1. PICK f : f = [i \in 0..0 |-> [root |-> NULL, heap |-> NoLinks]]
      OBVIOUS
    <3>2. Fills(f, procs, s, 0)
      BY <3>1 DEF Fills
    <3> QED  BY <3>2
  <2>3. m - 1 \in Nat /\ m - 1 \notin T
    <3>1. m \in Nat
      OBVIOUS
    <3> HIDE DEF T
    <3>2. m - 1 \in Nat /\ ~(m <= m - 1)
      BY <3>1, <2>2
    <3> QED  BY <3>2, <2>1
  <2>4. PICK d : Fills(d, procs, s, m - 1)
    BY <2>3
  <2> DEFINE Body(g, i) == IF i = 0 THEN [root |-> NULL, heap |-> NoLinks]
                           ELSE HeapInsert(g[i - 1], procs[i], s)
  <2>5. PICK e : e = [i \in 0..m |-> Body(d, i)]
    OBVIOUS
  <2>6. d = [i \in 0..m - 1 |-> Body(d, i)]
    BY <2>4 DEF Fills
  <2> HIDE DEF Body
  <2>7. \A i \in 0..m - 1 : e[i] = d[i]
    <3>1. \A i \in 0..m - 1 : i \in 0..m
      BY <2>3
    <3> QED  BY <3>1, <2>5, <2>6
  <2>8. ASSUME NEW i \in 0..m
        PROVE  Body(e, i) = Body(d, i)
    <3>1. i # 0 => i - 1 \in 0..m - 1
      BY <2>3
    <3> QED  BY <3>1, <2>7 DEF Body
  <2>9. e = [i \in 0..m |-> Body(e, i)]
    BY <2>5, <2>8
  <2>10. Fills(e, procs, s, m)
    BY <2>9 DEF Fills, Body
  <2> QED  BY <2>10, <2>1
<1> QED  BY <1>1, <1>2

\* Inserting different processes makes a heap of them.
LEMMA FilledOK ==
  ASSUME NEW procs \in Seq(Proc), IsInjective(procs), NEW s,
         NEW pool, pool = Filled(procs, s)
  PROVE  HeapOK(pool.heap, pool.root, s, {procs[i] : i \in 1..Len(procs)})
<1>1. PICK n \in Nat : n = Len(procs) /\ DOMAIN procs = 1..n
  OBVIOUS
<1>2. \A i \in 1..n : procs[i] \in Proc
  BY <1>1
<1> DEFINE f == CHOOSE g : Fills(g, procs, s, n)
<1>3. Fills(f, procs, s, n)
  BY FillRuns
<1>4. pool = f[n]
  BY <1>1 DEF Filled, Fills
<1> HIDE DEF f
<1> DEFINE First(k) == {procs[i] : i \in 1..k}
           Bad == {k \in 0..n : ~HeapOK(f[k].heap, f[k].root, s, First(k))}
<1>5. CASE Bad = {}
  <2>1. n \in 0..n
    OBVIOUS
  <2>2. HeapOK(f[n].heap, f[n].root, s, First(n))
    BY <1>5, <2>1
  <2> QED  BY <2>2, <1>1, <1>4
<1>6. CASE Bad # {}
  <2>1. PICK k \in Bad : \A i \in Bad : k <= i
    <3>1. Bad \in SUBSET Nat
      OBVIOUS
    <3> HIDE DEF Bad
    <3> QED  BY <3>1, <1>6, NatLeast
  <2>2. k # 0
    <3>1. f[0] = [root |-> NULL, heap |-> NoLinks]
      BY <1>3 DEF Fills
    <3>2. First(0) = {}
      OBVIOUS
    <3>3. f[0].heap = NoLinks /\ f[0].root = NULL
      BY <3>1
    <3> HIDE DEF First
    <3>4. HeapOK(f[0].heap, f[0].root, s, First(0))
      BY <3>2, <3>3, EmptyOK
    <3> QED  BY <3>4
  <2>3. k \in 1..n /\ k - 1 \in 0..n /\ k \in 0..n /\ k \in Nat
    BY <2>2
  <2>4. HeapOK(f[k - 1].heap, f[k - 1].root, s, First(k - 1))
    <3>1. k - 1 \notin Bad
      <4>1. ~(k <= k - 1)
        BY <2>3
      <4> HIDE DEF Bad
      <4> QED  BY <4>1, <2>1
    <3> HIDE DEF First
    <3> QED  BY <3>1, <2>3
  <2>5. f[k] = HeapInsert(f[k - 1], procs[k], s)
    BY <1>3, <2>2, <2>3 DEF Fills
  <2>6. PICK h, r : h = f[k - 1].heap /\ r = f[k - 1].root
    OBVIOUS
  <2>7. f[k] = HeapInsert([root |-> r, heap |-> h], procs[k], s)
    BY <2>5, <2>6 DEF HeapInsert
  <2>8. procs[k] \in Proc \ First(k - 1)
    <3>1. \A i \in 1..k - 1 : i \in 1..n /\ i # k
      BY <2>3
    <3>2. \A i \in 1..k - 1 : procs[i] # procs[k]
      BY <3>1, <2>3, <1>1 DEF IsInjective
    <3> QED  BY <3>2, <2>3, <1>2
  <2>9. First(k) = First(k - 1) \cup {procs[k]}
    <3>1. \A i \in 1..k : i = k \/ i \in 1..k - 1
      BY <2>3
    <3>2. \A i \in 1..k - 1 : i \in 1..k
      BY <2>3
    <3> QED  BY <3>1, <3>2, <2>3
  <2>10. PICK S, p : S = First(k - 1) /\ p = procs[k]
    OBVIOUS
  <2> HIDE DEF First
  <2>11. HeapOK(f[k].heap, f[k].root, s, S \cup {p})
    BY <2>4, <2>6, <2>7, <2>8, <2>10, InsertOK
  <2>12. HeapOK(f[k].heap, f[k].root, s, First(k))
    BY <2>9, <2>10, <2>11
  <2> QED  BY <2>1, <2>12
<1> QED  BY <1>5, <1>6

\* SetToSeq lists a finite set without repetition.
LEMMA ListsSet ==
  ASSUME NEW S, IsFiniteSet(S), NEW l, l = SetToSeq(S)
  PROVE  l \in Seq(S) /\ IsInjective(l) /\ {l[i] : i \in 1..Len(l)} = S
<1>1. PICK n \in Nat : n = Cardinality(S)
  BY FS_CardinalityType
<1>2. \E f \in [1..n -> S] : IsInjective(f)
  BY <1>1, FS_CardinalityType DEF ExistsBijection, Bijection, Injection
<1>3. l \in [1..n -> S] /\ IsInjective(l)
  BY <1>1, <1>2 DEF SetToSeq
<1>4. l \in Seq(S) /\ Len(l) = n
  BY <1>3
<1>5. l \in Injection(1..n, S)
  BY <1>3 DEF Injection
<1>6. Cardinality(1..n) = Cardinality(S)
  BY <1>1, FS_Interval
<1>7. l \in Surjection(1..n, S)
  BY <1>5, <1>6, FS_Injection
<1> QED  BY <1>3, <1>4, <1>7 DEF Surjection

-----------------------------------------------------------------------------
(* The invariant. *)

Runnable == {p \in Proc : state[p] = "RUNNABLE"}

TypeOK ==
  /\ state \in [Proc -> {"UNINIT", "RUNNABLE", "SLEEPING"}]
  /\ stride \in [Proc -> Pool!Word]
  /\ priority \in [Proc -> Nat \ {0}]
  /\ current \in Runnable \cup {idleproc}

Inv == TypeOK /\ HeapOK(heap, run_pool, stride, Runnable \ {current})

\* A step is one of StridePool.
LEMMA StepFits ==
  ASSUME NEW n \in Nat \ {0}
  PROVE  BigStride \div n \in 0 .. Pool!BIG_STRIDE
<1>1. PICK b \in Nat : b = BigStride
  BY WordAssumption DEF BigStride
<1>2. b \div n \in 0 .. b
  OBVIOUS
<1> QED  BY <1>1, <1>2 DEF BigStride, Pool!BIG_STRIDE

\* pick_next changes one stride, by at most BIG_STRIDE.
LEMMA SteppedType ==
  ASSUME TypeOK, NEW p \in Proc
  PROVE  /\ Stepped(p) \in [Proc -> Pool!Word]
         /\ \A q \in Proc : q # p => Stepped(p)[q] = stride[q]
         /\ \E step \in 0 .. Pool!BIG_STRIDE :
              Stepped(p) = [stride EXCEPT ![p] = Pool!Advance(@, step)]
<1>1. PICK step \in 0 .. Pool!BIG_STRIDE : step = BigStride \div priority[p]
  BY StepFits DEF TypeOK
<1>2. Stepped(p) = [stride EXCEPT ![p] = Pool!Advance(@, step)]
  BY <1>1 DEF Stepped
<1>3. PICK w \in Pool!Word : w = Pool!Advance(stride[p], step)
  BY AdvanceWord DEF TypeOK
<1>4. Stepped(p) = [stride EXCEPT ![p] = w]
  BY <1>2, <1>3
<1> QED  BY <1>2, <1>4 DEF TypeOK

\* pick_next and dequeue take the root of the pool.
LEMMA PickOK ==
  ASSUME TypeOK, NEW pool, NEW S, HeapOK(pool.heap, pool.root, stride, S), PickNext(pool)
  PROVE  /\ stride' \in [Proc -> Pool!Word]
         /\ HeapOK(heap', run_pool', stride', S \ {current'})
         /\ \/ S = {} /\ current' = idleproc /\ UNCHANGED stride
            \/ current' \in S /\ current' = pool.root /\ stride' = Stepped(current')
<1>1. PICK h, r : h = pool.heap /\ r = pool.root
  OBVIOUS
<1>2. CASE r = NULL
  <2>1. S = {}
    BY <1>1, <1>2 DEF HeapOK, Under
  <2>2. current' = idleproc /\ UNCHANGED stride /\ heap' = h /\ run_pool' = r
    BY <1>1, <1>2 DEF PickNext, SetPool
  <2> QED  BY <1>1, <2>1, <2>2 DEF TypeOK
<1>3. CASE r # NULL
  <2>1. r \in S /\ S \subseteq Proc
    BY <1>1, <1>3 DEF HeapOK
  <2>2. PICK rest : rest = HeapRemove([root |-> r, heap |-> h], r, stride')
    OBVIOUS
  <2>3. /\ current' = r /\ stride' = Stepped(r)
        /\ run_pool' = rest.root /\ heap' = rest.heap
    BY <1>1, <1>3, <2>2 DEF PickNext, SetPool, HeapRemove
  <2>4. \A x \in S : x # r => stride'[x] = stride[x]
    BY <2>1, <2>3, SteppedType
  <2>5. HeapOK(rest.heap, rest.root, stride', S \ {r})
    BY <1>1, <1>3, <2>2, <2>4, RemoveOK
  <2>6. stride' \in [Proc -> Pool!Word]
    BY <2>1, <2>3, SteppedType
  <2> QED  BY <1>1, <2>1, <2>3, <2>5, <2>6
<1> QED  BY <1>2, <1>3

\* The heap of the first processes.
LEMMA InitInv == Init => Inv
<1> SUFFICES ASSUME Init PROVE Inv
  OBVIOUS
<1>1. /\ IsFiniteSet(Proc \ Forked) /\ current = idleproc /\ idleproc \notin Proc
      /\ state = [p \in Proc |-> IF p \in Forked THEN "UNINIT" ELSE "RUNNABLE"]
  BY ProcAssumption, FS_Subset DEF Init
<1>2. PICK l : l = SetToSeq(Proc \ Forked)
  OBVIOUS
<1>3. l \in Seq(Proc \ Forked) /\ IsInjective(l) /\ {l[i] : i \in 1..Len(l)} = Proc \ Forked
  <2>1. PICK S : S = Proc \ Forked
    OBVIOUS
  <2>2. IsFiniteSet(S) /\ l = SetToSeq(S)
    BY <1>1, <1>2, <2>1
  <2>3. l \in Seq(S) /\ IsInjective(l) /\ {l[i] : i \in 1..Len(l)} = S
    BY <2>2, ListsSet
  <2> QED  BY <2>1, <2>3
<1>4. l \in Seq(Proc)
  BY <1>3
<1>5. PICK pool : pool = Filled(l, stride)
  OBVIOUS
<1>6. run_pool = pool.root /\ heap = pool.heap
  BY <1>2, <1>5 DEF Init
<1>7. HeapOK(heap, run_pool, stride, Proc \ Forked)
  BY <1>3, <1>4, <1>5, <1>6, FilledOK
<1>8. Runnable \ {current} = Proc \ Forked
  BY <1>1 DEF Runnable
<1>9. TypeOK
  <2>1. 0 \in Pool!Word
    BY WordAssumption DEF Pool!Word
  <2> QED  BY <2>1, <1>1 DEF TypeOK, Init, Weight
<1> QED  BY <1>7, <1>8, <1>9 DEF Inv

\* The pool once the current process is back in it: what schedule() picks from.
LEMMA PutBack ==
  ASSUME Inv, NEW pool, pool = IF current = idleproc THEN rq ELSE HeapInsert(rq, current, stride)
  PROVE  HeapOK(pool.heap, pool.root, stride, Runnable)
<1>1. HeapOK(heap, run_pool, stride, Runnable \ {current})
  BY DEF Inv
<1>2. CASE current = idleproc
  <2>1. Runnable \ {current} = Runnable
    BY <1>2, ProcAssumption DEF Runnable
  <2> QED  BY <1>1, <1>2, <2>1 DEF rq
<1>3. CASE current # idleproc
  <2>1. current \in Runnable /\ current \in Proc
    BY <1>3 DEF Inv, TypeOK, Runnable
  <2>2. PICK S : S = Runnable \ {current}
    OBVIOUS
  <2>3. Runnable = S \cup {current} /\ current \in Proc \ S
    BY <2>1, <2>2
  <2>4. pool = HeapInsert([root |-> run_pool, heap |-> heap], current, stride)
    BY <1>3 DEF rq
  <2>5. HeapOK(pool.heap, pool.root, stride, S \cup {current})
    BY <1>1, <2>2, <2>3, <2>4, InsertOK
  <2> QED  BY <2>3, <2>5
<1> QED  BY <1>2, <1>3

\* The current process goes back to the pool and the root leaves it.
LEMMA RescheduleInv == ASSUME Inv, Reschedule PROVE Inv'
<1>1. PICK pool : /\ pool = IF current = idleproc THEN rq ELSE HeapInsert(rq, current, stride)
                  /\ PickNext(pool)
  BY DEF Reschedule
<1>2. HeapOK(pool.heap, pool.root, stride, Runnable)
  BY <1>1, PutBack
<1>3. TypeOK /\ Runnable' = Runnable /\ UNCHANGED <<state, priority>>
  BY DEF Reschedule, Inv, Runnable
<1>4. /\ stride' \in [Proc -> Pool!Word] /\ current' \in Runnable \cup {idleproc}
      /\ HeapOK(heap', run_pool', stride', Runnable \ {current'})
  BY <1>1, <1>2, <1>3, PickOK
<1> QED  BY <1>3, <1>4 DEF Inv, TypeOK

\* Sleep and Exit: the current process is RUNNABLE no more.
LEMMA LeaveInv ==
  ASSUME Inv, current \in Proc, NEW v \in {"UNINIT", "SLEEPING"},
         state' = [state EXCEPT ![current] = v], PickNext(rq), UNCHANGED priority
  PROVE  Inv'
<1>1. TypeOK /\ HeapOK(heap, run_pool, stride, Runnable \ {current})
  BY DEF Inv
<1>2. rq.heap = heap /\ rq.root = run_pool
  BY DEF rq
<1>3. state' \in [Proc -> {"UNINIT", "RUNNABLE", "SLEEPING"}] /\ Runnable' = Runnable \ {current}
  BY <1>1 DEF TypeOK, Runnable
<1>4. PICK S : S = Runnable \ {current}
  OBVIOUS
<1>5. /\ stride' \in [Proc -> Pool!Word] /\ current' \in S \cup {idleproc}
      /\ HeapOK(heap', run_pool', stride', S \ {current'})
  BY <1>1, <1>2, <1>4, PickOK
<1> QED  BY <1>1, <1>3, <1>4, <1>5 DEF Inv, TypeOK

\* Wake and Fork: a process becomes RUNNABLE, with whatever stride.
LEMMA EnterInv ==
  ASSUME Inv, NEW p \in Proc, state[p] # "RUNNABLE", state' = [state EXCEPT ![p] = "RUNNABLE"],
         stride' \in [Proc -> Pool!Word], \A q \in Proc : q # p => stride'[q] = stride[q],
         priority' \in [Proc -> Nat \ {0}],
         SetPool(HeapInsert(rq, p, stride')), UNCHANGED current
  PROVE  Inv'
<1>1. TypeOK /\ HeapOK(heap, run_pool, stride, Runnable \ {current})
  BY DEF Inv
<1>2. PICK S : S = Runnable \ {current} /\ S \subseteq Proc /\ p \notin S /\ p # current
  BY <1>1, ProcAssumption DEF Runnable, TypeOK
<1>3. HeapOK(heap, run_pool, stride', S)
  BY <1>1, <1>2, HeapSame
<1>4. PICK pool : pool = HeapInsert([root |-> run_pool, heap |-> heap], p, stride')
  OBVIOUS
<1>5. run_pool' = pool.root /\ heap' = pool.heap
  BY <1>4 DEF SetPool, rq
<1>6. HeapOK(heap', run_pool', stride', S \cup {p})
  BY <1>2, <1>3, <1>4, <1>5, InsertOK
<1>7. /\ state' \in [Proc -> {"UNINIT", "RUNNABLE", "SLEEPING"}]
      /\ Runnable' = Runnable \cup {p}
  BY <1>1 DEF TypeOK, Runnable
<1>8. Runnable' \ {current'} = S \cup {p}
  BY <1>2, <1>7
<1> QED  BY <1>1, <1>6, <1>7, <1>8 DEF Inv, TypeOK

\* Every step keeps the heap.
LEMMA NextInv == ASSUME Inv, [Next]_vars PROVE Inv'
<1>1. CASE Reschedule
  BY <1>1, RescheduleInv
<1>2. CASE Sleep
  BY <1>2, ProcAssumption, LeaveInv DEF Sleep
<1>3. CASE Exit
  BY <1>3, ProcAssumption, LeaveInv DEF Exit
<1>4. ASSUME NEW p \in Proc, Wake(p)
      PROVE  Inv'
  <2>1. stride' \in [Proc -> Pool!Word] /\ stride' = stride /\ priority' \in [Proc -> Nat \ {0}]
    BY <1>4 DEF Wake, Inv, TypeOK
  <2> QED  BY <1>4, <2>1, EnterInv DEF Wake
<1>5. ASSUME NEW p \in Proc, Fork(p)
      PROVE  Inv'
  <2>1. 0 \in Pool!Word
    BY WordAssumption DEF Pool!Word
  <2>2. stride' \in [Proc -> Pool!Word] /\ \A q \in Proc : q # p => stride'[q] = stride[q]
    BY <1>5, <2>1 DEF Fork, Inv, TypeOK
  <2>3. priority' \in [Proc -> Nat \ {0}]
    BY <1>5 DEF Fork, Inv, TypeOK, Weight
  <2> QED  BY <1>5, <2>2, <2>3, EnterInv DEF Fork
<1>6. ASSUME NEW n \in Priority, SetPriority(n)
      PROVE  Inv'
  <2>1. Weight(n) \in Nat \ {0}
    BY WordAssumption DEF Weight
  <2>2. priority' \in [Proc -> Nat \ {0}]
    BY <1>6, <2>1 DEF SetPriority, Inv, TypeOK
  <2> QED  BY <1>6, <2>2 DEF SetPriority, Inv, TypeOK, Runnable
<1>7. CASE UNCHANGED vars
  BY <1>7 DEF vars, Inv, TypeOK, Runnable
<1> QED  BY <1>1, <1>2, <1>3, <1>4, <1>5, <1>6, <1>7 DEF Next

\* The heap holds what it should at any time.
LEMMA Invariance == Spec => []Inv
BY InitInv, NextInv, PTL DEF Spec

-----------------------------------------------------------------------------
(* The theorems on the heap. *)

\* Where the links form a heap, the root leads to its processes.
LEMMA MembersAre ==
  ASSUME NEW S, HeapOK(heap, run_pool, stride, S)
  PROVE  /\ Members = S
         /\ \A p \in S : /\ \A c \in Children(p) : heap.parent[c] = p
                         /\ heap.left[p] = heap.right[p] => heap.left[p] = NULL
<1>1. PICK D : Forest(heap, D, Proc) /\ Under(D, run_pool) = S
  BY DEF HeapOK
<1>2. /\ heap \in Heaps /\ run_pool \in Link /\ S \subseteq Proc
      /\ run_pool # NULL => run_pool \in S
  BY DEF HeapOK
<1>3. \A p \in Proc : Node(heap, D, p)
  BY <1>1 DEF Forest
<1>4. ASSUME NEW p \in S
      PROVE  /\ p \in Proc /\ Children(p) \subseteq S
             /\ \A c \in Children(p) : heap.parent[c] = p
             /\ heap.left[p] = heap.right[p] => heap.left[p] = NULL
  <2>1. run_pool \in Proc /\ S = D[run_pool] /\ p \in Proc
    BY <1>1, <1>2 DEF Under, Link
  <2>2. D[p] \subseteq S /\ Node(heap, D, p)
    BY <1>3, <2>1 DEF Node
  <2> QED  BY <2>1, <2>2 DEF Node, Under, Children
<1>5. ASSUME NEW C \in SUBSET Proc, {run_pool} \ {NULL} \subseteq C,
             \A q \in C : Children(q) \subseteq C
      PROVE  S \subseteq C
  <2> DEFINE T == {q \in Proc : q \in C => D[q] \subseteq C}
  <2>1. ASSUME NEW q \in Proc, heap.left[q] \in T \cup {NULL}, heap.right[q] \in T \cup {NULL}, q \in C
        PROVE  D[q] \subseteq C
    <3>1. ASSUME NEW c \in {heap.left[q], heap.right[q]}
          PROVE  Under(D, c) \subseteq C
      BY <2>1, <1>5 DEF Children, Under
    <3> QED  BY <2>1, <3>1, <1>3 DEF Node
  <2>2. Proc \subseteq T
    <3>1. \A q \in Proc : (heap.left[q] \in T \cup {NULL} /\ heap.right[q] \in T \cup {NULL}) => q \in T
      BY <2>1
    <3> HIDE DEF T
    <3> QED  BY <3>1, <1>1, <1>2, ForestInduction
  <2>3. CASE run_pool = NULL
    BY <2>3, <1>1 DEF Under
  <2>4. CASE run_pool # NULL
    BY <2>2, <2>4, <1>1, <1>2, <1>5 DEF Under
  <2> QED  BY <2>3, <2>4
<1>6. Members \subseteq S
  BY <1>2, <1>4 DEF Members
<1>7. S \subseteq Members
  BY <1>2, <1>5 DEF Members
<1> QED  BY <1>4, <1>6, <1>7

(***************************************************************************)
(* However processes come and go, the heap holds every RUNNABLE process    *)
(* but the current one, each below one other process at most, and its root *)
(* has no parent: skew_heap_remove takes it for the root.                  *)
(***************************************************************************)
THEOREM HeapKeepsAll == Spec => []HeapExact
<1>1. ASSUME Inv
      PROVE  HeapExact
  <2>1. PICK S : S = Runnable \ {current} /\ HeapOK(heap, run_pool, stride, S)
    BY <1>1 DEF Inv
  <2>2. run_pool # NULL => heap.parent[run_pool] = NULL
    BY <2>1 DEF HeapOK
  <2> QED  BY <2>1, <2>2, MembersAre DEF HeapExact, Runnable
<1>2. QED BY <1>1, Invariance, PTL

(***************************************************************************)
(* Whatever the strides, nobody in the heap comes before the one above: a  *)
(* merge compares the two it links, and a stride changes only outside.     *)
(***************************************************************************)
THEOREM HeapInOrder == Spec => []HeapOrdered
<1>1. ASSUME Inv
      PROVE  HeapOrdered
  <2>1. PICK S : HeapOK(heap, run_pool, stride, S)
    BY <1>1 DEF Inv
  <2>2. Members = S /\ InOrder(heap, stride, S)
    BY <2>1, MembersAre DEF HeapOK
  <2> QED  BY <2>2 DEF HeapOrdered, InOrder, Later, Earlier, Children
<1>2. QED BY <1>1, Invariance, PTL

-----------------------------------------------------------------------------
(* The root is a least one. *)

\* Within a window nobody below an entry comes before it.
LEMMA RootIsFirst ==
  ASSUME Fits, NEW h, NEW r, HeapOK(h, r, stride, Proc), r # NULL
  PROVE  r \in Proc /\ Pool!First(r)
<1>1. PICK D : Forest(h, D, Proc) /\ Under(D, r) = Proc
  BY DEF HeapOK
<1>2. h \in Heaps /\ r \in Proc /\ D[r] = Proc /\ InOrder(h, stride, Proc)
  BY <1>1 DEF HeapOK, Under
<1>3. PICK b \in Pool!Word : \A p \in Proc : Pool!Ahead(stride[p], b) <= Pool!BIG_STRIDE
  BY DEF Fits, Pool!Window
<1> DEFINE Far(p) == Pool!Ahead(stride[p], b)
           T == {p \in Proc : \A q \in D[p] : Far(p) <= Far(q)}
<1>4. \A p \in Proc : stride[p] \in Pool!Word
  BY DEF Fits
<1>5. \A p \in Proc : Far(p) \in Int
  BY <1>4, WordAssumption DEF Pool!Ahead, Pool!Word
<1>6. \A p, q \in Proc : Pool!Less(stride[p], stride[q]) <=> Far(p) < Far(q)
  BY <1>3, <1>4, LessIsFurther
<1> HIDE DEF Far
<1>7. ASSUME NEW p \in Proc, h.left[p] \in T \cup {NULL}, h.right[p] \in T \cup {NULL}
      PROVE  p \in T
  <2>1. ASSUME NEW c \in {h.left[p], h.right[p]}, NEW q \in Under(D, c)
        PROVE  Far(p) <= Far(q)
    <3>1. c # NULL /\ c \in T /\ q \in D[c]
      BY <1>7, <2>1 DEF Under
    <3>2. c \in Proc /\ Far(c) <= Far(q) /\ q \in Proc
      BY <3>1, <1>1 DEF Forest
    <3>3. Later(stride, c, p)
      BY <3>1, <1>2 DEF InOrder
    <3>4. ~(Far(c) < Far(p) /\ ~(Far(p) < Far(c)))
      BY <3>2, <3>3, <1>6 DEF Later
    <3> QED  BY <3>2, <3>4, <1>5
  <2>2. D[p] = {p} \cup Under(D, h.left[p]) \cup Under(D, h.right[p])
    BY <1>1 DEF Forest, Node
  <2>3. Far(p) <= Far(p)
    BY <1>5
  <2> QED  BY <2>1, <2>2, <2>3
<1>8. r \in T
  <2>1. Proc \subseteq T
    <3> HIDE DEF T
    <3> QED  BY <1>1, <1>2, <1>7, ForestInduction
  <2> QED  BY <2>1, <1>2
<1>9. ASSUME NEW q \in Proc
      PROVE  ~Pool!Less(stride[q], stride[r])
  <2>1. Far(r) <= Far(q)
    BY <1>2, <1>8
  <2> QED  BY <2>1, <1>2, <1>5, <1>6
<1> QED  BY <1>2, <1>9 DEF Pool!First

\* Where nobody sleeps or forks, all stay RUNNABLE.
PoolInv == Inv /\ Fits /\ Runnable = Proc

\* schedule() picks a least one of all.
LEMMA RescheduleStep ==
  ASSUME PoolInv, Reschedule
  PROVE  [Pool!Next]_stride
<1>1. PICK pool : /\ pool = IF current = idleproc THEN rq ELSE HeapInsert(rq, current, stride)
                  /\ PickNext(pool)
  BY DEF Reschedule
<1>2. HeapOK(pool.heap, pool.root, stride, Proc)
  BY <1>1, PutBack DEF PoolInv
<1>3. TypeOK /\ Fits
  BY DEF PoolInv, Inv
<1>4. CASE UNCHANGED stride
  BY <1>4
<1>5. CASE current' \in Proc /\ current' = pool.root /\ stride' = Stepped(current')
  <2>1. PICK h, p : h = pool.heap /\ p = pool.root
    OBVIOUS
  <2>2. p # NULL /\ p \in Proc
    BY <2>1, <1>5, ProcAssumption
  <2>3. Pool!First(p)
    BY <2>1, <2>2, <1>2, <1>3, RootIsFirst
  <2>4. \E step \in 0 .. Pool!BIG_STRIDE : stride' = [stride EXCEPT ![p] = Pool!Advance(@, step)]
    BY <2>1, <2>2, <1>3, <1>5, SteppedType
  <2> QED  BY <2>2, <2>3, <2>4 DEF Pool!Pick, Pool!Next
<1> QED  BY <1>1, <1>2, <1>3, <1>4, <1>5, PickOK

\* Without sleepers and new processes every step is one of StridePool.
LEMMA PoolInvHolds ==
  ASSUME Sleeper = {}, Forked = {}
  PROVE  /\ Init => PoolInv /\ Pool!Init
         /\ PoolInv /\ [Next]_vars => PoolInv' /\ [Pool!Next]_stride
<1>1. ASSUME Init
      PROVE  PoolInv /\ Pool!Init
  <2>1. Pool!Init /\ Runnable = Proc
    BY <1>1 DEF Init, Pool!Init, Runnable
  <2> QED  BY <1>1, <2>1, InitInv, FitsAtFirst DEF PoolInv
<1>2. ASSUME PoolInv, [Next]_vars
      PROVE  PoolInv' /\ [Pool!Next]_stride
  <2>1. \A p \in Proc : state[p] = "RUNNABLE"
    BY <1>2 DEF PoolInv, Runnable
  <2>2. Reschedule \/ (\E n \in Priority : SetPriority(n)) \/ UNCHANGED vars
    BY <1>2, <2>1 DEF Next, Sleep, Exit, Wake, Fork
  <2>3. [Pool!Next]_stride
    BY <1>2, <2>2, RescheduleStep DEF SetPriority, vars
  <2>4. Runnable' = Runnable
    BY <2>2 DEF Reschedule, SetPriority, vars, Runnable
  <2> QED  BY <1>2, <2>3, <2>4, NextInv, FitsKept DEF PoolInv
<1> QED  BY <1>1, <1>2

(***************************************************************************)
(* Where nobody sleeps or forks, the class implements StridePool: the root *)
(* of the skew heap is a process that no other comes before, though the    *)
(* strides wrap around, and it advances by at most BIG_STRIDE.             *)
(***************************************************************************)
THEOREM PicksLeast ==
  ASSUME Sleeper = {}, Forked = {}
  PROVE  Spec => ImplementsStridePool
<1>1. Init => PoolInv /\ Pool!Init
  BY PoolInvHolds
<1>2. PoolInv /\ [Next]_vars => PoolInv' /\ [Pool!Next]_stride
  BY PoolInvHolds
<1>3. QED BY <1>1, <1>2, PTL DEF Spec, ImplementsStridePool, Pool!Spec

=============================================================================
