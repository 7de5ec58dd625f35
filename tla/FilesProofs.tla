---------------------------- MODULE FilesProofs ----------------------------
(***************************************************************************)
(* The counts of the inodes, proved exact for any number of processes,     *)
(* descriptors, files and devices.                                         *)
(***************************************************************************)
EXTENDS Files, FiniteSetTheorems, TLAPS

(***************************************************************************)
(* The inductive invariant.  A process without a files_struct uses no      *)
(* inode, and an inode of sfs is in memory while its count is not zero,    *)
(* which is InMemory once RefExact says what the count is made of.  An     *)
(* exec or an exit is of a user process, which has given its directory     *)
(* back before it closes its last descriptors.                             *)
(***************************************************************************)
Unused == \A p \in Process \ alive : table[p] = Empty /\ pwd[p] = NoNode

CachedExact == \A n \in Node \ Device : n \in cached <=> ref[n] > 0

CallExact ==
  /\ call # Idle => call.proc \in alive \ {initproc}
  /\ call.op = "load" => call.fd \in Fd
  /\ call.op = "exit" => pwd[call.proc] = NoNode

Inv ==
  /\ TypeOK
  /\ AssertsHold
  /\ Unused
  /\ CallExact
  /\ RefExact
  /\ CachedExact

-----------------------------------------------------------------------------
(* Counting descriptors. *)

Row == [Fd -> Node \cup {NoNode}]

OpenIn(t, n) == {x \in Process \X Fd : t[x[1]][x[2]] = n}
OpenBeside(t, p, n) == {x \in (Process \ {p}) \X Fd : t[x[1]][x[2]] = n}

\* There are finitely many descriptors, so every set of them has a number.
LEMMA Finite ==
  /\ IsFiniteSet(Process) /\ IsFiniteSet(Process \X Fd)
  /\ \A row, n : IsFiniteSet(Fds(row, n)) /\ Cardinality(Fds(row, n)) \in Nat
  /\ \A t, n : IsFiniteSet(OpenIn(t, n)) /\ Cardinality(OpenIn(t, n)) \in Nat
  /\ \A t, p, n : IsFiniteSet(OpenBeside(t, p, n)) /\ Cardinality(OpenBeside(t, p, n)) \in Nat
<1>1. IsFiniteSet(Process)
  BY FilesAssumption, FS_AddElement DEF Process
<1>2. IsFiniteSet(Process \X Fd)
  BY <1>1, FilesAssumption, FS_Product
<1>3. ASSUME NEW row, NEW n
      PROVE  IsFiniteSet(Fds(row, n)) /\ Cardinality(Fds(row, n)) \in Nat
  <2>1. Fds(row, n) \in SUBSET Fd
    BY DEF Fds
  <2> QED  BY <2>1, FilesAssumption, FS_Subset, FS_CardinalityType
<1>4. ASSUME NEW t, NEW n
      PROVE  IsFiniteSet(OpenIn(t, n)) /\ Cardinality(OpenIn(t, n)) \in Nat
  <2>1. OpenIn(t, n) \in SUBSET (Process \X Fd)
    BY DEF OpenIn
  <2> QED  BY <2>1, <1>2, FS_Subset, FS_CardinalityType
<1>5. ASSUME NEW t, NEW p, NEW n
      PROVE  IsFiniteSet(OpenBeside(t, p, n)) /\ Cardinality(OpenBeside(t, p, n)) \in Nat
  <2>1. OpenBeside(t, p, n) \in SUBSET (Process \X Fd)
    BY DEF OpenBeside
  <2> QED  BY <2>1, <1>2, FS_Subset, FS_CardinalityType
<1> QED  BY <1>1, <1>2, <1>3, <1>4, <1>5

\* The descriptors on n are those of p and those of the others.
LEMMA RowSplit ==
  ASSUME NEW t, NEW p \in Process, NEW n
  PROVE  Cardinality(OpenIn(t, n)) =
           Cardinality(OpenBeside(t, p, n)) + Cardinality(Fds(t[p], n))
<1> DEFINE mine == {p} \X Fds(t[p], n)
<1>1. OpenIn(t, n) = OpenBeside(t, p, n) \cup mine
  <2>1. ASSUME NEW x \in Process \X Fd
        PROVE  x \in mine <=> x[1] = p /\ t[x[1]][x[2]] = n
    BY <2>1 DEF Fds
  <2>2. mine \subseteq Process \X Fd
    BY DEF Fds
  <2>3. ASSUME NEW x \in Process \X Fd
        PROVE  x \in OpenBeside(t, p, n) <=> x[1] # p /\ t[x[1]][x[2]] = n
    BY DEF OpenBeside
  <2>4. OpenBeside(t, p, n) \subseteq Process \X Fd
    BY DEF OpenBeside
  <2> HIDE DEF mine
  <2> QED  BY <2>1, <2>2, <2>3, <2>4 DEF OpenIn
<1>2. OpenBeside(t, p, n) \cap mine = {}
  BY DEF OpenBeside
<1>3. IsFiniteSet(mine) /\ Cardinality(mine) = Cardinality(Fds(t[p], n))
  <2>1. IsFiniteSet({p}) /\ Cardinality({p}) = 1
    BY FS_Singleton
  <2>2. IsFiniteSet(mine) /\ Cardinality(mine) = 1 * Cardinality(Fds(t[p], n))
    BY <2>1, Finite, FS_Product
  <2> QED  BY <2>2, Finite
<1> HIDE DEF mine
<1>4. Cardinality(OpenBeside(t, p, n) \cup mine) =
        Cardinality(OpenBeside(t, p, n)) + Cardinality(mine) - Cardinality({})
  BY <1>2, <1>3, Finite, FS_Union
<1> QED  BY <1>1, <1>3, <1>4, Finite, FS_EmptySet

\* t and u differ at p only.
SameBeside(t, u, p) == \A q \in Process \ {p} : u[q] = t[q]

\* A new table of p changes the count of n by what it holds more.
LEMMA RowChange ==
  ASSUME NEW t, NEW u, NEW p \in Process, NEW n, SameBeside(t, u, p)
  PROVE  Cardinality(OpenIn(u, n)) =
           Cardinality(OpenIn(t, n)) - Cardinality(Fds(t[p], n)) + Cardinality(Fds(u[p], n))
<1>1. OpenBeside(u, p, n) = OpenBeside(t, p, n)
  BY DEF OpenBeside, SameBeside
<1>2. Cardinality(OpenIn(u, n)) = Cardinality(OpenBeside(t, p, n)) + Cardinality(Fds(u[p], n))
  BY <1>1, RowSplit
<1>3. Cardinality(OpenIn(t, n)) = Cardinality(OpenBeside(t, p, n)) + Cardinality(Fds(t[p], n))
  BY RowSplit
<1> QED  BY <1>2, <1>3, Finite

\* A table without descriptors holds no inode.
LEMMA EmptyHoldsNone ==
  ASSUME NEW n \in Node
  PROVE  Cardinality(Fds(Empty, n)) = 0
<1>1. Fds(Empty, n) = {}
  BY FilesAssumption DEF Fds, Empty
<1> QED  BY <1>1, FS_EmptySet

\* One free descriptor more on m.
LEMMA OneMoreFd ==
  ASSUME NEW row \in Row, NEW fd \in Fd, row[fd] = NoNode, NEW m \in Node, NEW n \in Node
  PROVE  Cardinality(Fds([row EXCEPT ![fd] = m], n)) = Cardinality(Fds(row, n)) + One(m)[n]
<1>1. m # NoNode /\ n # NoNode
  BY FilesAssumption
<1>2. CASE n = m
  <2>1. Fds([row EXCEPT ![fd] = m], n) = Fds(row, n) \cup {fd} /\ fd \notin Fds(row, n)
    BY <1>1, <1>2 DEF Fds, Row
  <2> QED  BY <2>1, <1>2, Finite, FS_AddElement DEF One
<1>3. CASE n # m
  <2>1. Fds([row EXCEPT ![fd] = m], n) = Fds(row, n)
    BY <1>1, <1>3 DEF Fds, Row
  <2> QED  BY <2>1, <1>3, Finite DEF One
<1> QED  BY <1>2, <1>3

\* One descriptor less on its inode.
LEMMA OneFdLess ==
  ASSUME NEW row \in Row, NEW fd \in Fd, row[fd] \in Node, NEW n \in Node
  PROVE  Cardinality(Fds(row, n)) =
           Cardinality(Fds([row EXCEPT ![fd] = NoNode], n)) + One(row[fd])[n]
<1> DEFINE less == [row EXCEPT ![fd] = NoNode]
<1>1. less \in Row /\ less[fd] = NoNode
  BY DEF Row
<1>2. Cardinality(Fds([less EXCEPT ![fd] = row[fd]], n)) = Cardinality(Fds(less, n)) + One(row[fd])[n]
  <2> HIDE DEF less
  <2> QED  BY <1>1, OneMoreFd
<1>3. [less EXCEPT ![fd] = row[fd]] = row
  BY DEF Row
<1> QED  BY <1>2, <1>3

\* A copied descriptor counts for its inode only.
LEMMA OneCopy ==
  ASSUME NEW to \in Fd, NEW m \in Node
  PROVE  PerFd([Empty EXCEPT ![to] = m]) = One(m)
<1>1. ASSUME NEW n \in Node
      PROVE  Cardinality(Fds([Empty EXCEPT ![to] = m], n)) = (IF n = m THEN 1 ELSE 0)
  <2>1. Fds([Empty EXCEPT ![to] = m], n) = IF n = m THEN {to} ELSE {}
    BY FilesAssumption DEF Fds, Empty
  <2> QED  BY <2>1, FS_Singleton, FS_EmptySet
<1> QED  BY <1>1 DEF PerFd, One

-----------------------------------------------------------------------------
(* Counting directories. *)

DirIn(d, n) == {p \in Process : d[p] = n}

LEMMA DirFinite ==
  ASSUME NEW d, NEW n
  PROVE  IsFiniteSet(DirIn(d, n)) /\ Cardinality(DirIn(d, n)) \in Nat
<1>1. DirIn(d, n) \in SUBSET Process
  BY DEF DirIn
<1> QED  BY <1>1, Finite, FS_Subset, FS_CardinalityType

\* A process without a directory gets one.
LEMMA DirGained ==
  ASSUME NEW d, NEW e, NEW p \in Process, NEW n \in Node,
         SameBeside(d, e, p), d[p] = NoNode
  PROVE  Cardinality(DirIn(e, n)) = Cardinality(DirIn(d, n)) + (IF n = e[p] THEN 1 ELSE 0)
<1>1. n # NoNode
  BY FilesAssumption
<1>2. CASE n = e[p]
  <2>1. DirIn(e, n) = DirIn(d, n) \cup {p} /\ p \notin DirIn(d, n)
    BY <1>1, <1>2 DEF DirIn, SameBeside
  <2> QED  BY <2>1, <1>2, DirFinite, FS_AddElement
<1>3. CASE n # e[p]
  <2>1. DirIn(e, n) = DirIn(d, n)
    BY <1>1, <1>3 DEF DirIn, SameBeside
  <2> QED  BY <2>1, <1>3, DirFinite
<1> QED  BY <1>2, <1>3

-----------------------------------------------------------------------------
(* What the two ways to change the counts do. *)

LEMMA CountTypes ==
  /\ \A row : PerFd(row) \in [Node -> Nat]
  /\ \A c \in [Node -> Nat] : \A d : WithDir(c, d) \in [Node -> Nat]
  /\ \A m : One(m) \in [Node -> Nat]
  /\ Zero \in [Node -> Nat]
<1>1. \A row : PerFd(row) \in [Node -> Nat]
  BY Finite DEF PerFd
<1> QED  BY <1>1 DEF WithDir, One, Zero

\* An inode that is not in memory has no references and no openings.
LEMMA Uncached ==
  ASSUME Inv, NEW n \in Node \ (cached \cup Device)
  PROVE  ref[n] = 0 /\ opens[n] = 0
<1>1. ~(ref[n] > 0)
  BY DEF Inv, CachedExact
<1>2. Cardinality(OpenOn(n)) \in Nat /\ Cardinality(DirOf(n)) \in Nat
  <2>1. OpenOn(n) = OpenIn(table, n) /\ DirOf(n) = DirIn(pwd, n)
    BY DEF OpenOn, OpenIn, DirOf, DirIn
  <2> QED  BY <2>1, Finite, DirFinite
<1>3. /\ opens[n] = Cardinality(OpenOn(n))
      /\ ref[n] = Cardinality(OpenOn(n)) + Cardinality(DirOf(n)) + Fixed(n) + leaked[n]
  BY DEF Inv, RefExact
<1>4. Fixed(n) \in Nat /\ leaked[n] \in Nat
  BY DEF Inv, TypeOK, Fixed
<1> QED  BY <1>1, <1>2, <1>3, <1>4

LEMMA TakeAdds ==
  ASSUME Inv, NEW r \in [Node -> Nat], NEW o \in [Node -> Nat], Take(r, o)
  PROVE  /\ \A n \in Node : ref'[n] = ref[n] + r[n] /\ opens'[n] = opens[n] + o[n]
         /\ ref' \in [Node -> Int] /\ opens' \in [Node -> Int]
         /\ cached' \subseteq Node \ Device
         /\ CachedExact'
<1>1. ref \in [Node -> Int] /\ opens \in [Node -> Int] /\ cached \subseteq Node \ Device
  BY DEF Inv, TypeOK
<1>2. \A n \in Node : ref'[n] = ref[n] + r[n] /\ opens'[n] = opens[n] + o[n]
  BY <1>1, Uncached DEF Take, Refs, Opens
<1>3. ref' \in [Node -> Int] /\ opens' \in [Node -> Int]
  BY <1>1 DEF Take, Refs, Opens
<1>4. cached' \subseteq Node \ Device
  BY <1>1 DEF Take
<1>5. ASSUME NEW n \in Node \ Device
      PROVE  n \in cached' <=> ref'[n] > 0
  <2>1. CASE n \in cached
    <3>1. ref[n] > 0
      BY <2>1 DEF Inv, CachedExact
    <3> QED  BY <3>1, <2>1, <1>1, <1>2 DEF Take
  <2>2. CASE n \notin cached
    <3>1. ref[n] = 0
      BY <2>2, Uncached
    <3> QED  BY <3>1, <2>2, <1>2 DEF Take
  <2> QED  BY <2>1, <2>2
<1> QED  BY <1>2, <1>3, <1>4, <1>5 DEF CachedExact

\* What is given back was counted, beside what the kernel itself holds.
Counted(r, o) ==
  \A n \in Node :
    /\ r[n] + Fixed(n) <= ref[n] /\ o[n] <= opens[n]
    /\ opens[n] - o[n] <= ref[n] - r[n]

LEMMA GiveTakes ==
  ASSUME Inv, NEW r \in [Node -> Nat], NEW o \in [Node -> Nat], Counted(r, o),
         Give(r, o)
  PROVE  /\ \A n \in Node : ref'[n] = ref[n] - r[n] /\ opens'[n] = opens[n] - o[n]
         /\ ref' \in [Node -> Int] /\ opens' \in [Node -> Int]
         /\ cached' \subseteq Node \ Device
         /\ CachedExact'
<1>1. ref \in [Node -> Int] /\ opens \in [Node -> Int] /\ cached \subseteq Node \ Device
  BY DEF Inv, TypeOK
<1>3. \A n \in Node : ref'[n] = ref[n] - r[n] /\ opens'[n] = opens[n] - o[n]
  BY <1>1 DEF Give
<1>4. ref' \in [Node -> Int] /\ opens' \in [Node -> Int]
  BY <1>1 DEF Give
<1>5. cached' \subseteq Node \ Device
  BY <1>1 DEF Give
<1>6. ASSUME NEW n \in Node \ Device
      PROVE  n \in cached' <=> ref'[n] > 0
  <2>1. n \in cached <=> ref[n] > 0
    BY DEF Inv, CachedExact
  <2>2. r[n] <= ref[n]
    BY <1>1 DEF Counted, Fixed
  <2>3. n \in cached' <=> n \in cached /\ ref'[n] # 0
    BY DEF Give, Reclaimed
  <2> QED  BY <2>1, <2>2, <2>3, <1>1, <1>3
<1> QED  BY <1>3, <1>4, <1>5, <1>6 DEF CachedExact

-----------------------------------------------------------------------------
(* The invariant is inductive. *)

LEMMA InitInv == Init => Inv
<1> SUFFICES ASSUME Init PROVE Inv
  OBVIOUS
<1>1. TypeOK /\ AssertsHold /\ Unused /\ CallExact
  BY FilesAssumption DEF Init, TypeOK, AssertsHold, Unused, CallExact, Idle, Process, Node, Empty
<1>2. ASSUME NEW n \in Node
      PROVE  /\ Cardinality(OpenOn(n)) = 0
             /\ Cardinality(DirOf(n)) = IF n = root THEN 1 ELSE 0
  <2>1. n # NoNode
    BY FilesAssumption
  <2>2. OpenOn(n) = {}
    <3>1. \A p \in Process, fd \in Fd : table[p][fd] = NoNode
      BY DEF Init, Empty, Process
    <3> QED  BY <2>1, <3>1 DEF OpenOn
  <2>3. DirOf(n) = IF n = root THEN {initproc} ELSE {}
    BY <2>1 DEF Init, DirOf, Process
  <2> QED  BY <2>2, <2>3, FS_EmptySet, FS_Singleton
<1>3. RefExact
  BY <1>2, FilesAssumption DEF RefExact, Init, Fixed
<1>4. CachedExact
  BY FilesAssumption DEF CachedExact, Init
<1> QED  BY <1>1, <1>3, <1>4 DEF Inv

\* open_count of n is never above its ref_count, and both are natural.
LEMMA RefParts ==
  ASSUME Inv, NEW n \in Node
  PROVE  /\ Cardinality(OpenIn(table, n)) \in Nat /\ Cardinality(DirIn(pwd, n)) \in Nat
         /\ Fixed(n) \in Nat /\ leaked[n] \in Nat
         /\ opens[n] = Cardinality(OpenIn(table, n))
         /\ ref[n] = Cardinality(OpenIn(table, n)) + Cardinality(DirIn(pwd, n)) + Fixed(n) + leaked[n]
<1>1. OpenOn(n) = OpenIn(table, n) /\ DirOf(n) = DirIn(pwd, n)
  BY DEF OpenOn, OpenIn, DirOf, DirIn
<1> QED  BY <1>1, Finite, DirFinite DEF Inv, RefExact, TypeOK, Fixed

\* RefExact after a step, from what each of the three counted things changes by.
LEMMA RefExactNext ==
  ASSUME \A n \in Node :
           /\ opens'[n] = Cardinality(OpenIn(table', n))
           /\ ref'[n] = Cardinality(OpenIn(table', n)) + Cardinality(DirIn(pwd', n))
                          + Fixed(n) + leaked'[n]
  PROVE  RefExact'
<1>1. \A n \in Node : OpenOn(n)' = OpenIn(table', n) /\ DirOf(n)' = DirIn(pwd', n)
  BY DEF OpenOn, OpenIn, DirOf, DirIn
<1> QED  BY <1>1 DEF RefExact, Fixed

-----------------------------------------------------------------------------
(* Steps that stop the kernel. *)

\* A pair that inode_check sees belongs to an inode and a reference more than
\* it has, at most.
Seen(c) ==
  /\ c[1] \in Int /\ c[2] \in Int /\ 0 <= c[2] /\ c[2] <= c[1]
  /\ \E n \in Node : c[1] <= ref[n] + 1

\* The next reference to an inode would be the last but one that is allowed.
NoRoom == \E n \in Node : ref[n] >= MAX_INODE_COUNT - 1

\* Of pairs that were counted only the limit can stop the kernel.
LEMMA CheckedCounts ==
  ASSUME Inv, NEW s, \A c \in s : Seen(c)
  PROVE  /\ Failure(s) \in {"none", "limit"}
         /\ Failure(s) = "limit" => NoRoom
<1>1. \A c \in s : ~Broken(c)
  BY DEF Seen, Broken
<1>2. ASSUME NEW c \in s, Full(c)
      PROVE  NoRoom
  <2>1. PICK n \in Node : c[1] <= ref[n] + 1
    BY DEF Seen
  <2>2. c[1] \in Int /\ c[2] \in Int /\ c[2] <= c[1]
    BY DEF Seen
  <2>3. ref[n] \in Int /\ MAX_INODE_COUNT \in Int
    <3>1. MAX_INODE_COUNT \in Int
      BY FilesAssumption
    <3>2. ref \in [Node -> Int]
      BY DEF Inv, TypeOK
    <3> QED  BY <3>1, <3>2
  <2>4. ~(c[1] < MAX_INODE_COUNT /\ c[2] < MAX_INODE_COUNT)
    BY <1>2 DEF Full
  <2>5. ref[n] >= MAX_INODE_COUNT - 1
    BY ONLY <2>1, <2>2, <2>3, <2>4
  <2> QED  BY <2>5 DEF NoRoom
<1> QED  BY <1>1, <1>2 DEF Failure

\* The counts of an inode, in memory or not, are what ref and opens say.
LEMMA CountsOf ==
  ASSUME Inv, NEW n \in Node
  PROVE  /\ Refs(n) = ref[n] /\ Opens(n) = opens[n]
         /\ ref[n] \in Int /\ opens[n] \in Int
         /\ 0 <= opens[n] /\ opens[n] + Fixed(n) <= ref[n] /\ Fixed(n) \in Nat
<1>1. Refs(n) = ref[n] /\ Opens(n) = opens[n]
  BY Uncached DEF Refs, Opens
<1> QED  BY <1>1, RefParts

LEMMA SeenPair ==
  ASSUME NEW n \in Node, NEW a \in Int, NEW b \in Int, 0 <= b, b <= a, a <= ref[n] + 1
  PROVE  Seen(<<a, b>>)
BY DEF Seen

LEMMA OpenFails ==
  ASSUME Inv, NEW n \in Node \cup {NoNode}, NEW flags
  PROVE  /\ OpenFailure(n, flags) \in {"none", "no operation", "limit"}
         /\ OpenFailure(n, flags) = "limit" => NoRoom
<1>1. root \in Node
  BY DEF Node
<1>2. \A c \in Looked(n) : Seen(c)
  <2>1. Seen(<<Refs(root) + 1, Opens(root)>>)
    BY <1>1, CountsOf, SeenPair
  <2> QED  BY <2>1 DEF Looked
<1>3. n \in Node => \A c \in Opened(n, flags) : Seen(c)
  <2> SUFFICES ASSUME n \in Node PROVE \A c \in Opened(n, flags) : Seen(c)
    OBVIOUS
  <2>1. Seen(<<Refs(n) + 1, Opens(n)>>) /\ Seen(<<Refs(n) + 1, Opens(n) + 1>>)
    BY CountsOf, SeenPair
  <2> QED  BY <2>1 DEF Opened
<1>4. PICK s : s = IF n = NoNode \/ Exists(flags) THEN Looked(n) ELSE Looked(n) \cup Opened(n, flags)
  OBVIOUS
<1>5. \A c \in s : Seen(c)
  BY <1>2, <1>3, <1>4
<1>6. Failure(s) \in {"none", "limit"} /\ (Failure(s) = "limit" => NoRoom)
  BY <1>5, CheckedCounts
<1> QED  BY <1>4, <1>6 DEF OpenFailure

LEMMA CallFails ==
  ASSUME Inv, NEW n \in Node, NEW op
  PROVE  /\ CallFailure(n, op) \in {"none", "no operation", "limit"}
         /\ CallFailure(n, op) = "limit" => NoRoom
<1>1. Seen(<<ref[n], opens[n]>>)
  BY CountsOf, SeenPair
<1> QED  BY <1>1, CheckedCounts DEF CallFailure

LEMMA GiveFails ==
  ASSUME Inv, NEW r \in [Node -> Nat], NEW o \in [Node -> Nat], Counted(r, o)
  PROVE  /\ GiveFailure(r, o) \in {"none", "limit"}
         /\ GiveFailure(r, o) = "limit" => NoRoom
<1> DEFINE closed == {n \in Node : o[n] > 0 /\ opens[n] = o[n]}
           freed == {n \in Node : r[n] > 0 /\ ref[n] = r[n]}
           s == {<<ref[n], 0>> : n \in closed} \cup {<<0, opens[n] - o[n]>> : n \in freed}
<1>1. ASSUME NEW n \in Node
      PROVE  /\ ref[n] \in Int /\ opens[n] \in Int /\ r[n] \in Nat /\ o[n] \in Nat
             /\ 0 <= opens[n] /\ opens[n] <= ref[n] /\ Fixed(n) \in Nat
             /\ r[n] + Fixed(n) <= ref[n] /\ o[n] <= opens[n]
             /\ opens[n] - o[n] <= ref[n] - r[n]
  BY CountsOf DEF Counted
<1>2. \A n \in Node : (o[n] > 0 => opens[n] > 0) /\ (r[n] > 0 => ref[n] > 0)
  BY <1>1
<1>3. freed \cap Device = {}
  <2>1. ASSUME NEW n \in freed \cap Device PROVE FALSE
    <3>1. n \in Node /\ Fixed(n) = 1 /\ ref[n] = r[n]
      BY <2>1 DEF Fixed
    <3> QED  BY <3>1, <1>1
  <2> QED  BY <2>1
<1>4. \A c \in s : Seen(c)
  <2>1. ASSUME NEW n \in closed PROVE Seen(<<ref[n], 0>>)
    BY <1>1, SeenPair
  <2>2. ASSUME NEW n \in freed PROVE Seen(<<0, opens[n] - o[n]>>)
    <3>1. opens[n] - o[n] = 0 /\ 0 <= ref[n] + 1
      BY <1>1
    <3> QED  BY <3>1, SeenPair
  <2> QED  BY <2>1, <2>2
<1>5. GiveFailure(r, o) = Failure(s)
  BY <1>2, <1>3 DEF GiveFailure
<1> HIDE DEF s
<1> QED  BY <1>4, <1>5, CheckedCounts

\* A step that leaves all counts and what they count alone keeps them exact.
LEMMA CountsKept ==
  ASSUME Inv, UNCHANGED <<alive, table, pwd, ref, opens, cached, leaked>>
  PROVE  Unused' /\ RefExact' /\ CachedExact'
<1>1. Unused' /\ CachedExact'
  BY DEF Inv, Unused, CachedExact
<1>2. \A n \in Node : OpenOn(n)' = OpenOn(n) /\ DirOf(n)' = DirOf(n)
  BY DEF OpenOn, DirOf
<1>3. RefExact'
  BY <1>2 DEF Inv, RefExact, Fixed
<1> QED  BY <1>1, <1>3

\* A panic changes none of the counts.
LEMMA PanicStep ==
  ASSUME Inv, NEW what \in {"no operation", "limit"}, what = "limit" => NoRoom, Panic(what)
  PROVE  Inv'
<1>1. UNCHANGED <<alive, table, pwd, ref, opens, cached, leaked, call>> /\ panic' = what
  BY DEF Panic, counts
<1>2. TypeOK' /\ Unused' /\ CallExact' /\ RefExact' /\ CachedExact'
  <2>1. TypeOK'
    BY <1>1 DEF Inv, TypeOK
  <2>2. CallExact'
    BY <1>1 DEF Inv, CallExact
  <2> QED  BY <2>1, <2>2, <1>1, CountsKept
<1>3. what = "limit" =>
        \E n \in Node :
          Cardinality(OpenOn(n)) + Cardinality(DirOf(n)) + Fixed(n) + leaked[n] >= MAX_INODE_COUNT - 1
  BY DEF Inv, RefExact, NoRoom
<1>4. \A n \in Node : OpenOn(n)' = OpenOn(n) /\ DirOf(n)' = DirOf(n) /\ leaked'[n] = leaked[n]
  BY <1>1 DEF OpenOn, DirOf
<1>5. AssertsHold'
  BY <1>1, <1>3, <1>4 DEF AssertsHold, Fixed
<1> QED  BY <1>2, <1>5 DEF Inv

-----------------------------------------------------------------------------
(* Steps that change the counts. *)

Call == [op : {"none", "exec", "load", "exit"}, proc : Process, fd : Nat]

\* A running call of p leaves it the invariant of calls, if it goes on.
LEMMA CallOn ==
  ASSUME Inv, NEW p \in Proc, p \in alive, NEW op \in {"exec", "load", "exit"},
         NEW fd \in Nat, Continue(op, p, fd), op = "load" => fd \in Fd,
         op = "exit" => pwd'[p] = NoNode, alive' = alive
  PROVE  call' \in Call /\ CallExact'
<1>1. call'.op = op /\ call'.proc = p /\ call'.fd = fd /\ call' \in Call
  BY DEF Continue, Call, Process
<1>2. p # initproc
  BY FilesAssumption
<1> QED  BY <1>1, <1>2 DEF CallExact

LEMMA CallSame ==
  ASSUME Inv, UNCHANGED <<call, pwd, alive>>
  PROVE  call' \in Call /\ CallExact'
BY DEF Inv, TypeOK, Call, CallExact

LEMMA CallDone ==
  ASSUME call' = Idle
  PROVE  call' \in Call /\ CallExact'
BY DEF Call, CallExact, Idle, Process

LEMMA OpenFdStep ==
  ASSUME Inv, NEW p \in Proc, p \in alive, NEW fd \in Fd, NEW n \in Node,
         table[p][fd] = NoNode, OpenFd(p, fd, n),
         panic = "none", panic' = panic, call' \in Call, CallExact'
  PROVE  Inv'
<1> DEFINE row == [table[p] EXCEPT ![fd] = n]
<1>1. table' = [table EXCEPT ![p][fd] = n] /\ UNCHANGED <<alive, pwd, leaked>>
  BY DEF OpenFd
<1>2. p \in Process /\ table \in [Process -> Row] /\ row \in Row /\ table' = [table EXCEPT ![p] = row]
  BY <1>1 DEF Inv, TypeOK, Process, Row
<1>3. /\ \A m \in Node : ref'[m] = ref[m] + One(n)[m] /\ opens'[m] = opens[m] + One(n)[m]
      /\ ref' \in [Node -> Int] /\ opens' \in [Node -> Int]
      /\ cached' \subseteq Node \ Device
      /\ CachedExact'
  BY TakeAdds, CountTypes DEF OpenFd
<1>4. RefExact'
  <2>1. ASSUME NEW m \in Node
        PROVE  /\ opens'[m] = Cardinality(OpenIn(table', m))
               /\ ref'[m] = Cardinality(OpenIn(table', m)) + Cardinality(DirIn(pwd', m))
                              + Fixed(m) + leaked'[m]
    <3>1. Cardinality(Fds(row, m)) = Cardinality(Fds(table[p], m)) + One(n)[m]
      <4>1. table[p] \in Row
        BY <1>2
      <4> QED  BY <4>1, OneMoreFd
    <3>2. Cardinality(OpenIn(table', m)) =
            Cardinality(OpenIn(table, m)) - Cardinality(Fds(table[p], m)) + Cardinality(Fds(row, m))
      <4>1. table'[p] = row /\ SameBeside(table, table', p)
        BY <1>2 DEF SameBeside
      <4>2. Cardinality(OpenIn(table', m)) = Cardinality(OpenIn(table, m))
              - Cardinality(Fds(table[p], m)) + Cardinality(Fds(table'[p], m))
        <5>1. p \in Process /\ SameBeside(table, table', p)
          BY <4>1, <1>2
        <5> QED  BY ONLY <5>1, RowChange
      <4> QED  BY <4>1, <4>2
    <3>3. One(n)[m] \in Nat
      BY DEF One
    <3>4. Cardinality(OpenIn(table', m)) = Cardinality(OpenIn(table, m)) + One(n)[m]
      BY <3>1, <3>2, <3>3, Finite
    <3> QED  BY <1>1, <1>3, <3>3, <3>4, RefParts
  <2> QED  BY <2>1, RefExactNext
<1>5. TypeOK' /\ AssertsHold' /\ Unused'
  BY <1>1, <1>2, <1>3 DEF Inv, TypeOK, AssertsHold, Unused, Row, Call
<1> QED  BY <1>3, <1>4, <1>5 DEF Inv

LEMMA OpenExistsStep ==
  ASSUME Inv, NEW p \in Proc, NEW n \in Node, NEW flags, OpenExists(p, n, flags)
  PROVE  Inv'
<1>1. /\ \A m \in Node : ref'[m] = ref[m] + One(n)[m] /\ opens'[m] = opens[m] + Zero[m]
      /\ ref' \in [Node -> Int] /\ opens' \in [Node -> Int]
      /\ cached' \subseteq Node \ Device
      /\ CachedExact'
  <2>1. Take(One(n), Zero)
    BY DEF OpenExists
  <2> QED  BY <2>1, TakeAdds, CountTypes
<1>2. ASSUME NEW m \in Node
      PROVE  /\ opens'[m] = Cardinality(OpenIn(table', m))
             /\ ref'[m] = Cardinality(OpenIn(table', m)) + Cardinality(DirIn(pwd', m))
                            + Fixed(m) + leaked'[m]
  <2>1. leaked'[m] = leaked[m] + One(n)[m]
    <3>1. leaked \in [Node -> Nat] /\ leaked' = [leaked EXCEPT ![n] = @ + 1]
      BY DEF Inv, TypeOK, OpenExists
    <3> QED  BY <3>1 DEF One
  <2>3. table' = table /\ pwd' = pwd
    BY DEF OpenExists
  <2>2. One(n)[m] \in Nat /\ Zero[m] = 0
    BY DEF One, Zero
  <2> QED  BY <1>1, <2>1, <2>2, <2>3, RefParts
<1>3. RefExact'
  BY <1>2, RefExactNext
<1>4. leaked' \in [Node -> Nat]
  <2>1. leaked \in [Node -> Nat] /\ leaked' = [leaked EXCEPT ![n] = @ + 1]
    BY DEF Inv, TypeOK, OpenExists
  <2> QED  BY <2>1
<1>5. TypeOK' /\ AssertsHold' /\ Unused' /\ CallExact'
  <2>1. UNCHANGED <<alive, table, pwd, call, panic>> /\ panic = "none"
    BY DEF OpenExists, Opening, Running
  <2> QED  BY <2>1, <1>1, <1>4 DEF Inv, TypeOK, AssertsHold, Unused, CallExact
<1> QED  BY <1>1, <1>3, <1>5 DEF Inv

LEMMA DupStep ==
  ASSUME Inv, NEW p \in Proc, NEW fd \in Fd, NEW to \in Fd, Dup(p, fd, to)
  PROVE  Inv'
<1> DEFINE n == table[p][fd]
<1>1. p \in Process /\ table \in [Process -> Row]
  BY DEF Inv, TypeOK, Process, Row
<1>2. n \in Node /\ table[p][to] = NoNode
  BY <1>1 DEF Dup, OpenFds, Row
<1>3. OpenFd(p, to, n)
  <2>1. Take(One(n), One(n))
    BY <1>2, OneCopy DEF Dup, DupRefs, DupOpens
  <2> QED  BY <2>1 DEF Dup, OpenFd
<1>4. p \in alive /\ panic = "none" /\ panic' = panic /\ UNCHANGED <<call, pwd, alive>>
  BY DEF Dup, Running
<1> HIDE DEF n
<1> QED  BY <1>2, <1>3, <1>4, CallSame, OpenFdStep

\* What a descriptor or a directory holds was counted.
LEMMA FdCounted ==
  ASSUME Inv, NEW p \in Proc, NEW fd \in OpenFds(p)
  PROVE  /\ table[p][fd] \in Node /\ table[p] \in Row
         /\ Counted(One(table[p][fd]), One(table[p][fd]))
<1> DEFINE m == table[p][fd]
<1>1. p \in Process /\ fd \in Fd /\ table[p] \in Row /\ m \in Node
  <2>1. p \in Process /\ table \in [Process -> Row]
    BY DEF Inv, TypeOK, Process, Row
  <2>2. fd \in Fd /\ m # NoNode
    BY DEF OpenFds
  <2>3. table[p] \in [Fd -> Node \cup {NoNode}]
    BY <2>1 DEF Row
  <2> QED  BY <2>1, <2>2, <2>3
<1>2. ASSUME NEW n \in Node
      PROVE  /\ One(m)[n] + Fixed(n) <= ref[n] /\ One(m)[n] <= opens[n]
             /\ opens[n] - One(m)[n] <= ref[n] - One(m)[n]
  <2>1. Cardinality(Fds(table[p], n)) =
          Cardinality(Fds([table[p] EXCEPT ![fd] = NoNode], n)) + One(m)[n]
    BY <1>1, OneFdLess
  <2>2. Cardinality(OpenIn(table, n)) = Cardinality(OpenBeside(table, p, n)) + Cardinality(Fds(table[p], n))
    BY <1>1, RowSplit
  <2>3. One(m)[n] \in Nat
    BY DEF One
  <2>4. One(m)[n] <= Cardinality(OpenIn(table, n))
    BY <2>1, <2>2, <2>3, Finite
  <2> QED  BY <2>3, <2>4, RefParts
<1> QED  BY <1>1, <1>2 DEF Counted

LEMMA CloseFdStep ==
  ASSUME Inv, NEW p \in Proc, p \in alive, NEW fd \in OpenFds(p), CloseFd(p, fd),
         panic = "none", panic' = panic, call' \in Call, CallExact'
  PROVE  Inv'
<1> DEFINE m == table[p][fd]
           row == [table[p] EXCEPT ![fd] = NoNode]
<1>1. table' = [table EXCEPT ![p][fd] = NoNode] /\ UNCHANGED <<alive, pwd, leaked>>
  BY DEF CloseFd
<1>2. /\ p \in Process /\ fd \in Fd /\ table \in [Process -> Row] /\ row \in Row /\ m \in Node
      /\ table' = [table EXCEPT ![p] = row] /\ table[p] \in Row
  BY <1>1 DEF Inv, TypeOK, Process, Row, OpenFds
<1>3. /\ \A n \in Node : ref'[n] = ref[n] - One(m)[n] /\ opens'[n] = opens[n] - One(m)[n]
      /\ ref' \in [Node -> Int] /\ opens' \in [Node -> Int]
      /\ cached' \subseteq Node \ Device
      /\ CachedExact'
  BY FdCounted, GiveTakes, CountTypes DEF CloseFd
<1>4. RefExact'
  <2>1. ASSUME NEW n \in Node
        PROVE  /\ opens'[n] = Cardinality(OpenIn(table', n))
               /\ ref'[n] = Cardinality(OpenIn(table', n)) + Cardinality(DirIn(pwd', n))
                              + Fixed(n) + leaked'[n]
    <3>1. Cardinality(Fds(table[p], n)) = Cardinality(Fds(row, n)) + One(m)[n]
      BY <1>2, OneFdLess
    <3>2. Cardinality(OpenIn(table', n)) =
            Cardinality(OpenIn(table, n)) - Cardinality(Fds(table[p], n)) + Cardinality(Fds(row, n))
      <4>1. table'[p] = row /\ SameBeside(table, table', p)
        BY <1>2 DEF SameBeside
      <4>2. Cardinality(OpenIn(table', n)) = Cardinality(OpenIn(table, n))
              - Cardinality(Fds(table[p], n)) + Cardinality(Fds(table'[p], n))
        <5>1. p \in Process /\ SameBeside(table, table', p)
          BY <4>1, <1>2
        <5> QED  BY ONLY <5>1, RowChange
      <4> QED  BY <4>1, <4>2
    <3>3. One(m)[n] \in Nat
      BY DEF One
    <3>4. Cardinality(OpenIn(table', n)) = Cardinality(OpenIn(table, n)) - One(m)[n]
      BY <3>1, <3>2, <3>3, Finite
    <3> QED  BY <1>1, <1>3, <3>3, <3>4, RefParts
  <2> QED  BY <2>1, RefExactNext
<1>5. TypeOK' /\ AssertsHold' /\ Unused'
  BY <1>1, <1>2, <1>3 DEF Inv, TypeOK, AssertsHold, Unused, Row, Call
<1> QED  BY <1>3, <1>4, <1>5 DEF Inv

\* A close that an assertion stops, or that does its work.
LEMMA CloseStep ==
  ASSUME Inv, NEW p \in Proc, p \in alive, NEW fd \in OpenFds(p), panic = "none",
         CloseFailure(p, fd) = "none" =>
           CloseFd(p, fd) /\ panic' = panic /\ call' \in Call /\ CallExact',
         CloseFailure(p, fd) # "none" => Panic(CloseFailure(p, fd))
  PROVE  Inv'
<1> DEFINE r == One(table[p][fd])
<1>1. Counted(r, r) /\ r \in [Node -> Nat]
  BY FdCounted, CountTypes
<1>2. CloseFailure(p, fd) = GiveFailure(r, r)
  BY DEF CloseFailure
<1> HIDE DEF r
<1>3. CloseFailure(p, fd) \in {"none", "limit"} /\ (CloseFailure(p, fd) = "limit" => NoRoom)
  BY <1>1, <1>2, GiveFails
<1>4. CASE CloseFailure(p, fd) = "none"
  BY <1>4, CloseFdStep
<1>5. CASE CloseFailure(p, fd) = "limit"
  BY <1>3, <1>5, PanicStep
<1> QED  BY <1>3, <1>4, <1>5

\* The loops of files_closeall and files_destroy.
LEMMA CloseFirstStep ==
  ASSUME Inv, NEW p \in Proc, p \in alive, panic = "none", NEW s \in SUBSET OpenFds(p),
         CloseFirst(p, s)
  PROVE  Inv'
<1>1. PICK fd \in s : Unless(CloseFailure(p, fd), CloseFd(p, fd) /\ UNCHANGED call)
  BY DEF CloseFirst
<1>2. CloseFailure(p, fd) = "none" => CloseFd(p, fd) /\ panic' = panic /\ call' = call
  BY <1>1 DEF Unless
<1>3. CloseFailure(p, fd) # "none" => Panic(CloseFailure(p, fd))
  BY <1>1 DEF Unless
<1>4. CloseFd(p, fd) /\ call' = call => call' \in Call /\ CallExact'
  BY CallSame DEF CloseFd
<1>5. fd \in OpenFds(p)
  OBVIOUS
<1> QED  BY <1>2, <1>3, <1>4, <1>5, CloseStep

LEMMA DirCounted ==
  ASSUME Inv, NEW p \in Proc
  PROVE  /\ DirRef(p) \in [Node -> Nat] /\ Counted(DirRef(p), Zero)
         /\ \A n \in Node :
              /\ DirRef(p)[n] = IF n = pwd[p] THEN 1 ELSE 0
              /\ Cardinality(DirIn(pwd, n)) =
                   Cardinality(DirIn([pwd EXCEPT ![p] = NoNode], n)) + DirRef(p)[n]
<1>1. DirRef(p) \in [Node -> Nat]
  BY CountTypes DEF DirRef
<1>2. p \in Process /\ pwd \in [Process -> Node \cup {NoNode}]
  BY DEF Process, Inv, TypeOK
<1>3. ASSUME NEW n \in Node
      PROVE  /\ DirRef(p)[n] = IF n = pwd[p] THEN 1 ELSE 0
             /\ Cardinality(DirIn(pwd, n)) =
                  Cardinality(DirIn([pwd EXCEPT ![p] = NoNode], n)) + DirRef(p)[n]
  <2>1. DirRef(p)[n] = IF n = pwd[p] THEN 1 ELSE 0
    BY DEF DirRef, WithDir, Zero
  <2>2. PICK d : d = [pwd EXCEPT ![p] = NoNode]
    OBVIOUS
  <2>3. d[p] = NoNode /\ SameBeside(d, pwd, p)
    BY <1>2, <2>2 DEF SameBeside
  <2>4. Cardinality(DirIn(pwd, n)) = Cardinality(DirIn(d, n)) + (IF n = pwd[p] THEN 1 ELSE 0)
    <3>1. p \in Process /\ d[p] = NoNode /\ SameBeside(d, pwd, p)
      BY <1>2, <2>3
    <3> QED  BY <3>1, DirGained
  <2> QED  BY <2>1, <2>2, <2>4
<1>4. ASSUME NEW n \in Node
      PROVE  /\ DirRef(p)[n] + Fixed(n) <= ref[n] /\ Zero[n] <= opens[n]
             /\ opens[n] - Zero[n] <= ref[n] - DirRef(p)[n]
  <2>1. PICK d : d = [pwd EXCEPT ![p] = NoNode]
    OBVIOUS
  <2>2. Cardinality(DirIn(pwd, n)) = Cardinality(DirIn(d, n)) + DirRef(p)[n]
    BY <1>3, <2>1
  <2>3. Cardinality(DirIn(d, n)) \in Nat /\ DirRef(p)[n] \in Nat /\ Zero[n] = 0
    BY <1>1, DirFinite DEF Zero
  <2> QED  BY <2>2, <2>3, RefParts
<1> QED  BY <1>1, <1>3, <1>4 DEF Counted

LEMMA LeaveDirStep ==
  ASSUME Inv, NEW p \in Proc, p \in alive, panic = "none", LeaveDir(p)
  PROVE  Inv'
<1>1. DirRef(p) \in [Node -> Nat] /\ Zero \in [Node -> Nat] /\ Counted(DirRef(p), Zero)
  BY DirCounted, CountTypes
<1>2. /\ GiveFailure(DirRef(p), Zero) \in {"none", "limit"}
      /\ GiveFailure(DirRef(p), Zero) = "limit" => NoRoom
  BY <1>1, GiveFails
<1>3. CASE GiveFailure(DirRef(p), Zero) = "none"
  <2>1. /\ pwd' = [pwd EXCEPT ![p] = NoNode]
        /\ Give(DirRef(p), Zero)
        /\ Continue("exit", p, 0)
        /\ UNCHANGED <<alive, table, leaked>> /\ panic' = panic
    BY <1>3 DEF LeaveDir, Unless
  <2>2. /\ \A n \in Node : ref'[n] = ref[n] - DirRef(p)[n] /\ opens'[n] = opens[n] - Zero[n]
        /\ ref' \in [Node -> Int] /\ opens' \in [Node -> Int]
        /\ cached' \subseteq Node \ Device
        /\ CachedExact'
    BY <1>1, <2>1, GiveTakes
  <2>3. ASSUME NEW n \in Node
        PROVE  /\ opens'[n] = Cardinality(OpenIn(table', n))
               /\ ref'[n] = Cardinality(OpenIn(table', n)) + Cardinality(DirIn(pwd', n))
                              + Fixed(n) + leaked'[n]
    <3>1. Cardinality(DirIn(pwd, n)) = Cardinality(DirIn(pwd', n)) + DirRef(p)[n]
      BY <2>1, DirCounted
    <3>2. DirRef(p)[n] \in Nat /\ Zero[n] = 0 /\ Cardinality(DirIn(pwd', n)) \in Nat
      BY <1>1, DirFinite DEF Zero
    <3>3. table' = table /\ leaked'[n] = leaked[n]
      BY <2>1
    <3> QED  BY <2>2, <3>1, <3>2, <3>3, RefParts
  <2>4. RefExact'
    BY <2>3, RefExactNext
  <2>5. p \in Process /\ pwd \in [Process -> Node \cup {NoNode}] /\ pwd'[p] = NoNode
    BY <2>1 DEF Process, Inv, TypeOK
  <2>6. call' \in Call /\ CallExact'
    BY <2>1, <2>5, CallOn
  <2>7. TypeOK' /\ AssertsHold' /\ Unused'
    BY <2>1, <2>2, <2>5, <2>6 DEF Inv, TypeOK, AssertsHold, Unused, Call
  <2> QED  BY <2>2, <2>4, <2>6, <2>7 DEF Inv
<1>4. CASE GiveFailure(DirRef(p), Zero) = "limit"
  <2>1. Panic("limit")
    BY <1>4 DEF LeaveDir, Unless
  <2> QED  BY <2>1, <1>2, <1>4, PanicStep
<1> QED  BY <1>2, <1>3, <1>4

\* The end of an exit leaves nothing behind.
LEMMA ExitEndStep ==
  ASSUME Inv, NEW p \in Proc, ExitEnd(p)
  PROVE  Inv'
<1>1. /\ call.op = "exit" /\ call.proc = p /\ OpenFds(p) = {}
      /\ alive' = alive \ {p} /\ call' = Idle
      /\ UNCHANGED <<table, pwd, ref, opens, cached, leaked, panic>> /\ panic = "none"
  BY DEF ExitEnd, Calling, counts
<1>2. pwd[p] = NoNode
  BY <1>1 DEF Inv, CallExact
<1>3. table[p] = Empty
  <2>1. p \in Process /\ table[p] \in Row
    BY DEF Inv, TypeOK, Process, Row
  <2> QED  BY <1>1, <2>1 DEF OpenFds, Empty, Row
<1>4. p # initproc
  BY FilesAssumption
<1>5. TypeOK' /\ AssertsHold' /\ Unused'
  BY <1>1, <1>2, <1>3, <1>4, CallDone DEF Inv, TypeOK, AssertsHold, Unused, Call
<1>6. RefExact' /\ CachedExact' /\ CallExact'
  BY <1>1, CallDone DEF Inv, RefExact, CachedExact, OpenOn, DirOf, Fixed
<1> QED  BY <1>5, <1>6 DEF Inv

LEMMA ForkStep ==
  ASSUME Inv, NEW p \in alive, NEW c \in Proc, Fork(p, c)
  PROVE  Inv'
<1> DEFINE o == PerFd(table[p])
           r == WithDir(o, pwd[p])
<1>1. /\ p \in Process /\ c \in Process /\ c \notin alive
      /\ table \in [Process -> Row] /\ table[p] \in Row
      /\ pwd \in [Process -> Node \cup {NoNode}]
  BY DEF Inv, TypeOK, Process, Row, Fork
<1>2. /\ table' = [table EXCEPT ![c] = table[p]] /\ pwd' = [pwd EXCEPT ![c] = pwd[p]]
      /\ alive' = alive \cup {c} /\ leaked' = leaked /\ panic' = panic
      /\ call' = Idle /\ panic = "none"
      /\ Take(r, o)
  BY DEF Fork, DupRefs, DupOpens
<1>3. o \in [Node -> Nat] /\ r \in [Node -> Nat]
  BY CountTypes
<1>4. table[c] = Empty /\ pwd[c] = NoNode
  BY <1>1 DEF Inv, Unused
<1>5. ASSUME NEW n \in Node
      PROVE  /\ r[n] = o[n] + (IF n = pwd[p] THEN 1 ELSE 0)
             /\ Cardinality(OpenIn(table', n)) = Cardinality(OpenIn(table, n)) + o[n]
             /\ Cardinality(DirIn(pwd', n)) = Cardinality(DirIn(pwd, n)) + (IF n = pwd[p] THEN 1 ELSE 0)
  <2>1. r[n] = o[n] + (IF n = pwd[p] THEN 1 ELSE 0)
    BY <1>3 DEF WithDir
  <2>2. o[n] = Cardinality(Fds(table[p], n))
    BY DEF PerFd
  <2>3. Cardinality(OpenIn(table', n)) =
          Cardinality(OpenIn(table, n)) - Cardinality(Fds(Empty, n)) + Cardinality(Fds(table[p], n))
    <3>1. table'[c] = table[p] /\ SameBeside(table, table', c)
      BY <1>1, <1>2 DEF SameBeside
    <3> QED  BY <3>1, <1>1, <1>4, RowChange
  <2>4. Cardinality(OpenIn(table', n)) = Cardinality(OpenIn(table, n)) + o[n]
    BY <2>2, <2>3, EmptyHoldsNone, Finite
  <2>5. Cardinality(DirIn(pwd', n)) = Cardinality(DirIn(pwd, n)) + (IF n = pwd[p] THEN 1 ELSE 0)
    <3>1. pwd'[c] = pwd[p] /\ SameBeside(pwd, pwd', c)
      BY <1>1, <1>2 DEF SameBeside
    <3> QED  BY <3>1, <1>1, <1>4, DirGained
  <2> QED  BY <2>1, <2>4, <2>5
<1> HIDE DEF o, r
<1>6. /\ \A n \in Node : ref'[n] = ref[n] + r[n] /\ opens'[n] = opens[n] + o[n]
      /\ ref' \in [Node -> Int] /\ opens' \in [Node -> Int]
      /\ cached' \subseteq Node \ Device
      /\ CachedExact'
  BY <1>2, <1>3, TakeAdds
<1>7. RefExact'
  <2>1. ASSUME NEW n \in Node
        PROVE  /\ opens'[n] = Cardinality(OpenIn(table', n))
               /\ ref'[n] = Cardinality(OpenIn(table', n)) + Cardinality(DirIn(pwd', n))
                              + Fixed(n) + leaked'[n]
    <3>1. leaked'[n] = leaked[n]
      BY <1>2
    <3>2. /\ opens[n] = Cardinality(OpenIn(table, n))
          /\ ref[n] = Cardinality(OpenIn(table, n)) + Cardinality(DirIn(pwd, n)) + Fixed(n) + leaked[n]
          /\ Cardinality(OpenIn(table, n)) \in Nat /\ Cardinality(DirIn(pwd, n)) \in Nat
          /\ Fixed(n) \in Nat /\ leaked[n] \in Nat
      BY RefParts
    <3>3. ref'[n] = ref[n] + r[n] /\ opens'[n] = opens[n] + o[n]
      BY <1>6
    <3>4. o[n] \in Nat
      BY <1>3
    <3>5. /\ r[n] = o[n] + (IF n = pwd[p] THEN 1 ELSE 0)
          /\ Cardinality(OpenIn(table', n)) = Cardinality(OpenIn(table, n)) + o[n]
          /\ Cardinality(DirIn(pwd', n)) = Cardinality(DirIn(pwd, n)) + (IF n = pwd[p] THEN 1 ELSE 0)
      BY <1>5
    <3> QED  BY ONLY <3>1, <3>2, <3>3, <3>4, <3>5
  <2> QED  BY <2>1, RefExactNext
<1>8. TypeOK' /\ AssertsHold' /\ Unused' /\ CallExact'
  <2>1. call' \in Call /\ CallExact'
    BY <1>2, CallDone
  <2> QED  BY <1>1, <1>2, <1>6, <2>1 DEF Inv, TypeOK, AssertsHold, Unused, Row, Call
<1> QED  BY <1>6, <1>7, <1>8 DEF Inv

\* A call that is running is of a live user process.
LEMMA OfUser ==
  ASSUME Inv, NEW p, NEW op \in {"exec", "load", "exit"}, Calling(p, op)
  PROVE  p \in alive /\ p # initproc /\ panic = "none"
BY DEF Calling, Idle, Inv, CallExact

LEMMA NextInv == Inv /\ [Next]_vars => Inv'
<1> SUFFICES ASSUME Inv, [Next]_vars PROVE Inv'
  OBVIOUS
<1>1. CASE UNCHANGED vars
  <2>1. UNCHANGED <<alive, table, pwd, ref, opens, cached, leaked, call, panic>>
    BY <1>1 DEF vars, counts
  <2>2. TypeOK' /\ Unused' /\ CallExact' /\ CachedExact'
    BY <2>1 DEF Inv, TypeOK, Unused, CallExact, CachedExact
  <2>3. RefExact' /\ AssertsHold'
    BY <2>1 DEF Inv, RefExact, AssertsHold, OpenOn, DirOf, Fixed
  <2> QED  BY <2>2, <2>3 DEF Inv
<1>2. ASSUME NEW p \in alive, NEW c \in Proc, Fork(p, c) PROVE Inv'
  BY <1>2, ForkStep
<1>3. ASSUME NEW p \in Proc, NEW n \in Node, NEW flags, Open(p, n, flags) PROVE Inv'
  <2>1. PICK fd \in FreeFd(p) : OpenFd(p, fd, n)
    BY <1>3 DEF Open
  <2>2. fd \in Fd /\ table[p][fd] = NoNode /\ alive' = alive /\ pwd' = pwd
    BY <2>1 DEF FreeFd, OpenFd
  <2>3. p \in alive /\ panic = "none" /\ panic' = panic /\ call' = call
    BY <1>3 DEF Open, Opening, Running
  <2> QED  BY <2>1, <2>2, <2>3, CallSame, OpenFdStep
<1>4. ASSUME NEW p \in Proc, NEW n \in Node, NEW flags, OpenExists(p, n, flags) PROVE Inv'
  BY <1>4, OpenExistsStep
<1>5. ASSUME NEW p \in Proc, NEW n \in Node \cup {NoNode}, NEW flags, OpenPanic(p, n, flags)
      PROVE  Inv'
  BY <1>5, OpenFails, PanicStep DEF OpenPanic
<1>6. ASSUME NEW p \in Proc, NEW fd \in Fd, Close(p, fd) PROVE Inv'
  <2>1. fd \in OpenFds(p) /\ p \in alive /\ panic = "none"
    BY <1>6 DEF Close, Running
  <2>2. CloseFailure(p, fd) = "none" => CloseFd(p, fd) /\ panic' = panic /\ call' = call
    BY <1>6 DEF Close, Unless
  <2>3. CloseFailure(p, fd) # "none" => Panic(CloseFailure(p, fd))
    BY <1>6 DEF Close, Unless
  <2>4. CloseFd(p, fd) /\ call' = call => call' \in Call /\ CallExact'
    BY CallSame DEF CloseFd
  <2> QED  BY <2>1, <2>2, <2>3, <2>4, CloseStep
<1>7. ASSUME NEW p \in Proc, NEW fd \in Fd, NEW to \in Fd, Dup(p, fd, to) PROVE Inv'
  BY <1>7, DupStep
<1>8. ASSUME NEW p \in Proc, NEW fd \in Fd, CallPanic(p, fd) PROVE Inv'
  <2>1. table[p][fd] \in Node
    BY <1>8, FdCounted DEF CallPanic
  <2>2. PICK op : CallFailure(table[p][fd], op) # "none" /\ Panic(CallFailure(table[p][fd], op))
    BY <1>8 DEF CallPanic
  <2> QED  BY <2>1, <2>2, CallFails, PanicStep
<1>9. ASSUME NEW p \in Proc, GetcwdPanic(p) PROVE Inv'
  <2>1. PICK d : d = pwd[p]
    OBVIOUS
  <2>2. Failure({<<ref[d] + 1, opens[d]>>}) # "none" /\ Panic(Failure({<<ref[d] + 1, opens[d]>>}))
    BY <1>9, <2>1 DEF GetcwdPanic
  <2>3. d # NoNode /\ p \in Process /\ pwd \in [Process -> Node \cup {NoNode}]
    BY <1>9, <2>1 DEF GetcwdPanic, Process, Inv, TypeOK
  <2>4. d \in Node
    BY <2>1, <2>3
  <2>5. Seen(<<ref[d] + 1, opens[d]>>)
    BY <2>4, CountsOf, SeenPair
  <2>6. PICK s : s = {<<ref[d] + 1, opens[d]>>}
    OBVIOUS
  <2>7. Failure(s) \in {"none", "limit"} /\ (Failure(s) = "limit" => NoRoom)
    BY <2>5, <2>6, CheckedCounts
  <2>8. Failure(s) # "none" /\ Panic(Failure(s))
    BY <2>2, <2>6
  <2> QED  BY <2>7, <2>8, PanicStep
<1>10. ASSUME NEW p \in Proc, Exec(p) PROVE Inv'
  <2>1. /\ p \in alive /\ panic = "none" /\ Continue("exec", p, 0)
        /\ UNCHANGED <<alive, table, pwd, ref, opens, cached, leaked, panic>>
    BY <1>10 DEF Exec, Running, counts
  <2>2. call' \in Call /\ CallExact'
    BY <2>1, CallOn
  <2>3. TypeOK' /\ AssertsHold'
    BY <2>1, <2>2 DEF Inv, TypeOK, AssertsHold, Call
  <2>4. Unused' /\ RefExact' /\ CachedExact'
    BY <2>1, CountsKept
  <2> QED  BY <2>2, <2>3, <2>4 DEF Inv
<1>11. ASSUME NEW p \in Proc, ExecClose(p) PROVE Inv'
  <2>1. p \in alive /\ panic = "none" /\ CloseFirst(p, ToClose(p))
    BY <1>11, OfUser DEF ExecClose
  <2>2. ToClose(p) \in SUBSET OpenFds(p)
    BY DEF ToClose
  <2> QED  BY <2>1, <2>2, CloseFirstStep
<1>12. ASSUME NEW p \in Proc, NEW n \in Node, ExecOpen(p, n) PROVE Inv'
  <2>1. PICK fd \in FreeFd(p) :
          Unless(OpenFailure(n, {}), OpenFd(p, fd, n) /\ Continue("load", p, fd))
    BY <1>12 DEF ExecOpen
  <2>2. p \in alive /\ panic = "none"
    BY <1>12, OfUser DEF ExecOpen
  <2>3. fd \in Fd /\ fd \in Nat /\ table[p][fd] = NoNode
    BY FilesAssumption DEF FreeFd
  <2>4. CASE OpenFailure(n, {}) = "none"
    <3>1. OpenFd(p, fd, n) /\ Continue("load", p, fd) /\ panic' = panic
      BY <2>1, <2>4 DEF Unless
    <3>2. call' \in Call /\ CallExact'
      BY <2>2, <2>3, <3>1, CallOn DEF OpenFd
    <3> QED  BY <2>2, <2>3, <3>1, <3>2, OpenFdStep
  <2>5. CASE OpenFailure(n, {}) # "none"
    <3>1. Panic(OpenFailure(n, {}))
      BY <2>1, <2>5 DEF Unless
    <3> QED  BY <2>5, <3>1, OpenFails, PanicStep
  <2> QED  BY <2>4, <2>5
<1>13. ASSUME NEW p \in Proc, Load(p) PROVE Inv'
  <2>1. PICK fd : fd = call.fd
    OBVIOUS
  <2>2. p \in alive /\ panic = "none" /\ fd \in Fd /\ table[p][fd] \in File
    BY <1>13, <2>1, OfUser DEF Load, Calling, Inv, CallExact
  <2>3. fd \in OpenFds(p)
    BY <2>2, FilesAssumption DEF OpenFds, Node
  <2>4. CloseFailure(p, fd) = "none" => CloseFd(p, fd) /\ panic' = panic /\ call' = Idle
    BY <1>13, <2>1 DEF Load, Unless
  <2>5. CloseFailure(p, fd) # "none" => Panic(CloseFailure(p, fd))
    BY <1>13, <2>1 DEF Load, Unless
  <2> QED  BY <2>2, <2>3, <2>4, <2>5, CallDone, CloseStep
<1>14. ASSUME NEW p \in Proc, LoadPanic(p) PROVE Inv'
  BY <1>14, PanicStep DEF LoadPanic
<1>15. ASSUME NEW p \in Proc, ExecFails(p) PROVE Inv'
  BY <1>15, OfUser, LeaveDirStep DEF ExecFails
<1>16. ASSUME NEW p \in Proc, Exit(p) PROVE Inv'
  BY <1>16, LeaveDirStep DEF Exit, Running
<1>17. ASSUME NEW p \in Proc, ExitClose(p) PROVE Inv'
  <2>1. p \in alive /\ panic = "none" /\ CloseFirst(p, OpenFds(p))
    BY <1>17, OfUser DEF ExitClose
  <2> QED  BY <2>1, CloseFirstStep
<1>18. ASSUME NEW p \in Proc, ExitEnd(p) PROVE Inv'
  BY <1>18, ExitEndStep
<1> QED  BY <1>1, <1>2, <1>3, <1>4, <1>5, <1>6, <1>7, <1>8, <1>9, <1>10, <1>11, <1>12, <1>13,
            <1>14, <1>15, <1>16, <1>17, <1>18 DEF Next

-----------------------------------------------------------------------------
(* The theorems. *)

\* For any number of processes, descriptors and inodes, every order of open,
\* close, dup, fork, exec and exit keeps the invariant.
THEOREM Invariance == Spec => []Inv
BY InitInv, NextInv, PTL DEF Spec

\* ref_count and open_count of every inode are exact: what the descriptors,
\* the directories, the boot file system, the device list and the lost
\* references of O_EXCL add up to.
THEOREM CountsExact == Spec => []RefExact
<1>1. Inv => RefExact
  BY DEF Inv
<1> QED  BY <1>1, Invariance, PTL

\* The inodes of sfs in memory are those in use, and no others.
THEOREM CacheExact == Spec => []InMemory
<1>1. ASSUME Inv, NEW n \in Node \ Device
      PROVE  n \in cached <=> OpenOn(n) # {} \/ DirOf(n) # {} \/ n = root \/ leaked[n] > 0
  <2>1. OpenOn(n) = OpenIn(table, n) /\ DirOf(n) = DirIn(pwd, n)
    BY DEF OpenOn, OpenIn, DirOf, DirIn
  <2>2. /\ Cardinality(OpenIn(table, n)) = 0 <=> OpenOn(n) = {}
        /\ Cardinality(DirIn(pwd, n)) = 0 <=> DirOf(n) = {}
    BY <2>1, Finite, DirFinite, FS_EmptySet
  <2>3. Fixed(n) = IF n = root THEN 1 ELSE 0
    BY <1>1 DEF Fixed
  <2>4. n \in cached <=> ref[n] > 0
    BY <1>1 DEF Inv, CachedExact
  <2>5. /\ ref[n] = Cardinality(OpenIn(table, n)) + Cardinality(DirIn(pwd, n)) + Fixed(n) + leaked[n]
        /\ Cardinality(OpenIn(table, n)) \in Nat /\ Cardinality(DirIn(pwd, n)) \in Nat
        /\ leaked[n] \in Nat
    BY <1>1, RefParts
  <2> QED  BY ONLY <2>2, <2>3, <2>4, <2>5
<1>2. Inv => InMemory
  BY <1>1 DEF InMemory
<1> QED  BY <1>2, Invariance, PTL

\* Whatever the calls do, an exec or an exit that fails half way included, no
\* assertion about the counts of an inode fails but inode_check's limit, and
\* that only when so many hold the inode.
THEOREM CountAssertsHold == Spec => []AssertsHold
<1>1. Inv => AssertsHold
  BY DEF Inv
<1> QED  BY <1>1, Invariance, PTL

=============================================================================
