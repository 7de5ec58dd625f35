----------------------------- MODULE SfsProofs -----------------------------
(***************************************************************************)
(* The blocks of the simple file system, proved for any disk, any files    *)
(* and descriptors, and any sizes of inodes and blocks.                    *)
(***************************************************************************)
EXTENDS Sfs, FiniteSetTheorems, TLAPS

Calls == [name : {"read", "write", "seek", "open"}, d : Desc,
          from : Nat, at : Nat, to : Nat]

\* The running call has an open file, and a target within the bounds.
CallOK ==
  \/ call = Idle
  \/ /\ call \in Calls
     /\ desc[call.d].file \in File
     /\ call.to <= MaxFileSize
     /\ call.name = "seek" => call.to > din[The].size
     /\ call.name = "open" => call.to = 0
     /\ call.name \in {"read", "write"} => call.at <= call.to

SizesOK == \A f \in File : din[f].size <= MaxFileSize

\* The blocks of a file are there up to the last.  What is behind it can be a
\* block too: the entries are written through, but din->blocks is not.
NoHole == \A f \in File : \A i \in 0..din[f].blocks - 1 : BlockOf(f, i) # NoBlock

BlocksInRange == \A f \in File : din[f].blocks <= NDirect + NEntry

\* An inode that is not dirty is on disk, but for a count that may be behind.
DiskOK ==
  \A f \in File :
    ~dirty[f] =>
      /\ diskDin[f].size = din[f].size
      /\ diskDin[f].direct = din[f].direct
      /\ diskDin[f].indirect = din[f].indirect
      /\ diskDin[f].blocks <= din[f].blocks

\* The free map on disk is the one in memory unless super_dirty says otherwise.
FreeMapOnDisk ==
  /\ ~superDirty => diskFree = freemap
  /\ mode = "down" => call = Idle /\ ~superDirty

\* What the map of the blocks needs: the part about din, freemap and entry.
MapTypes ==
  /\ din \in [File -> Inode]
  /\ freemap \subseteq Block
  /\ entry \in [Block -> [0..NEntry - 1 -> Pointer]]

MapOK ==
  /\ MapTypes
  /\ FreeMapExact
  /\ NoSharedBlock
  /\ NoHole
  /\ BlocksInRange

(***************************************************************************)
(* The inductive invariant.                                                *)
(***************************************************************************)
Inv ==
  /\ TypeOK
  /\ CallOK
  /\ SizesOK
  /\ MapOK
  /\ DiskOK
  /\ FreeMapOnDisk

-----------------------------------------------------------------------------
(* The map from places to blocks. *)

LEMMA Constants ==
  /\ NDirect \in Nat \ {0} /\ NEntry \in Nat \ {0} /\ BlkSize \in Nat \ {0}
  /\ MaxFileSize \in Nat \ {0} /\ Len \subseteq Nat \ {0}
  /\ NoBlock = 0 /\ NoBlock \notin Block /\ Block \subseteq Nat
BY SfsAssumption DEF NoBlock

\* Every place holds a block or nothing.
LEMMA HeldType ==
  ASSUME MapTypes, NEW f \in File
  PROVE  /\ din[f].indirect \in Pointer /\ din[f].blocks \in Nat /\ din[f].size \in Nat
         /\ din[f].direct \in [0..NDirect - 1 -> Pointer]
         /\ \A i \in 0..NDirect + NEntry - 1 : BlockOf(f, i) \in Pointer
         /\ \A p \in Places : Held(f, p) \in Pointer
<1>1. /\ din[f].indirect \in Pointer /\ din[f].blocks \in Nat /\ din[f].size \in Nat
      /\ din[f].direct \in [0..NDirect - 1 -> Pointer]
  BY DEF MapTypes, Inode
<1>2. ASSUME NEW i \in 0..NDirect + NEntry - 1
      PROVE  BlockOf(f, i) \in Pointer
  <2>1. CASE i < NDirect
    <3>1. i \in 0..NDirect - 1
      BY <2>1, Constants
    <3> QED  BY <3>1, <2>1, <1>1 DEF BlockOf
  <2>2. CASE ~(i < NDirect) /\ din[f].indirect = NoBlock
    BY <2>2 DEF BlockOf, Pointer
  <2>3. CASE ~(i < NDirect) /\ din[f].indirect # NoBlock
    <3>1. din[f].indirect \in Block
      BY <2>3, <1>1 DEF Pointer
    <3>2. i - NDirect \in 0..NEntry - 1
      BY <2>3, Constants
    <3> QED  BY <3>1, <3>2, <2>3 DEF BlockOf, MapTypes
  <2> QED  BY <2>1, <2>2, <2>3
<1>3. ASSUME NEW p \in Places
      PROVE  Held(f, p) \in Pointer
  <2>1. p = IndirectPlace \/ p \in 0..NDirect + NEntry - 1
    BY Constants DEF Places, IndirectPlace
  <2> QED  BY <2>1, <1>1, <1>2 DEF Held
<1> QED  BY <1>1, <1>2, <1>3

\* A block is free when no place holds it.
LEMMA FreeMeansUnheld ==
  ASSUME MapTypes
  PROVE  FreeMapExact <=>
           \A x \in Block : x \in freemap <=> \A f \in File, p \in Places : Held(f, p) # x
BY DEF FreeMapExact, MapTypes

\* The step makes x the holding of place p of f, and y that of place q.
Holding(f, p, x, q, y) ==
  \A g \in File, r \in Places :
    Held(g, r)' = IF g = f /\ r = p THEN x ELSE IF g = f /\ r = q THEN y ELSE Held(g, r)

\* Two places that are empty or filled already get a free block each.
LEMMA PlacesTaken ==
  ASSUME MapOK, MapTypes', NEW f \in File, NEW p \in Places, NEW q \in Places, p # q,
         NEW e \in Block, NEW b \in Block, e # b,
         Held(f, p) = e \/ (Held(f, p) = NoBlock /\ e \in freemap),
         Held(f, q) = b \/ (Held(f, q) = NoBlock /\ b \in freemap),
         Holding(f, p, e, q, b), freemap' = freemap \ {e, b}
  PROVE  FreeMapExact' /\ NoSharedBlock'
<1>1. \A x \in Block : x \in freemap <=> \A g \in File, r \in Places : Held(g, r) # x
  BY FreeMeansUnheld DEF MapOK
<1>2. NoBlock \notin Block
  BY Constants
<1>3. /\ \A g \in File, r \in Places : Held(g, r) = e => g = f /\ r = p
      /\ \A g \in File, r \in Places : Held(g, r) = b => g = f /\ r = q
  BY <1>1, <1>2 DEF MapOK, NoSharedBlock
<1>4. ASSUME NEW x \in Block
      PROVE  x \in freemap' <=> \A g \in File, r \in Places : Held(g, r)' # x
  <2>1. CASE x = e \/ x = b
    BY <2>1 DEF Holding
  <2>2. CASE x # e /\ x # b
    <3>1. Held(f, p) # x /\ Held(f, q) # x
      BY <2>2, <1>2
    <3>2. \A g \in File, r \in Places : Held(g, r)' # x <=> Held(g, r) # x
      BY <3>1, <2>2 DEF Holding
    <3> QED  BY <3>2, <2>2, <1>1
  <2> QED  BY <2>1, <2>2
<1>5. FreeMapExact'
  <2>1. MapTypes' /\ freemap' \subseteq Block
    BY DEF MapTypes
  <2> QED  BY <2>1, <1>4 DEF FreeMapExact
<1>6. NoSharedBlock'
  <2>1. ASSUME NEW g \in File, NEW h \in File, NEW r \in Places, NEW s \in Places,
               Held(g, r)' = Held(h, s)', Held(g, r)' # NoBlock
        PROVE  g = h /\ r = s
    <3>1. CASE ~(g = f /\ (r = p \/ r = q)) /\ ~(h = f /\ (s = p \/ s = q))
      BY <3>1, <2>1 DEF Holding, MapOK, NoSharedBlock
    <3>2. CASE g = f /\ (r = p \/ r = q)
      BY <3>2, <2>1, <1>3 DEF Holding
    <3>3. CASE h = f /\ (s = p \/ s = q)
      BY <3>3, <2>1, <1>3 DEF Holding
    <3> QED  BY <3>1, <3>2, <3>3
  <2> QED  BY <2>1 DEF NoSharedBlock
<1> QED  BY <1>5, <1>6

\* One place that is empty or filled already gets a free block.
LEMMA PlaceTaken ==
  ASSUME MapOK, MapTypes', NEW f \in File, NEW p \in Places, NEW b \in Block,
         Held(f, p) = b \/ (Held(f, p) = NoBlock /\ b \in freemap),
         Holding(f, p, b, p, b), freemap' = freemap \ {b}
  PROVE  FreeMapExact' /\ NoSharedBlock'
<1>1. \A x \in Block : x \in freemap <=> \A g \in File, r \in Places : Held(g, r) # x
  BY FreeMeansUnheld DEF MapOK
<1>2. NoBlock \notin Block
  BY Constants
<1>3. \A g \in File, r \in Places : Held(g, r) = b => g = f /\ r = p
  BY <1>1, <1>2 DEF MapOK, NoSharedBlock
<1>4. ASSUME NEW x \in Block
      PROVE  x \in freemap' <=> \A g \in File, r \in Places : Held(g, r)' # x
  <2>1. CASE x = b
    BY <2>1 DEF Holding
  <2>2. CASE x # b
    <3>1. Held(f, p) # x
      BY <2>2, <1>2
    <3>2. \A g \in File, r \in Places : Held(g, r)' # x <=> Held(g, r) # x
      BY <3>1, <2>2 DEF Holding
    <3> QED  BY <3>2, <2>2, <1>1
  <2> QED  BY <2>1, <2>2
<1>5. FreeMapExact'
  <2>1. MapTypes' /\ freemap' \subseteq Block
    BY DEF MapTypes
  <2> QED  BY <2>1, <1>4 DEF FreeMapExact
<1>6. NoSharedBlock'
  <2>1. ASSUME NEW g \in File, NEW h \in File, NEW r \in Places, NEW s \in Places,
               Held(g, r)' = Held(h, s)', Held(g, r)' # NoBlock
        PROVE  g = h /\ r = s
    BY <2>1, <1>3 DEF Holding, MapOK, NoSharedBlock
  <2> QED  BY <2>1 DEF NoSharedBlock
<1> QED  BY <1>5, <1>6

\* One place gives its block back.
LEMMA PlaceFreed ==
  ASSUME MapOK, MapTypes', NEW f \in File, NEW p \in Places, Held(f, p) \in Block,
         Holding(f, p, NoBlock, p, NoBlock), freemap' = freemap \cup {Held(f, p)}
  PROVE  FreeMapExact' /\ NoSharedBlock'
<1>1. \A x \in Block : x \in freemap <=> \A g \in File, r \in Places : Held(g, r) # x
  BY FreeMeansUnheld DEF MapOK
<1>2. NoBlock \notin Block
  BY Constants
<1>3. ASSUME NEW x \in Block
      PROVE  x \in freemap' <=> \A g \in File, r \in Places : Held(g, r)' # x
  <2>1. CASE x = Held(f, p)
    BY <2>1, <1>2 DEF Holding, MapOK, NoSharedBlock
  <2>2. CASE x # Held(f, p)
    BY <2>2, <1>1, <1>2 DEF Holding
  <2> QED  BY <2>1, <2>2
<1>4. FreeMapExact'
  <2>1. MapTypes' /\ freemap' \subseteq Block
    BY DEF MapTypes
  <2> QED  BY <2>1, <1>3 DEF FreeMapExact
<1>5. NoSharedBlock'
  BY DEF Holding, MapOK, NoSharedBlock
<1> QED  BY <1>4, <1>5

-----------------------------------------------------------------------------
(* The steps on the map. *)

\* The i-th place of f, for a block that f has or can get.
LEMMA BlockPlace ==
  ASSUME NEW i \in Nat, InRange(i)
  PROVE  /\ i \in Places /\ i # IndirectPlace /\ IndirectPlace \in Places
         /\ \A f : Held(f, i) = BlockOf(f, i)
         /\ \A f : Held(f, IndirectPlace) = din[f].indirect
BY Constants DEF InRange, Places, IndirectPlace, Held

\* The step makes b the block behind the last of f, and changes no other.
Filled(f, b) ==
  \A g \in File, j \in 0..NDirect + NEntry - 1 :
    BlockOf(g, j)' = IF g = f /\ j = din[f].blocks THEN b ELSE BlockOf(g, j)

\* Then every file has its blocks without a hole, as before.
LEMMA LastFilled ==
  ASSUME MapOK, NEW f \in File, NEW b \in Block, InRange(din[f].blocks), Filled(f, b),
         \A g \in File : g # f => din'[g] = din[g],
         din'[f].blocks = din[f].blocks + 1
  PROVE  NoHole' /\ BlocksInRange'
<1>1. ASSUME NEW g \in File
      PROVE  /\ din'[g].blocks <= NDirect + NEntry
             /\ \A j \in 0..din'[g].blocks - 1 : BlockOf(g, j)' # NoBlock
  <2>1. din[g].blocks \in Nat /\ din[g].blocks <= NDirect + NEntry
    BY HeldType DEF MapOK, BlocksInRange
  <2>2. \A j \in 0..din[g].blocks - 1 : j \in 0..NDirect + NEntry - 1 /\ BlockOf(g, j) # NoBlock
    BY <2>1, Constants DEF MapOK, NoHole
  <2>3. b # NoBlock
    BY Constants
  <2>4. CASE g # f
    BY <2>1, <2>2, <2>3, <2>4 DEF Filled
  <2>5. CASE g = f
    <3> DEFINE i == din[f].blocks
    <3>1. i \in Nat /\ i + 1 <= NDirect + NEntry /\ (i + 1) - 1 = i
      BY <2>1, <2>5, Constants DEF InRange
    <3>2. \A j \in 0..i : j \in 0..NDirect + NEntry - 1 /\ (j = i \/ j \in 0..i - 1)
      BY <3>1, Constants
    <3>3. \A j \in 0..i : BlockOf(f, j)' # NoBlock
      BY <2>2, <2>3, <2>5, <3>2 DEF Filled
    <3> QED  BY <2>5, <3>1, <3>3
  <2> QED  BY <2>4, <2>5
<1> QED  BY <1>1 DEF NoHole, BlocksInRange

\* sfs_bmap_load_nolock, direct: one place is taken.
LEMMA AppendDirectKeeps ==
  ASSUME MapOK, NEW f \in File, AppendDirect(f, din[f].blocks), InRange(din[f].blocks)
  PROVE  MapOK' /\ \A g \in File : din'[g].size = din[g].size
<1> DEFINE i == din[f].blocks
<1>1. MapTypes /\ i \in Nat /\ i < NDirect /\ i \in 0..NDirect - 1 /\ entry' = entry
  BY HeldType, Constants DEF MapOK, AppendDirect
<1>2. PICK b \in Found(f, i, freemap) :
        /\ din' = [din EXCEPT ![f].direct[i] = b, ![f].blocks = @ + 1]
        /\ freemap' = freemap \ {b}
  BY DEF AppendDirect
<1>3. b \in Block /\ (BlockOf(f, i) = b \/ (BlockOf(f, i) = NoBlock /\ b \in freemap))
  <2>1. BlockOf(f, i) \in Pointer
    BY <1>1, HeldType, Constants
  <2> QED  BY <2>1, <1>1 DEF Found, Least, Pointer, MapTypes
<1>4. /\ din' \in [File -> Inode]
      /\ \A g \in File : g # f => din'[g] = din[g]
      /\ din'[f].size = din[f].size /\ din'[f].indirect = din[f].indirect
      /\ din'[f].blocks = i + 1
      /\ din'[f].direct = [din[f].direct EXCEPT ![i] = b]
  BY <1>1, <1>2, <1>3 DEF MapTypes, Inode, Pointer
<1>5. MapTypes'
  BY <1>1, <1>2, <1>4 DEF MapTypes
<1>6. ASSUME NEW g \in File, NEW j \in 0..NDirect + NEntry - 1
      PROVE  BlockOf(g, j)' = IF g = f /\ j = i THEN b ELSE BlockOf(g, j)
  <2>1. CASE g # f
    BY <2>1, <1>1, <1>4 DEF BlockOf
  <2>2. CASE g = f /\ j < NDirect
    <3>1. j \in 0..NDirect - 1
      BY <2>2, Constants
    <3>2. din'[f].direct[j] = IF j = i THEN b ELSE din[f].direct[j]
      BY <3>1, <1>1, <1>4, HeldType
    <3> QED  BY <3>2, <2>2 DEF BlockOf
  <2>3. CASE g = f /\ ~(j < NDirect)
    BY <2>3, <1>1, <1>4 DEF BlockOf
  <2> QED  BY <2>1, <2>2, <2>3
<1>7. Holding(f, i, b, i, b)
  <2>1. ASSUME NEW g \in File, NEW r \in Places
        PROVE  Held(g, r)' = IF g = f /\ r = i THEN b ELSE Held(g, r)
    <3>1. CASE r = IndirectPlace
      <4>1. din'[g].indirect = din[g].indirect
        BY <1>4
      <4> QED  BY <3>1, <4>1, <1>1, BlockPlace DEF Held
    <3>2. CASE r # IndirectPlace
      <4>1. r \in 0..NDirect + NEntry - 1
        BY <3>2, Constants DEF Places, IndirectPlace
      <4> QED  BY <3>2, <4>1, <1>6 DEF Held
    <3> QED  BY <3>1, <3>2
  <2> QED  BY <2>1 DEF Holding
<1>8. FreeMapExact' /\ NoSharedBlock'
  <2>1. i \in Places /\ Held(f, i) = BlockOf(f, i)
    BY <1>1, BlockPlace
  <2>2. Held(f, i) = b \/ (Held(f, i) = NoBlock /\ b \in freemap)
    BY <2>1, <1>3
  <2> HIDE DEF i
  <2> QED  BY <2>1, <2>2, <1>2, <1>3, <1>5, <1>7, PlaceTaken
<1>9. NoHole' /\ BlocksInRange'
  <2>1. Filled(f, b)
    BY <1>6 DEF Filled
  <2> QED  BY <2>1, <1>3, <1>4, LastFilled
<1> QED  BY <1>4, <1>5, <1>8, <1>9 DEF MapOK

\* sfs_bmap_load_nolock, indirect: the place of the entries is taken, or was
\* before, and one place among them.
LEMMA AppendIndirectKeeps ==
  ASSUME MapOK, NEW f \in File, AppendIndirect(f, din[f].blocks), InRange(din[f].blocks)
  PROVE  MapOK' /\ \A g \in File : din'[g].size = din[g].size
<1> DEFINE i == din[f].blocks
<1>1. MapTypes /\ i \in Nat /\ ~(i < NDirect) /\ i - NDirect \in 0..NEntry - 1
  BY HeldType, Constants DEF MapOK, AppendIndirect, InRange
<1>2. PICK e \in EntryBlocks(f, i) : \E b \in Found(f, i, freemap \ {e}) :
        /\ din' = [din EXCEPT ![f].indirect = e, ![f].blocks = @ + 1]
        /\ entry' = [entry EXCEPT ![e] = [Entries(f) EXCEPT ![i - NDirect] = b]]
        /\ freemap' = freemap \ {e, b}
  BY DEF AppendIndirect
<1>3. PICK b \in Found(f, i, freemap \ {e}) :
        /\ din' = [din EXCEPT ![f].indirect = e, ![f].blocks = @ + 1]
        /\ entry' = [entry EXCEPT ![e] = [Entries(f) EXCEPT ![i - NDirect] = b]]
        /\ freemap' = freemap \ {e, b}
  BY <1>2
<1>4. /\ e \in Block
      /\ din[f].indirect = e \/ (din[f].indirect = NoBlock /\ e \in freemap)
  <2>1. din[f].indirect \in Pointer
    BY <1>1, HeldType
  <2>2. LacksEntryBlock(f, i) <=> din[f].indirect = NoBlock
    BY <1>1, Constants DEF LacksEntryBlock
  <2> QED  BY <2>1, <2>2, <1>1 DEF EntryBlocks, Least, Pointer, MapTypes
<1>5. /\ b \in Block
      /\ BlockOf(f, i) = b \/ (BlockOf(f, i) = NoBlock /\ b \in freemap \ {e})
  <2>1. BlockOf(f, i) \in Pointer
    BY <1>1, HeldType, Constants DEF InRange
  <2> QED  BY <2>1, <1>1 DEF Found, Least, Pointer, MapTypes
<1>6. /\ i \in Places /\ i # IndirectPlace /\ IndirectPlace \in Places
      /\ Held(f, i) = BlockOf(f, i)
      /\ \A g : Held(g, IndirectPlace) = din[g].indirect
  BY <1>1, BlockPlace
<1>7. \A x \in Block : x \in freemap <=> \A g \in File, r \in Places : Held(g, r) # x
  BY FreeMeansUnheld DEF MapOK
<1>8. /\ e # b
      /\ \A g \in File : din[g].indirect = e => g = f
  <2>1. NoBlock \notin Block
    BY Constants
  <2>2. CASE din[f].indirect = e
    BY <2>1, <2>2, <1>4, <1>5, <1>6, <1>7 DEF MapOK, NoSharedBlock
  <2>3. CASE din[f].indirect = NoBlock /\ e \in freemap
    BY <2>1, <2>3, <1>4, <1>5, <1>6, <1>7
  <2> QED  BY <2>2, <2>3, <1>4
<1>9. /\ din' \in [File -> Inode]
      /\ \A g \in File : g # f => din'[g] = din[g]
      /\ din'[f].size = din[f].size /\ din'[f].indirect = e
      /\ din'[f].blocks = i + 1
      /\ din'[f].direct = din[f].direct
  BY <1>1, <1>3, <1>4 DEF MapTypes, Inode, Pointer
<1>10. Entries(f) \in [0..NEntry - 1 -> Pointer]
  <2>1. din[f].indirect = NoBlock \/ din[f].indirect \in Block
    BY <1>4
  <2> QED  BY <2>1, <1>1 DEF Entries, Zeros, Pointer, MapTypes
<1>11. /\ entry' \in [Block -> [0..NEntry - 1 -> Pointer]]
       /\ \A c \in Block : c # e => entry'[c] = entry[c]
       /\ entry'[e] = [Entries(f) EXCEPT ![i - NDirect] = b]
  <2>1. [Entries(f) EXCEPT ![i - NDirect] = b] \in [0..NEntry - 1 -> Pointer]
    BY <1>5, <1>10 DEF Pointer
  <2>2. entry \in [Block -> [0..NEntry - 1 -> Pointer]]
    BY <1>1 DEF MapTypes
  <2> QED  BY <2>1, <2>2, <1>3, <1>4
<1>12. MapTypes'
  BY <1>1, <1>3, <1>9, <1>11 DEF MapTypes
<1>13. ASSUME NEW g \in File, NEW j \in 0..NDirect + NEntry - 1
       PROVE  BlockOf(g, j)' = IF g = f /\ j = i THEN b ELSE BlockOf(g, j)
  <2>1. din[g].indirect \in Pointer
    BY <1>1, HeldType
  <2>2. CASE g # f
    BY <2>1, <2>2, <1>8, <1>9, <1>11 DEF BlockOf, Pointer
  <2>3. CASE g = f /\ j < NDirect
    BY <2>3, <1>1, <1>9 DEF BlockOf
  <2>4. CASE g = f /\ ~(j < NDirect)
    <3>1. j - NDirect \in 0..NEntry - 1 /\ (j - NDirect = i - NDirect <=> j = i)
      BY <2>4, <1>1, Constants
    <3>2. entry'[e][j - NDirect] = IF j = i THEN b ELSE Entries(f)[j - NDirect]
      BY <3>1, <1>1, <1>10, <1>11
    <3>3. BlockOf(f, j)' = entry'[e][j - NDirect]
      BY <2>4, <1>4, <1>9, Constants DEF BlockOf
    <3>4. BlockOf(f, j) = Entries(f)[j - NDirect]
      BY <2>4, <3>1 DEF BlockOf, Entries, Zeros
    <3> QED  BY <2>4, <3>2, <3>3, <3>4
  <2> QED  BY <2>2, <2>3, <2>4
<1>14. Holding(f, IndirectPlace, e, i, b)
  <2>1. ASSUME NEW g \in File, NEW r \in Places
        PROVE  Held(g, r)' = IF g = f /\ r = IndirectPlace THEN e
                             ELSE IF g = f /\ r = i THEN b ELSE Held(g, r)
    <3>1. CASE r = IndirectPlace
      BY <3>1, <1>9 DEF Held
    <3>2. CASE r # IndirectPlace
      <4>1. r \in 0..NDirect + NEntry - 1
        BY <3>2, Constants DEF Places, IndirectPlace
      <4> QED  BY <3>2, <4>1, <1>13 DEF Held
    <3> QED  BY <3>1, <3>2
  <2> QED  BY <2>1 DEF Holding
<1>15. FreeMapExact' /\ NoSharedBlock'
  <2>1. Held(f, IndirectPlace) = e \/ (Held(f, IndirectPlace) = NoBlock /\ e \in freemap)
    BY <1>4, <1>6
  <2>2. Held(f, i) = b \/ (Held(f, i) = NoBlock /\ b \in freemap)
    BY <1>5, <1>6
  <2> HIDE DEF i
  <2> QED  BY <2>1, <2>2, <1>3, <1>4, <1>5, <1>6, <1>8, <1>12, <1>14, PlacesTaken
<1>16. NoHole' /\ BlocksInRange'
  <2>1. Filled(f, b)
    BY <1>13 DEF Filled
  <2> QED  BY <2>1, <1>5, <1>9, LastFilled
<1> QED  BY <1>9, <1>12, <1>15, <1>16 DEF MapOK

LEMMA AppendKeeps ==
  ASSUME MapOK, NEW f \in File, AppendBlock(f, din[f].blocks), InRange(din[f].blocks)
  PROVE  MapOK' /\ \A g \in File : din'[g].size = din[g].size
BY AppendDirectKeeps, AppendIndirectKeeps DEF AppendBlock

\* Without room the free map stays: what was taken for the entries is given back.
LEMMA NoRoomKeeps ==
  ASSUME MapOK, NEW f \in File, NEW i, NoRoom(f, i)
  PROVE  /\ UNCHANGED <<inodes, entry, freemap>>
         /\ ~superDirty' => UNCHANGED <<superDirty, diskFree>>
<1>1. freemap' = freemap
  BY DEF NoRoom, GivenBack, Least
<1> QED  BY <1>1 DEF NoRoom, SuperDirtyIf

\* sfs_bmap_truncate_nolock: the place of the last block is freed.
LEMMA DropKeeps ==
  ASSUME MapOK, NEW f \in File, din[f].blocks > 0, DropBlock(f, din[f].blocks - 1)
  PROVE  MapOK' /\ \A g \in File : din'[g].size = din[g].size
<1> DEFINE i == din[f].blocks - 1
<1>1. /\ MapTypes /\ i \in Nat /\ din[f].blocks \in Nat
      /\ i \in 0..NDirect + NEntry - 1 /\ InRange(i)
  BY HeldType, Constants DEF MapOK, BlocksInRange, InRange
<1>2. BlockOf(f, i) \in Block
  <2>1. BlockOf(f, i) # NoBlock
    BY <1>1 DEF MapOK, NoHole
  <2> QED  BY <2>1, <1>1, HeldType DEF Pointer
<1>3. /\ din' \in [File -> Inode]
      /\ \A g \in File : g # f => din'[g] = din[g]
      /\ din'[f].size = din[f].size /\ din'[f].indirect = din[f].indirect
      /\ din'[f].blocks = i
      /\ \A j \in 0..NDirect - 1 :
           din'[f].direct[j] = IF j = i THEN NoBlock ELSE din[f].direct[j]
  <2>1. CASE ClearDirect(f, i)
    <3>1. i \in 0..NDirect - 1
      BY <2>1, <1>1, Constants DEF ClearDirect
    <3> QED  BY <2>1, <3>1, <1>1 DEF ClearDirect, MapTypes, Inode, Pointer
  <2>2. CASE ClearIndirect(f, i)
    <3>1. \A j \in 0..NDirect - 1 : j # i
      BY <2>2, <1>1, Constants DEF ClearIndirect
    <3> QED  BY <2>2, <3>1, <1>1 DEF ClearIndirect, MapTypes, Inode
  <2> QED  BY <2>1, <2>2 DEF DropBlock
<1>4. /\ entry' \in [Block -> [0..NEntry - 1 -> Pointer]]
      /\ \A c \in Block, k \in 0..NEntry - 1 :
           entry'[c][k] = IF i >= NDirect /\ c = din[f].indirect /\ k = i - NDirect
                          THEN NoBlock ELSE entry[c][k]
  <2>1. CASE i < NDirect
    <3>1. entry' = entry
      BY <2>1, <1>1, Constants DEF DropBlock, ClearDirect, ClearIndirect
    <3> QED  BY <3>1, <2>1, <1>1, Constants DEF MapTypes
  <2>2. CASE ~(i < NDirect)
    <3>1. din[f].indirect \in Block
      <4>1. din[f].indirect # NoBlock
        BY <2>2, <1>2, Constants DEF BlockOf
      <4> QED  BY <4>1, <1>1, HeldType DEF Pointer
    <3>2. entry' = [entry EXCEPT ![din[f].indirect][i - NDirect] = NoBlock]
      BY <2>2, <1>1 DEF DropBlock, ClearDirect, ClearIndirect, ClearEntry
    <3>3. i - NDirect \in 0..NEntry - 1 /\ i >= NDirect
      BY <2>2, <1>1, Constants
    <3> QED  BY <3>1, <3>2, <3>3, <1>1 DEF MapTypes, Pointer
  <2> QED  BY <2>1, <2>2
<1>5. freemap' = freemap \cup {BlockOf(f, i)}
  BY DEF DropBlock
<1>6. MapTypes'
  BY <1>1, <1>2, <1>3, <1>4, <1>5 DEF MapTypes
<1>7. \A g \in File : din[g].indirect = din[f].indirect /\ din[f].indirect # NoBlock => g = f
  BY <1>1, BlockPlace DEF MapOK, NoSharedBlock
<1>8. ASSUME NEW g \in File, NEW j \in 0..NDirect + NEntry - 1
      PROVE  BlockOf(g, j)' = IF g = f /\ j = i THEN NoBlock ELSE BlockOf(g, j)
  <2>1. din[g].indirect \in Pointer /\ din'[g].indirect = din[g].indirect
    BY <1>1, <1>3, HeldType
  <2>2. CASE j < NDirect
    <3>1. j \in 0..NDirect - 1
      BY <2>2, Constants
    <3> QED  BY <2>2, <3>1, <1>3 DEF BlockOf
  <2>3. CASE ~(j < NDirect) /\ din[g].indirect = NoBlock
    <3>1. BlockOf(g, j)' = NoBlock /\ BlockOf(g, j) = NoBlock
      BY <2>3, <2>1 DEF BlockOf
    <3> QED  BY <3>1
  <2>4. CASE ~(j < NDirect) /\ din[g].indirect # NoBlock
    <3>1. j - NDirect \in 0..NEntry - 1 /\ din[g].indirect \in Block
      BY <2>4, <2>1, Constants DEF Pointer
    <3>2. /\ BlockOf(g, j)' = entry'[din[g].indirect][j - NDirect]
          /\ BlockOf(g, j) = entry[din[g].indirect][j - NDirect]
      BY <2>4, <2>1 DEF BlockOf
    <3>3. (i >= NDirect /\ j - NDirect = i - NDirect) <=> j = i
      BY <2>4, <1>1, Constants
    <3>4. CASE g = f
      BY <3>1, <3>2, <3>3, <3>4, <1>4
    <3>5. CASE g # f
      <4>1. din[g].indirect # din[f].indirect
        BY <3>5, <2>4, <1>7
      <4> QED  BY <4>1, <3>1, <3>2, <3>5, <1>4
    <3> QED  BY <3>4, <3>5
  <2> QED  BY <2>2, <2>3, <2>4
<1>9. Holding(f, i, NoBlock, i, NoBlock)
  <2>1. ASSUME NEW g \in File, NEW r \in Places
        PROVE  Held(g, r)' = IF g = f /\ r = i THEN NoBlock ELSE Held(g, r)
    <3>1. CASE r = IndirectPlace
      <4>1. din'[g].indirect = din[g].indirect
        BY <1>3
      <4> QED  BY <3>1, <4>1, <1>1, BlockPlace DEF Held
    <3>2. CASE r # IndirectPlace
      <4>1. r \in 0..NDirect + NEntry - 1
        BY <3>2, Constants DEF Places, IndirectPlace
      <4> QED  BY <3>2, <4>1, <1>8 DEF Held
    <3> QED  BY <3>1, <3>2
  <2> QED  BY <2>1 DEF Holding
<1>10. FreeMapExact' /\ NoSharedBlock'
  <2>1. i \in Places /\ Held(f, i) = BlockOf(f, i)
    BY <1>1, BlockPlace
  <2> HIDE DEF i
  <2> QED  BY <2>1, <1>2, <1>5, <1>6, <1>9, PlaceFreed
<1>11. NoHole' /\ BlocksInRange'
  <2>1. ASSUME NEW g \in File
        PROVE  /\ din'[g].blocks <= NDirect + NEntry
               /\ \A j \in 0..din'[g].blocks - 1 : BlockOf(g, j)' # NoBlock
    <3>1. /\ din'[g].blocks <= din[g].blocks /\ din[g].blocks \in Nat /\ din'[g].blocks \in Nat
          /\ din[g].blocks <= NDirect + NEntry
          /\ g = f => din'[g].blocks = i
      BY <1>1, <1>3, HeldType DEF MapOK, BlocksInRange
    <3>2. \A j \in 0..din'[g].blocks - 1 :
            j \in 0..din[g].blocks - 1 /\ j \in 0..NDirect + NEntry - 1 /\ ~(g = f /\ j = i)
      BY <3>1, <1>1, Constants
    <3>3. \A j \in 0..din[g].blocks - 1 : BlockOf(g, j) # NoBlock
      BY DEF MapOK, NoHole
    <3> QED  BY <3>1, <3>2, <3>3, <1>8, Constants
  <2> QED  BY <2>1 DEF NoHole, BlocksInRange
<1> QED  BY <1>3, <1>6, <1>10, <1>11 DEF MapOK

-----------------------------------------------------------------------------
(* The dirty flags. *)

\* The types of what is not in MapTypes.
OtherTypes ==
  /\ dirty \in [File -> BOOLEAN]
  /\ superDirty \in BOOLEAN
  /\ diskDin \in [File -> Inode]
  /\ diskFree \subseteq Block

LEMMA OutdatedType == Outdated \in Inode
BY DEF Outdated, EmptyInode, Inode, Pointer, NoBlock

\* A new block leaves the inode as it is on disk, or marks it dirty.
LEMMA AppendDisk ==
  ASSUME MapOK, DiskOK, OtherTypes, ~superDirty => diskFree = freemap,
         NEW f \in File, AppendBlock(f, din[f].blocks), InRange(din[f].blocks)
  PROVE  DiskOK' /\ OtherTypes' /\ (~superDirty' => diskFree' = freemap')
<1> DEFINE i == din[f].blocks
<1>1. MapTypes /\ i \in Nat /\ i \in 0..NDirect + NEntry - 1 /\ InRange(i)
  BY HeldType, Constants DEF MapOK, InRange
<1>2. BlockOf(f, i) \in Pointer /\ din[f].indirect \in Pointer
  BY <1>1, HeldType
<1>3. \A x \in Block : x \in freemap <=> \A g \in File, r \in Places : Held(g, r) # x
  BY FreeMeansUnheld DEF MapOK
<1>4. BlockOf(f, i) \notin freemap /\ din[f].indirect \notin freemap
  <2>1. /\ i \in Places /\ IndirectPlace \in Places
        /\ Held(f, i) = BlockOf(f, i) /\ Held(f, IndirectPlace) = din[f].indirect
    BY <1>1, BlockPlace
  <2>2. freemap \subseteq Block
    BY <1>1 DEF MapTypes
  <2> QED  BY <2>1, <2>2, <1>3
<1>5. /\ \A g \in File : g # f => din'[g] = din[g]
      /\ din'[f].size = din[f].size
      /\ din'[f].blocks = i + 1
  <2>1. CASE AppendDirect(f, i)
    <3>1. i \in 0..NDirect - 1
      BY <2>1, <1>1, Constants DEF AppendDirect
    <3> QED  BY <2>1, <3>1, <1>1 DEF AppendDirect, MapTypes, Inode
  <2>2. CASE AppendIndirect(f, i)
    BY <2>2, <1>1 DEF AppendIndirect, MapTypes, Inode
  <2> QED  BY <2>1, <2>2 DEF AppendBlock
<1>6. ASSUME dirty' = dirty, diskDin' = diskDin, ~dirty[f]
      PROVE  din'[f].direct = din[f].direct /\ din'[f].indirect = din[f].indirect
  <2>1. CASE AppendDirect(f, i)
    <3>1. i \in 0..NDirect - 1
      BY <2>1, <1>1, Constants DEF AppendDirect
    <3>2. BlockOf(f, i) # NoBlock
      BY <2>1, <1>6 DEF AppendDirect, DirtyIf, OtherTypes
    <3>3. PICK b \in {BlockOf(f, i)} : din' = [din EXCEPT ![f].direct[i] = b, ![f].blocks = @ + 1]
      BY <2>1, <3>2 DEF AppendDirect, Found
    <3>4. BlockOf(f, i) = din[f].direct[i]
      BY <2>1 DEF AppendDirect, BlockOf
    <3>5. din'[f].direct = [din[f].direct EXCEPT ![i] = din[f].direct[i]]
      BY <3>3, <3>4, <1>1 DEF MapTypes, Inode
    <3>6. din'[f].direct = din[f].direct
      BY <3>1, <3>5, <1>1, HeldType
    <3> QED  BY <3>3, <3>6, <1>1 DEF MapTypes, Inode
  <2>2. CASE AppendIndirect(f, i)
    <3>1. ~LacksEntryBlock(f, i)
      BY <2>2, <1>6 DEF AppendIndirect, DirtyIf, OtherTypes
    <3>2. PICK e \in {din[f].indirect} : din' = [din EXCEPT ![f].indirect = e, ![f].blocks = @ + 1]
      BY <2>2, <3>1 DEF AppendIndirect, EntryBlocks
    <3> QED  BY <3>2, <1>1 DEF MapTypes, Inode
  <2> QED  BY <2>1, <2>2 DEF AppendBlock
<1>7. PICK changed \in BOOLEAN : DirtyIf(f, changed)
  <2>1. CASE AppendDirect(f, i)
    <3>1. DirtyIf(f, BlockOf(f, i) = NoBlock) /\ (BlockOf(f, i) = NoBlock) \in BOOLEAN
      BY <2>1 DEF AppendDirect
    <3> QED  BY <3>1
  <2>2. CASE AppendIndirect(f, i)
    <3>1. DirtyIf(f, LacksEntryBlock(f, i)) /\ LacksEntryBlock(f, i) \in BOOLEAN
      BY <2>2 DEF AppendIndirect, LacksEntryBlock
    <3> QED  BY <3>1
  <2> QED  BY <2>1, <2>2 DEF AppendBlock
<1>8. DiskOK'
  <2>1. ASSUME NEW g \in File, ~dirty'[g]
        PROVE  /\ diskDin'[g].size = din'[g].size
               /\ diskDin'[g].direct = din'[g].direct
               /\ diskDin'[g].indirect = din'[g].indirect
               /\ diskDin'[g].blocks <= din'[g].blocks
    <3>1. CASE g # f
      BY <2>1, <3>1, <1>5, <1>7 DEF DirtyIf, OtherTypes, DiskOK
    <3>2. CASE g = f
      <4>1. ~changed /\ ~dirty[f] /\ dirty' = dirty /\ diskDin' = diskDin
        BY <2>1, <3>2, <1>7 DEF DirtyIf, OtherTypes
      <4>2. diskDin[f].blocks \in Nat
        BY DEF OtherTypes, Inode
      <4> QED  BY <3>2, <4>1, <4>2, <1>1, <1>5, <1>6 DEF DiskOK
    <3> QED  BY <3>1, <3>2
  <2> QED  BY <2>1 DEF DiskOK
<1>9. OtherTypes'
  <2>1. dirty' \in [File -> BOOLEAN] /\ diskDin' \in [File -> Inode]
    BY <1>7, OutdatedType DEF DirtyIf, OtherTypes
  <2>2. superDirty' \in BOOLEAN /\ diskFree' \subseteq Block
    BY DEF AppendBlock, SuperDirtyIf, OtherTypes
  <2> QED  BY <2>1, <2>2 DEF OtherTypes
<1>10. ASSUME ~superDirty'
       PROVE  diskFree' = freemap'
  <2>1. /\ ~superDirty /\ diskFree' = diskFree
        /\ BlockOf(f, i) # NoBlock /\ ~LacksEntryBlock(f, i)
    <3>1. SuperDirtyIf(Missing(f, i) > 0)
      BY DEF AppendBlock
    <3>2. ~(Missing(f, i) > 0)
      BY <3>1, <1>10 DEF SuperDirtyIf
    <3>3. BlockOf(f, i) # NoBlock /\ ~LacksEntryBlock(f, i)
      BY <3>2 DEF Missing
    <3> QED  BY <3>1, <3>2, <3>3, <1>10 DEF SuperDirtyIf
  <2>2. CASE AppendDirect(f, i)
    BY <2>1, <2>2, <1>4 DEF AppendDirect, Found
  <2>3. CASE AppendIndirect(f, i)
    BY <2>1, <2>3, <1>4 DEF AppendIndirect, Found, EntryBlocks
  <2> QED  BY <2>1, <2>2, <2>3 DEF AppendBlock
<1> QED  BY <1>8, <1>9, <1>10

\* A dropped block marks both dirty.
LEMMA DropDisk ==
  ASSUME MapOK, DiskOK, OtherTypes, NEW f \in File, NEW i, DropBlock(f, i)
  PROVE  DiskOK' /\ OtherTypes' /\ superDirty'
<1>1. \A g \in File : g # f => din'[g] = din[g]
  BY DEF DropBlock, ClearDirect, ClearIndirect, MapOK, MapTypes
<1>2. /\ dirty' = [dirty EXCEPT ![f] = TRUE]
      /\ diskDin' = [diskDin EXCEPT ![f] = Outdated]
      /\ superDirty' /\ superDirty' \in BOOLEAN /\ diskFree' \subseteq Block
  BY DEF DropBlock, DirtyIf, SuperDirtyIf, OtherTypes
<1>3. DiskOK'
  BY <1>1, <1>2 DEF DiskOK, OtherTypes
<1>4. OtherTypes'
  BY <1>2, OutdatedType DEF OtherTypes
<1> QED  BY <1>2, <1>3, <1>4

-----------------------------------------------------------------------------
(* The invariant is inductive. *)

LEMMA TypeParts ==
  TypeOK <=> /\ MapTypes /\ OtherTypes
             /\ desc \in [Desc -> [file : File \cup {NoFile}, pos : Nat]]
             /\ torn \subseteq File
             /\ mode \in {"up", "down"}
BY DEF TypeOK, MapTypes, OtherTypes

LEMMA InitInv == Init => Inv
<1> SUFFICES ASSUME Init PROVE Inv
  OBVIOUS
<1>1. EmptyInode \in Inode /\ Zeros \in [0..NEntry - 1 -> Pointer]
  BY DEF EmptyInode, Inode, Zeros, Pointer, NoBlock
<1>2. TypeOK
  BY <1>1, SfsAssumption DEF Init, TypeOK, Closed
<1>3. CallOK /\ FreeMapOnDisk /\ DiskOK
  BY DEF Init, CallOK, FreeMapOnDisk, DiskOK, EmptyInode
<1>4. SizesOK /\ BlocksInRange
  BY Constants DEF Init, SizesOK, BlocksInRange, EmptyInode
<1>5. NoHole
  BY Constants DEF Init, NoHole, EmptyInode
<1>6. ASSUME NEW f \in File, NEW p \in Places
      PROVE  Held(f, p) = NoBlock
  <2>1. din[f].indirect = NoBlock /\ din[f].direct = [i \in 0..NDirect - 1 |-> NoBlock]
    BY DEF Init, EmptyInode
  <2>2. p = IndirectPlace \/ p \in 0..NDirect + NEntry - 1
    BY Constants DEF Places, IndirectPlace
  <2>3. p < NDirect => p \in 0..NDirect - 1
    BY Constants DEF Places, IndirectPlace
  <2> QED  BY <2>1, <2>2, <2>3 DEF Held, BlockOf
<1>7. FreeMapExact /\ NoSharedBlock
  BY <1>6, Constants DEF Init, FreeMapExact, NoSharedBlock
<1> QED  BY <1>2, <1>3, <1>4, <1>5, <1>7, TypeParts DEF Inv, MapOK

\* The map is as good as before when the pointers stay and no count grows.
LEMMA SamePointers ==
  ASSUME MapOK, din' \in [File -> Inode], UNCHANGED <<freemap, entry>>,
         \A g \in File : /\ din'[g].direct = din[g].direct
                         /\ din'[g].indirect = din[g].indirect
                         /\ din'[g].blocks <= din[g].blocks
  PROVE  MapOK'
<1>1. MapTypes'
  BY DEF MapOK, MapTypes
<1>2. \A g \in File : \A j : BlockOf(g, j)' = BlockOf(g, j)
  BY DEF BlockOf
<1>3. \A g \in File : \A p : Held(g, p)' = Held(g, p)
  BY <1>2 DEF Held
<1>4. FreeMapExact' /\ NoSharedBlock'
  BY <1>3 DEF MapOK, FreeMapExact, NoSharedBlock
<1>5. ASSUME NEW g \in File
      PROVE  /\ din'[g].blocks <= NDirect + NEntry
             /\ \A j \in 0..din'[g].blocks - 1 : BlockOf(g, j)' # NoBlock
  <2>1. /\ din'[g].blocks \in Nat /\ din[g].blocks \in Nat /\ din'[g].blocks <= din[g].blocks
        /\ din[g].blocks <= NDirect + NEntry
    BY HeldType DEF Inode, MapOK, BlocksInRange
  <2>2. \A j \in 0..din'[g].blocks - 1 : j \in 0..din[g].blocks - 1
    BY <2>1
  <2> QED  BY <2>1, <2>2, <1>2, Constants DEF MapOK, NoHole
<1> QED  BY <1>1, <1>4, <1>5 DEF MapOK, NoHole, BlocksInRange

\* Nothing on the disk or in the inodes changes.
LEMMA NoChange ==
  ASSUME Inv, UNCHANGED <<inodes, blocks>>
  PROVE  MapOK' /\ DiskOK' /\ SizesOK' /\ OtherTypes' /\ MapTypes'
<1>1. MapOK'
  BY HeldType, SamePointers DEF Inv, MapOK, MapTypes, inodes, blocks
<1> QED  BY <1>1 DEF Inv, MapOK, DiskOK, SizesOK, TypeOK, OtherTypes, inodes, blocks

LEMMA SameInv ==
  ASSUME Inv, UNCHANGED <<inodes, blocks, desc, call, torn, mode>>
  PROVE  Inv'
<1>1. MapOK' /\ DiskOK' /\ SizesOK' /\ OtherTypes' /\ MapTypes'
  BY NoChange
<1>2. TypeOK'
  BY <1>1 DEF TypeOK, MapTypes, OtherTypes, Inv
<1>3. CallOK'
  BY DEF Inv, CallOK, The, inodes
<1>4. FreeMapOnDisk'
  BY DEF Inv, FreeMapOnDisk, blocks
<1> QED  BY <1>1, <1>2, <1>3, <1>4 DEF Inv

\* The beginning of a call, and a new position.
LEMMA StartInv ==
  ASSUME Inv, UNCHANGED <<inodes, blocks, torn>>, mode = "up", mode' = mode,
         desc' \in [Desc -> [file : File \cup {NoFile}, pos : Nat]],
         CallOK'
  PROVE  Inv'
<1>1. MapOK' /\ DiskOK' /\ SizesOK' /\ OtherTypes' /\ MapTypes'
  BY NoChange
<1>2. TypeOK'
  BY <1>1 DEF TypeOK, MapTypes, OtherTypes, Inv
<1>3. FreeMapOnDisk'
  BY DEF Inv, FreeMapOnDisk, blocks
<1> QED  BY <1>1, <1>2, <1>3 DEF Inv

LEMMA StartIoInv ==
  ASSUME Inv, NEW d \in Desc, NEW to \in Nat, NEW name \in {"read", "write"},
         Ready, Opened(d), desc[d].pos <= to, to <= MaxFileSize, StartIo(name, d, to)
  PROVE  Inv'
<1>1. desc[d].file \in File /\ desc[d].pos \in Nat
  BY DEF Inv, TypeOK, Opened
<1>2. CallOK'
  <2>1. call' = [name |-> name, d |-> d, from |-> desc[d].pos, at |-> desc[d].pos, to |-> to]
        /\ desc' = desc
    BY DEF StartIo
  <2>2. call' \in Calls
    BY <2>1, <1>1 DEF Calls
  <2>3. call'.name # "seek" /\ call'.name # "open"
    BY <2>1
  <2> QED  BY <1>1, <2>1, <2>2, <2>3 DEF CallOK
<1>3. desc' \in [Desc -> [file : File \cup {NoFile}, pos : Nat]]
  BY DEF Inv, TypeOK, StartIo
<1> QED  BY <1>2, <1>3, StartInv DEF StartIo, Ready

LEMMA ReadStep ==
  ASSUME Inv, NEW d \in Desc, Read(d)
  PROVE  Inv'
<1>1. PICK n \in Len : StartIo("read", d, Lesser(desc[d].pos + n, din[desc[d].file].size))
  BY DEF Read
<1>2. /\ desc[d].file \in File /\ desc[d].pos \in Nat /\ Opened(d) /\ Ready
      /\ desc[d].pos < din[desc[d].file].size
  BY DEF Inv, TypeOK, Opened, Read
<1>3. din[desc[d].file].size \in Nat /\ din[desc[d].file].size <= MaxFileSize
  BY <1>2, HeldType DEF Inv, SizesOK, MapOK
<1>4. n \in Nat /\ MaxFileSize \in Nat
  BY Constants
<1> DEFINE to == Lesser(desc[d].pos + n, din[desc[d].file].size)
<1>5. to \in Nat /\ desc[d].pos <= to /\ to <= MaxFileSize
  BY <1>2, <1>3, <1>4 DEF Lesser
<1> HIDE DEF to
<1> QED  BY <1>1, <1>2, <1>5, StartIoInv DEF to

LEMMA WriteStep ==
  ASSUME Inv, NEW d \in Desc, Write(d)
  PROVE  Inv'
<1>1. PICK n \in Len : StartIo("write", d, Lesser(desc[d].pos + n, MaxFileSize))
  BY DEF Write
<1>2. desc[d].pos \in Nat /\ Opened(d) /\ Ready /\ desc[d].pos < MaxFileSize
  BY DEF Inv, TypeOK, Opened, Write
<1>4. n \in Nat /\ MaxFileSize \in Nat
  BY Constants
<1> DEFINE to == Lesser(desc[d].pos + n, MaxFileSize)
<1>5. to \in Nat /\ desc[d].pos <= to /\ to <= MaxFileSize
  BY <1>2, <1>4 DEF Lesser
<1> HIDE DEF to
<1> QED  BY <1>1, <1>2, <1>5, StartIoInv DEF to

\* What the invariant says of the call that runs.
LEMMA CallFacts ==
  ASSUME Inv, call # Idle
  PROVE  /\ call.name \in {"read", "write", "seek", "open"}
         /\ call.d \in Desc /\ The \in File /\ mode = "up"
         /\ call.from \in Nat /\ call.at \in Nat /\ call.to \in Nat
         /\ call.to <= MaxFileSize
         /\ call = [name |-> call.name, d |-> call.d, from |-> call.from,
                    at |-> call.at, to |-> call.to]
         /\ call.name = "seek" => call.to > din[The].size
         /\ call.name = "open" => call.to = 0
         /\ call.name \in {"read", "write"} => call.at <= call.to
<1>1. call \in Calls /\ mode = "up"
  BY DEF Inv, CallOK, FreeMapOnDisk, TypeOK
<1> QED  BY <1>1 DEF Inv, CallOK, Calls, The

LEMMA RunningCall ==
  ASSUME Running({"read", "write"}) \/ Running({"seek", "open"})
  PROVE  call # Idle
BY DEF Running, Idle

\* A read or a write goes on, up to where it went or less far.
Going ==
  /\ call.name \in {"read", "write"}
  /\ call' \in Calls /\ call'.name = call.name /\ call'.d = call.d
  /\ call'.at <= call'.to /\ call'.to <= call.to

\* The turn of a loop: the call goes on, the sizes and descriptors stay.
LEMMA TurnInv ==
  ASSUME Inv, MapOK', DiskOK', OtherTypes', ~superDirty' => diskFree' = freemap',
         call # Idle, torn' \subseteq File, UNCHANGED <<desc, mode>>,
         \A g \in File : din'[g].size = din[g].size,
         call' = call \/ call' = Idle \/ Going
  PROVE  Inv'
<1>1. TypeOK'
  BY DEF Inv, TypeOK, MapOK, MapTypes, OtherTypes
<1>2. SizesOK'
  BY DEF Inv, SizesOK
<1>3. FreeMapOnDisk'
  BY CallFacts DEF FreeMapOnDisk
<1>4. CallOK'
  <2>1. CASE call' = call \/ call' = Idle
    BY <2>1 DEF Inv, CallOK, The
  <2>2. CASE Going
    <3>1. call'.to <= MaxFileSize
      <4>1. call'.to \in Nat /\ call.to \in Nat /\ call.to <= MaxFileSize
        BY <2>2, CallFacts DEF Going, Calls
      <4> QED  BY <4>1, <2>2, Constants DEF Going
    <3>2. desc'[call'.d].file \in File
      BY <2>2, CallFacts DEF The, Going
    <3> QED  BY <2>2, <3>1, <3>2 DEF CallOK, Going
  <2> QED  BY <2>1, <2>2
<1> QED  BY <1>1, <1>2, <1>3, <1>4 DEF Inv

LEMMA NextAtBounds ==
  ASSUME Inv, Transferring, Blk \in Nat
  PROVE  NextAt \in Nat /\ NextAt <= call.to
<1>1. call.to \in Nat
  BY CallFacts, RunningCall DEF Transferring
<1>2. (Blk + 1) * BlkSize \in Nat
  BY Constants
<1> QED  BY <1>1, <1>2 DEF NextAt, Lesser

LEMMA AdvanceGoes ==
  ASSUME Inv, call # Idle, call.name \in {"read", "write"}, Advance,
         NextAt \in Nat, NextAt <= call.to
  PROVE  Going
<1>1. call \in Calls
  BY DEF Inv, CallOK
<1>2. /\ call'.name = call.name /\ call'.d = call.d /\ call'.at = NextAt
      /\ call'.to = call.to /\ call' \in Calls
  BY <1>1 DEF Advance, Calls
<1>3. call.to \in Nat
  BY CallFacts
<1> QED  BY <1>2, <1>3 DEF Going

LEMMA IoBlockStep ==
  ASSUME Inv, IoBlock
  PROVE  Inv'
<1>1. call # Idle /\ call.name \in {"read", "write"}
  BY RunningCall DEF IoBlock, Transferring, Running
<1>2. CASE BlockOf(The, Blk) = NoBlock
  BY <1>2, SameInv DEF IoBlock, Panic
<1>3. CASE BlockOf(The, Blk) # NoBlock
  <2>1. Advance /\ UNCHANGED <<inodes, blocks, desc, torn, mode>>
    BY <1>3 DEF IoBlock
  <2>2. Blk \in Nat
    BY <1>1, CallFacts, Constants DEF Blk
  <2>3. NextAt \in Nat /\ NextAt <= call.to /\ call.to \in Nat
    BY <2>2, <1>1, NextAtBounds, CallFacts DEF IoBlock
  <2>4. Going
    BY <1>1, <2>1, <2>3, AdvanceGoes
  <2>5. MapOK' /\ DiskOK' /\ OtherTypes'
    BY <2>1, NoChange
  <2>6. ~superDirty' => diskFree' = freemap'
    BY <2>1 DEF Inv, FreeMapOnDisk, blocks
  <2>7. \A g \in File : din'[g].size = din[g].size
    BY <2>1 DEF inodes
  <2>8. torn' \subseteq File
    BY <2>1 DEF Inv, TypeOK
  <2> QED  BY <1>1, <2>1, <2>4, <2>5, <2>6, <2>7, <2>8, TurnInv
<1> QED  BY <1>2, <1>3

LEMMA IoNewBlockStep ==
  ASSUME Inv, IoNewBlock
  PROVE  Inv'
<1>1. call # Idle /\ call.name \in {"read", "write"}
  BY RunningCall DEF IoNewBlock, Transferring, Running
<1>2. /\ The \in File /\ Blk = din[The].blocks /\ InRange(din[The].blocks)
      /\ AppendBlock(The, din[The].blocks)
      /\ Advance /\ UNCHANGED <<desc, torn, mode>>
  BY <1>1, CallFacts DEF IoNewBlock
<1>3. MapOK' /\ \A g \in File : din'[g].size = din[g].size
  BY <1>2, AppendKeeps DEF Inv
<1>4. DiskOK' /\ OtherTypes' /\ (~superDirty' => diskFree' = freemap')
  BY <1>2, AppendDisk, TypeParts DEF Inv, FreeMapOnDisk
<1>5. Going
  <2>1. Blk \in Nat
    BY <1>2, HeldType DEF Inv, MapOK
  <2>2. NextAt \in Nat /\ NextAt <= call.to /\ call.to \in Nat
    BY <2>1, <1>1, NextAtBounds, CallFacts DEF IoNewBlock
  <2> QED  BY <1>1, <1>2, <2>2, AdvanceGoes
<1>6. torn' \subseteq File
  BY <1>2 DEF Inv, TypeOK
<1> QED  BY <1>1, <1>2, <1>3, <1>4, <1>5, <1>6, TurnInv

\* A call that finds no room leaves the disk and the inodes alone.
LEMMA NoRoomInv ==
  ASSUME Inv, NEW f \in File, NEW i, NoRoom(f, i)
  PROVE  /\ MapOK' /\ DiskOK' /\ OtherTypes' /\ (~superDirty' => diskFree' = freemap')
         /\ \A g \in File : din'[g].size = din[g].size
<1>1. UNCHANGED <<inodes, entry, freemap>> /\ (~superDirty' => UNCHANGED <<superDirty, diskFree>>)
  BY NoRoomKeeps DEF Inv
<1>2. MapOK'
  BY <1>1, HeldType, SamePointers DEF Inv, MapOK, MapTypes, inodes
<1>3. OtherTypes'
  <2>1. superDirty' \in BOOLEAN /\ diskFree' \subseteq Block
    BY DEF NoRoom, SuperDirtyIf, Inv, TypeOK
  <2> QED  BY <2>1, <1>1 DEF Inv, TypeOK, OtherTypes, inodes
<1>4. DiskOK'
  BY <1>1 DEF Inv, DiskOK, inodes
<1> QED  BY <1>1, <1>2, <1>3, <1>4 DEF Inv, FreeMapOnDisk, inodes

LEMMA IoNoRoomStep ==
  ASSUME Inv, IoNoRoom
  PROVE  Inv'
<1>1. call # Idle /\ call.name \in {"read", "write"}
  BY RunningCall DEF IoNoRoom, Transferring, Running
<1>2. The \in File /\ NoRoom(The, Blk) /\ UNCHANGED <<desc, mode>>
  BY <1>1, CallFacts DEF IoNoRoom
<1>3. /\ MapOK' /\ DiskOK' /\ OtherTypes' /\ (~superDirty' => diskFree' = freemap')
      /\ \A g \in File : din'[g].size = din[g].size
  BY <1>2, NoRoomInv
<1>4. Going
  <2>1. call' = [call EXCEPT !.to = call.at] /\ call \in Calls
    BY <1>1 DEF IoNoRoom, Inv, CallOK
  <2>2. /\ call'.name = call.name /\ call'.d = call.d /\ call'.at = call.at
        /\ call'.to = call.at /\ call' \in Calls
    BY <2>1 DEF Calls
  <2>3. call.at \in Nat /\ call.at <= call.to
    BY <1>1, CallFacts
  <2> QED  BY <1>1, <2>2, <2>3 DEF Going
<1>5. torn' \subseteq File
  BY <1>2 DEF IoNoRoom, Inv, TypeOK
<1> QED  BY <1>1, <1>2, <1>3, <1>4, <1>5, TurnInv

\* The end of a call that may give its file a new size, and a new position.
LEMMA EndInv ==
  ASSUME Inv, call # Idle, call' = Idle, UNCHANGED <<blocks, mode>>, torn' \subseteq File,
         NEW n \in Nat, n <= MaxFileSize, NEW p \in Nat,
         desc' = [desc EXCEPT ![call.d].pos = p],
         UNCHANGED inodes \/ (din' = [din EXCEPT ![The].size = n] /\ DirtyIf(The, TRUE))
  PROVE  Inv'
<1>1. The \in File /\ call.d \in Desc
  BY CallFacts
<1>2. /\ din' \in [File -> Inode]
      /\ \A g \in File : /\ din'[g].direct = din[g].direct
                         /\ din'[g].indirect = din[g].indirect
                         /\ din'[g].blocks = din[g].blocks
                         /\ din'[g].size = din[g].size \/ din'[g].size = n
                         /\ g # The => din'[g] = din[g]
  <2>1. din \in [File -> Inode]
    BY DEF Inv, TypeOK
  <2>2. CASE UNCHANGED inodes
    BY <2>1, <2>2 DEF inodes
  <2>3. CASE din' = [din EXCEPT ![The].size = n]
    BY <2>1, <2>3, <1>1 DEF Inode
  <2> QED  BY <2>2, <2>3
<1>3. MapOK'
  <2>1. UNCHANGED <<freemap, entry>> /\ \A g \in File : din'[g].blocks <= din[g].blocks
    BY <1>2, HeldType DEF blocks, Inv, MapOK
  <2> QED  BY ONLY <1>2, <2>1, SamePointers, Inv DEF Inv
<1>4. SizesOK'
  <2>1. SizesOK
    BY DEF Inv
  <2> QED  BY <2>1, <1>2 DEF SizesOK
<1>5. DiskOK' /\ dirty' \in [File -> BOOLEAN] /\ diskDin' \in [File -> Inode]
  <2>1. CASE UNCHANGED inodes
    BY <2>1 DEF Inv, DiskOK, TypeOK, inodes
  <2>2. CASE DirtyIf(The, TRUE)
    <3>1. dirty' = [dirty EXCEPT ![The] = TRUE] /\ diskDin' = [diskDin EXCEPT ![The] = Outdated]
      BY <2>2, <1>1 DEF DirtyIf, Inv, TypeOK
    <3> QED  BY <3>1, <1>1, <1>2, OutdatedType DEF Inv, DiskOK, TypeOK
  <2> QED  BY <2>1, <2>2
<1>6. desc' \in [Desc -> [file : File \cup {NoFile}, pos : Nat]]
  <2>1. desc \in [Desc -> [file : File \cup {NoFile}, pos : Nat]]
    BY DEF Inv, TypeOK
  <2> QED  BY <2>1, <1>1
<1>7. TypeOK'
  BY <1>2, <1>5, <1>6 DEF Inv, TypeOK, blocks
<1>8. CallOK' /\ FreeMapOnDisk'
  BY DEF CallOK, Inv, FreeMapOnDisk, blocks
<1> QED  BY <1>3, <1>4, <1>5, <1>7, <1>8 DEF Inv

LEMMA IoEndStep ==
  ASSUME Inv, IoEnd
  PROVE  Inv'
<1>1. call # Idle
  BY RunningCall DEF IoEnd
<1>2. call.at \in Nat /\ call.at <= MaxFileSize
  BY <1>1, CallFacts DEF IoEnd
<1>3. /\ call' = Idle /\ UNCHANGED <<blocks, mode>> /\ torn' = torn
      /\ desc' = [desc EXCEPT ![call.d].pos = call.at]
      /\ UNCHANGED inodes \/ (din' = [din EXCEPT ![The].size = call.at] /\ DirtyIf(The, TRUE))
  BY DEF IoEnd
<1>4. torn' \subseteq File
  BY <1>3 DEF Inv, TypeOK
<1> QED  BY <1>1, <1>2, <1>3, <1>4, EndInv

LEMMA TruncateEndStep ==
  ASSUME Inv, TruncateEnd
  PROVE  Inv'
<1>1. call # Idle
  BY RunningCall DEF TruncateEnd, Truncating
<1>2. call.to \in Nat /\ call.to <= MaxFileSize
  BY <1>1, CallFacts
<1>3. /\ call' = Idle /\ UNCHANGED <<blocks, mode>> /\ torn' = torn \ {The}
      /\ desc' = [desc EXCEPT ![call.d].pos = call.to]
      /\ din' = [din EXCEPT ![The].size = call.to] /\ DirtyIf(The, TRUE)
  BY DEF TruncateEnd
<1>4. torn' \subseteq File
  BY <1>3 DEF Inv, TypeOK
<1> QED  BY <1>1, <1>2, <1>3, <1>4, EndInv

LEMMA SeekStep ==
  ASSUME Inv, NEW d \in Desc, Seek(d)
  PROVE  Inv'
<1>1. PICK p \in Position :
        /\ p < MaxFileSize
        /\ IF p > din[desc[d].file].size
           THEN UNCHANGED desc /\ StartTruncate("seek", d, p)
           ELSE desc' = [desc EXCEPT ![d].pos = p] /\ UNCHANGED call
  BY DEF Seek
<1>2. /\ UNCHANGED <<inodes, blocks, torn>> /\ mode = "up" /\ mode' = mode /\ call = Idle
      /\ p \in Nat /\ p <= MaxFileSize /\ desc[d].file \in File
  <2>1. UNCHANGED <<inodes, blocks, torn>> /\ mode = "up" /\ mode' = mode /\ call = Idle
    BY DEF Seek, Ready
  <2>2. p \in Nat /\ p <= MaxFileSize
    BY <1>1, SfsAssumption, Constants
  <2>3. desc[d].file \in File
    BY DEF Seek, Opened, Inv, TypeOK
  <2> QED  BY <2>1, <2>2, <2>3
<1>3. desc' \in [Desc -> [file : File \cup {NoFile}, pos : Nat]]
  BY <1>1, <1>2 DEF Inv, TypeOK
<1>4. CallOK'
  <2>1. CASE p > din[desc[d].file].size
    <3>1. /\ desc' = desc
          /\ call' = [name |-> "seek", d |-> d, from |-> din[desc[d].file].blocks, at |-> 0, to |-> p]
      BY <1>1, <2>1 DEF StartTruncate
    <3>2. din[desc[d].file].blocks \in Nat
      BY <1>2, HeldType DEF Inv, MapOK
    <3>3. call' \in Calls /\ call'.name = "seek" /\ call'.d = d /\ call'.to = p
      BY <3>1, <3>2, <1>2 DEF Calls
    <3> QED  BY <3>1, <3>3, <2>1, <1>2 DEF CallOK, The, inodes
  <2>2. CASE ~(p > din[desc[d].file].size)
    BY <2>2, <1>1, <1>2 DEF CallOK
  <2> QED  BY <2>1, <2>2
<1> QED  BY <1>2, <1>3, <1>4, StartInv

LEMMA OpenStep ==
  ASSUME Inv, NEW d \in Desc, NEW f \in File, Open(d, f)
  PROVE  Inv'
<1>1. PICK p \in {0, din[f].size} : desc' = [desc EXCEPT ![d] = [file |-> f, pos |-> p]]
  BY DEF Open
<1>2. /\ UNCHANGED <<inodes, blocks, torn>> /\ mode = "up" /\ mode' = mode /\ call' = Idle
      /\ p \in Nat
  BY HeldType DEF Open, Ready, Inv, MapOK
<1>3. desc' \in [Desc -> [file : File \cup {NoFile}, pos : Nat]]
  BY <1>1, <1>2 DEF Inv, TypeOK
<1> QED  BY <1>2, <1>3, StartInv DEF CallOK

LEMMA OpenTruncatingStep ==
  ASSUME Inv, NEW d \in Desc, NEW f \in File, OpenTruncating(d, f)
  PROVE  Inv'
<1>1. /\ UNCHANGED <<inodes, blocks, torn>> /\ mode = "up" /\ mode' = mode /\ call = Idle
      /\ desc' = [desc EXCEPT ![d] = [file |-> f, pos |-> 0]]
  BY DEF OpenTruncating, Ready
<1>2. desc' \in [Desc -> [file : File \cup {NoFile}, pos : Nat]] /\ desc'[d].file = f
  BY <1>1 DEF Inv, TypeOK
<1>3. CallOK'
  <2>1. CASE din[f].size # 0
    <3>1. call' = [name |-> "open", d |-> d, from |-> din[desc'[d].file].blocks, at |-> 0, to |-> 0]
      BY <2>1 DEF OpenTruncating, StartTruncate
    <3>2. din[f].blocks \in Nat /\ 0 <= MaxFileSize
      BY HeldType, Constants DEF Inv, MapOK
    <3>3. call' \in Calls /\ call'.name = "open" /\ call'.d = d /\ call'.to = 0
      BY <3>1, <3>2, <1>2 DEF Calls
    <3> QED  BY <3>2, <3>3, <1>2 DEF CallOK
  <2>2. CASE din[f].size = 0
    BY <2>2, <1>1 DEF OpenTruncating, CallOK
  <2> QED  BY <2>1, <2>2
<1> QED  BY <1>1, <1>2, <1>3, StartInv

LEMMA TruncateGrowStep ==
  ASSUME Inv, TruncateGrow
  PROVE  Inv'
<1>1. call # Idle
  BY RunningCall DEF TruncateGrow, Truncating
<1>2. /\ The \in File /\ InRange(din[The].blocks) /\ AppendBlock(The, din[The].blocks)
      /\ UNCHANGED <<desc, call, torn, mode>>
  BY <1>1, CallFacts DEF TruncateGrow
<1>3. MapOK' /\ \A g \in File : din'[g].size = din[g].size
  BY <1>2, AppendKeeps DEF Inv
<1>4. DiskOK' /\ OtherTypes' /\ (~superDirty' => diskFree' = freemap')
  BY <1>2, AppendDisk, TypeParts DEF Inv, FreeMapOnDisk
<1>5. torn' \subseteq File
  BY <1>2 DEF Inv, TypeOK
<1> QED  BY <1>1, <1>2, <1>3, <1>4, <1>5, TurnInv

LEMMA TruncateNoRoomStep ==
  ASSUME Inv, TruncateNoRoom
  PROVE  Inv'
<1>1. call # Idle
  BY RunningCall DEF TruncateNoRoom, Truncating
<1>2. /\ The \in File /\ NoRoom(The, din[The].blocks) /\ call' = Idle
      /\ UNCHANGED <<desc, mode>>
  BY <1>1, CallFacts DEF TruncateNoRoom
<1>3. /\ MapOK' /\ DiskOK' /\ OtherTypes' /\ (~superDirty' => diskFree' = freemap')
      /\ \A g \in File : din'[g].size = din[g].size
  BY <1>2, NoRoomInv
<1>4. torn' \subseteq File
  BY <1>2 DEF TruncateNoRoom, Inv, TypeOK
<1> QED  BY <1>1, <1>2, <1>3, <1>4, TurnInv

LEMMA ShrinkHasBlock ==
  ASSUME Inv, TruncateShrink
  PROVE  din[The].blocks > 0
<1>1. call # Idle
  BY RunningCall DEF TruncateShrink, Truncating
<1>2. din[The].blocks \in Nat /\ call.to \in Nat /\ BlkSize \in Nat \ {0}
  BY <1>1, CallFacts, HeldType, Constants DEF Inv, MapOK
<1>3. BlocksFor(call.to) \in Nat /\ din[The].blocks > BlocksFor(call.to)
  BY <1>2 DEF BlocksFor, TruncateShrink
<1> QED  BY <1>2, <1>3

LEMMA TruncateShrinkStep ==
  ASSUME Inv, TruncateShrink
  PROVE  Inv'
<1>1. call # Idle
  BY RunningCall DEF TruncateShrink, Truncating
<1>2. /\ The \in File /\ DropBlock(The, din[The].blocks - 1)
      /\ din[The].blocks > BlocksFor(call.to)
      /\ UNCHANGED <<desc, call, torn, mode>>
  BY <1>1, CallFacts DEF TruncateShrink
<1>3. din[The].blocks > 0
  BY ShrinkHasBlock
<1>4. MapOK' /\ \A g \in File : din'[g].size = din[g].size
  BY <1>2, <1>3, DropKeeps DEF Inv
<1>5. DiskOK' /\ OtherTypes' /\ superDirty'
  BY <1>2, DropDisk, TypeParts DEF Inv
<1>6. torn' \subseteq File
  BY <1>2 DEF Inv, TypeOK
<1> QED  BY <1>1, <1>2, <1>4, <1>5, <1>6, TurnInv

LEMMA FsyncStep ==
  ASSUME Inv, NEW d \in Desc, Fsync(d)
  PROVE  Inv'
<1> DEFINE f == desc[d].file
<1>1. /\ f \in File /\ diskDin' = Saved(f) /\ dirty' = [dirty EXCEPT ![f] = FALSE]
      /\ UNCHANGED <<din, blocks, desc, call, torn, mode>>
  BY DEF Fsync, Opened, Inv, TypeOK
<1> HIDE DEF f
<1>2. MapOK'
  <2>1. din \in [File -> Inode] /\ \A g \in File : din[g].blocks <= din[g].blocks
    BY HeldType DEF Inv, MapOK, MapTypes
  <2> QED  BY <1>1, <2>1, SamePointers DEF Inv, blocks
<1>3. DiskOK' /\ dirty' \in [File -> BOOLEAN] /\ diskDin' \in [File -> Inode]
  <2>1. /\ dirty \in [File -> BOOLEAN] /\ diskDin \in [File -> Inode] /\ din \in [File -> Inode]
    BY DEF Inv, TypeOK
  <2>2. din[f].blocks \in Nat
    BY <1>1, HeldType DEF Inv, MapOK
  <2> QED  BY <1>1, <2>1, <2>2 DEF Saved, Inv, DiskOK
<1>4. TypeOK'
  BY <1>1, <1>3 DEF Inv, TypeOK, blocks
<1>5. CallOK' /\ SizesOK' /\ FreeMapOnDisk'
  BY <1>1 DEF Inv, CallOK, The, SizesOK, FreeMapOnDisk, blocks
<1> QED  BY <1>2, <1>3, <1>4, <1>5 DEF Inv

\* What a reload reads is the inode that left, but perhaps for its count.
LEMMA SavedReads ==
  ASSUME Inv, NEW f \in File
  PROVE  /\ Saved(f) \in [File -> Inode]
         /\ \A g \in File : g # f => Saved(f)[g] = diskDin[g]
         /\ Saved(f)[f].size = din[f].size
         /\ Saved(f)[f].direct = din[f].direct
         /\ Saved(f)[f].indirect = din[f].indirect
         /\ Saved(f)[f].blocks <= din[f].blocks
<1>1. /\ diskDin \in [File -> Inode] /\ din \in [File -> Inode]
  BY DEF Inv, TypeOK
<1>2. din[f].blocks \in Nat
  BY HeldType DEF Inv, MapOK
<1> QED  BY <1>1, <1>2 DEF Saved, Inv, DiskOK

LEMMA CloseStep ==
  ASSUME Inv, NEW d \in Desc, Close(d)
  PROVE  Inv'
<1> DEFINE f == desc[d].file
<1>1. /\ f \in File /\ desc' = [desc EXCEPT ![d] = Closed]
      /\ \/ /\ diskDin' = Saved(f)
            /\ dirty' = [dirty EXCEPT ![f] = FALSE]
            /\ din' = [din EXCEPT ![f] = Saved(f)[f]]
         \/ UNCHANGED inodes
      /\ UNCHANGED <<blocks, call, torn, mode>> /\ call = Idle
  BY DEF Close, Opened, Ready, Inv, TypeOK
<1> HIDE DEF f
<1>2. desc' \in [Desc -> [file : File \cup {NoFile}, pos : Nat]]
  BY <1>1 DEF Inv, TypeOK, Closed
<1>3. CASE UNCHANGED inodes
  <2>1. MapOK' /\ DiskOK' /\ SizesOK' /\ OtherTypes' /\ MapTypes'
    BY <1>1, <1>3, NoChange
  <2>2. TypeOK'
    BY <2>1, <1>1, <1>2 DEF TypeOK, MapTypes, OtherTypes, Inv
  <2>3. CallOK' /\ FreeMapOnDisk'
    BY <1>1 DEF CallOK, Inv, FreeMapOnDisk, blocks
  <2> QED  BY <2>1, <2>2, <2>3 DEF Inv
<1>4. CASE /\ diskDin' = Saved(f)
           /\ dirty' = [dirty EXCEPT ![f] = FALSE]
           /\ din' = [din EXCEPT ![f] = Saved(f)[f]]
  <2>1. /\ dirty \in [File -> BOOLEAN] /\ din \in [File -> Inode]
        /\ \A g \in File : din[g].blocks \in Nat
    BY HeldType DEF Inv, TypeOK, MapOK
  <2>2. /\ din' \in [File -> Inode]
        /\ \A g \in File : /\ din'[g].size = din[g].size
                           /\ din'[g].direct = din[g].direct
                           /\ din'[g].indirect = din[g].indirect
                           /\ din'[g].blocks <= din[g].blocks
                           /\ g # f => din'[g] = din[g]
    <3>1. Saved(f)[f] \in Inode
      BY <1>1, SavedReads
    <3>2. din' \in [File -> Inode] /\ din'[f] = Saved(f)[f] /\ \A g \in File : g # f => din'[g] = din[g]
      BY <2>1, <3>1, <1>1, <1>4
    <3> QED  BY <3>2, <2>1, <1>1, SavedReads
  <2>3. MapOK'
    BY <2>2, <1>1, SamePointers DEF Inv, blocks
  <2>4. din'[f].blocks \in Nat
    BY <2>2, <1>1 DEF Inode
  <2>5. DiskOK' /\ dirty' \in [File -> BOOLEAN] /\ diskDin' \in [File -> Inode]
    <3>1. diskDin' \in [File -> Inode] /\ diskDin'[f] = din'[f]
          /\ \A g \in File : g # f => diskDin'[g] = diskDin[g]
      BY <1>1, <1>4, <2>1, SavedReads
    <3> QED  BY <3>1, <1>1, <1>4, <2>1, <2>2, <2>4 DEF Inv, DiskOK
  <2>6. TypeOK'
    BY <1>1, <1>2, <2>2, <2>5 DEF Inv, TypeOK, blocks
  <2>7. CallOK' /\ FreeMapOnDisk' /\ SizesOK'
    BY <1>1, <2>2 DEF CallOK, Inv, FreeMapOnDisk, SizesOK, blocks
  <2> QED  BY <2>3, <2>5, <2>6, <2>7 DEF Inv
<1> QED  BY <1>1, <1>3, <1>4

\* A clean shutdown writes the free map, so the next boot reads the same.
LEMMA ShutdownStep ==
  ASSUME Inv, Cleanup \/ Mount
  PROVE  Inv'
<1>1. /\ UNCHANGED <<inodes, entry, desc, call, torn>> /\ freemap' = freemap
      /\ diskFree' = freemap /\ superDirty' = FALSE
      /\ call = Idle /\ mode' \in {"up", "down"}
  <2>1. CASE Cleanup
    BY <2>1 DEF Cleanup, Ready, Inv, FreeMapOnDisk
  <2>2. CASE Mount
    BY <2>2 DEF Mount, Inv, FreeMapOnDisk, TypeOK
  <2> QED  BY <2>1, <2>2
<1>2. MapOK'
  <2>1. din \in [File -> Inode] /\ \A g \in File : din[g].blocks <= din[g].blocks
    BY HeldType DEF Inv, MapOK, MapTypes
  <2> QED  BY <1>1, <2>1, SamePointers DEF Inv, inodes
<1>3. TypeOK' /\ CallOK' /\ SizesOK' /\ DiskOK' /\ FreeMapOnDisk'
  BY <1>1 DEF Inv, TypeOK, CallOK, SizesOK, DiskOK, FreeMapOnDisk, inodes
<1> QED  BY <1>2, <1>3 DEF Inv

\* A panic stops the kernel and changes nothing.
LEMMA PanicStep ==
  ASSUME Inv, IoPanic \/ TruncatePanic
  PROVE  Inv'
BY SameInv DEF IoPanic, TruncatePanic, Panic

LEMMA NextInv == Inv /\ [Next]_vars => Inv'
<1> SUFFICES ASSUME Inv, [Next]_vars PROVE Inv'
  OBVIOUS
<1>1. CASE UNCHANGED vars
  BY <1>1, SameInv DEF vars
<1>2. ASSUME NEW d \in Desc, Read(d) \/ Write(d) \/ Seek(d) \/ Fsync(d) \/ Close(d) PROVE Inv'
  BY <1>2, ReadStep, WriteStep, SeekStep, FsyncStep, CloseStep
<1>3. ASSUME NEW d \in Desc, NEW f \in File, Open(d, f) \/ OpenTruncating(d, f) PROVE Inv'
  BY <1>3, OpenStep, OpenTruncatingStep
<1>4. CASE IoBlock \/ IoNewBlock \/ IoNoRoom \/ IoPanic \/ IoEnd
  BY <1>4, IoBlockStep, IoNewBlockStep, IoNoRoomStep, PanicStep, IoEndStep
<1>5. CASE TruncateGrow \/ TruncateNoRoom \/ TruncatePanic \/ TruncateShrink \/ TruncateEnd
  BY <1>5, TruncateGrowStep, TruncateNoRoomStep, PanicStep, TruncateShrinkStep, TruncateEndStep
<1>6. CASE Cleanup \/ Mount
  BY <1>6, ShutdownStep
<1> QED  BY <1>1, <1>2, <1>3, <1>4, <1>5, <1>6 DEF Next

-----------------------------------------------------------------------------
(* The theorems. *)

\* For any disk, inode and block size, every order of calls, failures half
\* way, closes, shutdowns and boots keeps the invariant.
THEOREM Invariance == Spec => []Inv
BY InitInv, NextInv, PTL DEF Spec

\* The free map says exactly which blocks no file holds: none is lost and none
\* in use is given out.
THEOREM FreeMapIsExact == Spec => []FreeMapExact
<1>1. Inv => FreeMapExact
  BY DEF Inv, MapOK
<1> QED  BY <1>1, Invariance, PTL

\* No block has two places, in one file or in two.
THEOREM NoBlockShared == Spec => []NoSharedBlock
<1>1. Inv => NoSharedBlock
  BY DEF Inv, MapOK
<1> QED  BY <1>1, Invariance, PTL

-----------------------------------------------------------------------------
(* The lengths of files, as FileLengths promises them. *)

len == [f \in File |-> din[f].size]
on == [d \in Desc |-> desc[d].file]

\* A step that keeps the lengths and the files of the descriptors.
LEMMA Stutters ==
  ASSUME \A g \in File : din'[g].size = din[g].size,
         \A d \in Desc : desc'[d].file = desc[d].file
  PROVE  UNCHANGED Lengths!vars
BY DEF Lengths!vars

LEMMA OpenLengths ==
  ASSUME Inv, NEW d \in Desc, NEW f \in File, Open(d, f) \/ OpenTruncating(d, f)
  PROVE  Lengths!Next
<1>1. /\ ~Opened(d) /\ din' = din
      /\ \E p \in Nat : desc' = [desc EXCEPT ![d] = [file |-> f, pos |-> p]]
  BY HeldType DEF Open, OpenTruncating, inodes, Inv, MapOK
<1>2. on' = [on EXCEPT ![d] = f] /\ on[d] = NoFile /\ len' = len
  <2>1. PICK p \in Nat : desc' = [desc EXCEPT ![d] = [file |-> f, pos |-> p]]
    BY <1>1
  <2>2. \A c \in Desc : desc'[c].file = IF c = d THEN f ELSE desc[c].file
    BY <2>1 DEF Inv, TypeOK
  <2>3. on' = [on EXCEPT ![d] = f]
    BY <2>2 DEF on
  <2> QED  BY <2>3, <1>1 DEF on, len, Opened
<1>3. Lengths!Open(d, f)
  BY <1>2 DEF Lengths!Open, on, len
<1> QED  BY <1>3 DEF Lengths!Next

\* The end of a call at the new length n.
LEMMA EndLengths ==
  ASSUME Inv, call # Idle, NEW p, desc' = [desc EXCEPT ![call.d].pos = p],
         NEW n \in Nat, n <= MaxFileSize, n = 0 \/ n > din[The].size,
         din' = [din EXCEPT ![The].size = n]
  PROVE  Lengths!Next
<1>1. /\ call.d \in Desc /\ The \in File /\ The = desc[call.d].file
      /\ din \in [File -> Inode] /\ din[The].size \in Nat
  BY CallFacts DEF Inv, TypeOK, The, Inode
<1>2. /\ on[call.d] = The /\ The # NoFile
      /\ on' = on
      /\ len' = [len EXCEPT ![The] = n]
  <2>1. \A g \in File : din'[g].size = IF g = The THEN n ELSE din[g].size
    BY <1>1 DEF Inode
  <2>2. len' = [len EXCEPT ![The] = n]
    BY <2>1 DEF len
  <2>3. \A d \in Desc : desc'[d].file = desc[d].file
    BY <1>1 DEF Inv, TypeOK
  <2>4. on' = on
    BY <2>3 DEF on
  <2> QED  BY <2>2, <2>4, <1>1, SfsAssumption DEF on
<1>3. CASE n = 0
  <2>1. PICK d \in Desc : d = call.d
    BY <1>1
  <2>2. Lengths!Cut(d)
    BY <1>2, <1>3, <2>1 DEF Lengths!Cut, on, len
  <2> QED  BY <2>2 DEF Lengths!Next
<1>4. CASE n > din[The].size
  <2>1. n \in 1..MaxFileSize /\ len[The] = din[The].size
    BY <1>1, <1>4, Constants DEF len
  <2>2. Lengths!Grow(call.d, n)
    BY <1>2, <1>4, <2>1 DEF Lengths!Grow, on, len
  <2> QED  BY <2>1, <2>2, <1>1 DEF Lengths!Next
<1> QED  BY <1>3, <1>4

LEMMA CloseLengths ==
  ASSUME Inv, NEW d \in Desc, Close(d)
  PROVE  Lengths!Next
<1>1. /\ desc[d].file \in File /\ desc[d].file # NoFile
      /\ desc' = [desc EXCEPT ![d] = Closed]
  BY DEF Close, Opened, Inv, TypeOK
<1>2. \A g \in File : din'[g].size = din[g].size
  <2>1. CASE UNCHANGED inodes
    BY <2>1 DEF inodes
  <2>2. CASE din' = [din EXCEPT ![desc[d].file] = Saved(desc[d].file)[desc[d].file]]
    BY <2>2, <1>1, SavedReads DEF Inv, TypeOK
  <2> QED  BY <2>1, <2>2 DEF Close
<1>3. on' = [on EXCEPT ![d] = NoFile] /\ on[d] # NoFile /\ len' = len
  BY <1>1, <1>2 DEF on, len, Inv, TypeOK, Closed
<1>4. Lengths!Close(d)
  BY <1>3 DEF Lengths!Close, on, len
<1> QED  BY <1>4 DEF Lengths!Next

LEMMA IoEndLengths ==
  ASSUME Inv, IoEnd
  PROVE  [Lengths!Next]_Lengths!vars
<1>1. call # Idle
  BY RunningCall DEF IoEnd
<1>2. /\ call.at \in Nat /\ call.at <= MaxFileSize
      /\ desc' = [desc EXCEPT ![call.d].pos = call.at]
  BY <1>1, CallFacts DEF IoEnd
<1>3. CASE call.at > din[The].size
  <2>1. din' = [din EXCEPT ![The].size = call.at]
    BY <1>3 DEF IoEnd
  <2> QED  BY <2>1, <1>1, <1>2, <1>3, EndLengths
<1>4. CASE ~(call.at > din[The].size)
  <2>1. din' = din /\ \A d \in Desc : desc'[d].file = desc[d].file
    BY <1>1, <1>2, <1>4 DEF IoEnd, inodes, Inv, TypeOK
  <2> QED  BY <2>1, Stutters
<1> QED  BY <1>3, <1>4

LEMMA TruncateEndLengths ==
  ASSUME Inv, TruncateEnd
  PROVE  Lengths!Next
<1>1. call # Idle /\ call.name \in {"seek", "open"}
  BY RunningCall DEF TruncateEnd, Truncating, Running
<1>2. /\ call.to \in Nat /\ call.to <= MaxFileSize
      /\ call.to = 0 \/ call.to > din[The].size
  BY <1>1, CallFacts
<1>3. /\ desc' = [desc EXCEPT ![call.d].pos = call.to]
      /\ din' = [din EXCEPT ![The].size = call.to]
  BY DEF TruncateEnd
<1> QED  BY <1>1, <1>2, <1>3, EndLengths

\* The turns of the loops keep every length.
LEMMA TurnLengths ==
  ASSUME Inv,
         \/ IoBlock \/ IoNewBlock \/ IoNoRoom \/ IoPanic
         \/ TruncateGrow \/ TruncateNoRoom \/ TruncatePanic \/ TruncateShrink
  PROVE  UNCHANGED Lengths!vars
<1>1. \A d \in Desc : desc'[d].file = desc[d].file
  BY DEF IoBlock, IoNewBlock, IoNoRoom, IoPanic, TruncateGrow, TruncateNoRoom, TruncatePanic,
         TruncateShrink, Panic
<1>2. \A g \in File : din'[g].size = din[g].size
  <2>1. CASE IoBlock \/ IoPanic \/ TruncatePanic
    BY <2>1 DEF IoBlock, IoPanic, TruncatePanic, Panic, inodes
  <2>2. CASE IoNewBlock \/ TruncateGrow
    <3>1. call # Idle
      BY <2>2, RunningCall DEF IoNewBlock, TruncateGrow, Transferring, Truncating
    <3>2. The \in File /\ InRange(din[The].blocks) /\ AppendBlock(The, din[The].blocks)
      BY <2>2, <3>1, CallFacts DEF IoNewBlock, TruncateGrow
    <3> QED  BY <3>2, AppendKeeps DEF Inv
  <2>3. CASE IoNoRoom \/ TruncateNoRoom
    BY <2>3 DEF IoNoRoom, TruncateNoRoom, NoRoom, inodes
  <2>4. CASE TruncateShrink
    <3>1. The \in File
      BY <2>4, RunningCall, CallFacts DEF TruncateShrink, Truncating
    <3>2. DropBlock(The, din[The].blocks - 1)
      BY <2>4 DEF TruncateShrink
    <3>3. din[The].blocks > 0
      BY <3>1, <2>4, ShrinkHasBlock
    <3> QED  BY <3>1, <3>2, <3>3, DropKeeps DEF Inv
  <2> QED  BY <2>1, <2>2, <2>3, <2>4
<1> QED  BY <1>1, <1>2, Stutters

\* A user can rely on FileLengths: only a call through an open descriptor
\* changes the length of a file, whatever leaves the memory or is read again.
THEOREM LengthsKept == Spec => ImplementsFileLengths
<1>1. Init => Lengths!Init
  BY DEF Init, Lengths!Init, EmptyInode, Closed
<1>2. Inv /\ [Next]_vars => [Lengths!Next]_Lengths!vars
  <2> SUFFICES ASSUME Inv, [Next]_vars PROVE [Lengths!Next]_Lengths!vars
    OBVIOUS
  <2>1. CASE UNCHANGED vars
    BY <2>1, Stutters DEF vars, inodes
  <2>2. ASSUME NEW d \in Desc, Read(d) \/ Write(d) \/ Fsync(d)
        PROVE  UNCHANGED Lengths!vars
    BY <2>2, Stutters DEF Read, Write, Fsync, StartIo, inodes
  <2>3. ASSUME NEW d \in Desc, Seek(d)
        PROVE  UNCHANGED Lengths!vars
    <3>1. din' = din
      BY <2>3 DEF Seek, inodes
    <3>2. \A c \in Desc : desc'[c].file = desc[c].file
      BY <2>3 DEF Seek, Inv, TypeOK
    <3> QED  BY <3>1, <3>2, Stutters
  <2>4. ASSUME NEW d \in Desc, Close(d)
        PROVE  Lengths!Next
    BY <2>4, CloseLengths
  <2>5. ASSUME NEW d \in Desc, NEW f \in File, Open(d, f) \/ OpenTruncating(d, f)
        PROVE  Lengths!Next
    BY <2>5, OpenLengths
  <2>6. CASE \/ IoBlock \/ IoNewBlock \/ IoNoRoom \/ IoPanic
             \/ TruncateGrow \/ TruncateNoRoom \/ TruncatePanic \/ TruncateShrink
    BY <2>6, TurnLengths
  <2>7. CASE IoEnd
    BY <2>7, IoEndLengths
  <2>8. CASE TruncateEnd
    BY <2>8, TruncateEndLengths
  <2>9. CASE Cleanup \/ Mount
    BY <2>9, Stutters DEF Cleanup, Mount, inodes
  <2> QED  BY <2>1, <2>2, <2>3, <2>4, <2>5, <2>6, <2>7, <2>8, <2>9 DEF Next
<1> QED  BY <1>1, <1>2, Invariance, PTL DEF Spec, ImplementsFileLengths, Lengths!Spec

-----------------------------------------------------------------------------
(***************************************************************************)
(* Lengths and numbers of blocks.  The count of an inode that is not dirty *)
(* may be ahead of the one on disk, so that a file can shrink to fewer     *)
(* blocks than its length needs when it leaves the memory: the invariant   *)
(* says when the two can differ, in each phase of each call.               *)
(***************************************************************************)

\* The bytes that b blocks hold; b is the number of blocks that n bytes need;
\* n bytes need at most one block more than b.
Bytes(b) == BlkSize * b
Covers(n, b) == n <= Bytes(b) /\ Bytes(b) < n + BlkSize
Near(n, b) == n < Bytes(b) + BlkSize

LEMMA BytesFacts ==
  /\ \A b \in Nat : Bytes(b) \in Nat /\ Bytes(b + 1) = Bytes(b) + BlkSize
  /\ \A b, c \in Nat : b < c => Bytes(b) + BlkSize <= Bytes(c)
  /\ Bytes(0) = 0
<1>1. BlkSize \in Nat \ {0}
  BY Constants
<1>2. ASSUME NEW b \in Nat
      PROVE  Bytes(b) \in Nat /\ Bytes(b + 1) = Bytes(b) + BlkSize
  BY <1>1 DEF Bytes
<1>3. ASSUME NEW b \in Nat, NEW c \in Nat, b < c
      PROVE  Bytes(b) + BlkSize <= Bytes(c)
  <2>1. PICK d \in Nat : c = (b + 1) + d
    <3>1. c - (b + 1) \in Nat /\ c = (b + 1) + (c - (b + 1))
      BY <1>3
    <3> QED  BY <3>1
  <2>2. BlkSize * c = (BlkSize * b + BlkSize) + BlkSize * d /\ BlkSize * d \in Nat
    BY <2>1, <1>1
  <2> QED  BY <2>2, <1>1 DEF Bytes
<1> QED  BY <1>1, <1>2, <1>3 DEF Bytes

\* Rounding down, and rounding up.
LEMMA DivFacts ==
  ASSUME NEW n \in Nat
  PROVE  /\ n \div BlkSize \in Nat
         /\ Bytes(n \div BlkSize) <= n /\ n < Bytes(n \div BlkSize) + BlkSize
BY Constants DEF Bytes

LEMMA BlocksForCovers ==
  ASSUME NEW n \in Nat
  PROVE  BlocksFor(n) \in Nat /\ Covers(n, BlocksFor(n))
<1>1. BlkSize \in Nat \ {0} /\ (n + BlkSize) - 1 \in Nat
  BY Constants
<1>2. PICK m \in Nat : m = (n + BlkSize) - 1
  BY <1>1
<1>3. /\ m \div BlkSize \in Nat
      /\ Bytes(m \div BlkSize) <= m /\ m < Bytes(m \div BlkSize) + BlkSize
  BY DivFacts
<1>4. BlocksFor(n) = m \div BlkSize
  BY <1>1, <1>2 DEF BlocksFor
<1> DEFINE b == m \div BlkSize
<1> HIDE DEF b
<1>5. b \in Nat /\ Bytes(b) \in Nat /\ Bytes(b) <= m /\ m < Bytes(b) + BlkSize
  BY <1>3, BytesFacts DEF b
<1>6. Covers(n, b)
  BY <1>1, <1>2, <1>5 DEF Covers
<1> QED  BY <1>4, <1>5, <1>6 DEF b

\* The number of blocks that a length needs is unique.
LEMMA CoversOnce ==
  ASSUME NEW n \in Nat, NEW b \in Nat, NEW c \in Nat, Covers(n, b), Covers(n, c)
  PROVE  b = c
<1>1. Bytes(b) \in Nat /\ Bytes(c) \in Nat /\ BlkSize \in Nat \ {0}
  BY BytesFacts, Constants
<1>2. CASE b < c
  <2>1. Bytes(b) + BlkSize <= Bytes(c)
    BY <1>2, BytesFacts
  <2> QED  BY <2>1, <1>1 DEF Covers
<1>3. CASE c < b
  <2>1. Bytes(c) + BlkSize <= Bytes(b)
    BY <1>3, BytesFacts
  <2> QED  BY <2>1, <1>1 DEF Covers
<1> QED  BY <1>2, <1>3

(* The invariant of the counts, on top of Inv. *)

Cutting(f) == call.name = "open" /\ f = The
InCall(f) == call # Idle /\ f = The
CountSaved(f) == ~dirty[f] => diskDin[f].blocks = din[f].blocks
\* f has the blocks its length needs, and a reload would find the same count.
Settled(f) == Covers(din[f].size, din[f].blocks) /\ CountSaved(f)
Greater(m, n) == IF m < n THEN n ELSE m

\* Of every file, torn or not: the block of its last byte is there, or is the
\* next one.  A call that cuts a file to nothing sets its length at the end.
SizesNear == \A f \in File : Cutting(f) \/ Near(din[f].size, din[f].blocks)
DiskNear == \A f \in File : dirty[f] \/ Near(din[f].size, diskDin[f].blocks)
\* Between calls all files are settled but the torn ones.
OthersSettled == \A f \in File \ torn : InCall(f) \/ Settled(f)

\* The position of a read or a write is in a block of the file or behind the
\* last, unless the call began behind the end.
IoNear ==
  /\ call.from <= call.at
  /\ (call.from <= din[The].size \/ call.from < call.at \/ call.at = call.to)
       => Near(call.at, din[The].blocks)

\* A write settles its file when it sets the length: until then the blocks
\* fit to where it is, and the count differs from the saved one only if the
\* position is behind the end, so that the new length makes the inode dirty.
IoCovers ==
  IF call.at = call.from
  THEN /\ Settled(The)
       /\ call.at = call.to => call.at <= din[The].size
  ELSE /\ Covers(Greater(din[The].size, call.at), din[The].blocks)
       /\ call.at <= din[The].size => CountSaved(The)

IoCounts == IoNear /\ (The \notin torn => IoCovers)

\* A call that changes the length adds blocks or drops them, never both, and
\* has changed nothing while it has the count it began with.
TruncateCounts ==
  /\ din[The].blocks > call.from => din[The].blocks <= BlocksFor(call.to)
  /\ din[The].blocks < call.from => din[The].blocks >= BlocksFor(call.to)
  /\ din[The].blocks = call.from /\ The \notin torn => Settled(The)

CountsOK ==
  /\ SizesNear
  /\ DiskNear
  /\ OthersSettled
  /\ call.name \in {"read", "write"} => IoCounts
  /\ call.name \in {"seek", "open"} => TruncateCounts

LEMMA CountTypes ==
  ASSUME Inv, NEW f \in File
  PROVE  /\ din[f].size \in Nat /\ din[f].blocks \in Nat /\ diskDin[f].blocks \in Nat
         /\ Bytes(din[f].blocks) \in Nat /\ Bytes(diskDin[f].blocks) \in Nat
<1>1. din[f].size \in Nat /\ din[f].blocks \in Nat /\ diskDin[f].blocks \in Nat
  BY DEF Inv, TypeOK, Inode
<1> QED  BY <1>1, BytesFacts

\* The step makes b the count of the blocks of f, changes no other count and
\* no length, and saves no inode.
CountStep(f, b) ==
  /\ \A g \in File : din'[g].size = din[g].size
  /\ \A g \in File : din'[g].blocks = IF g = f THEN b ELSE din[g].blocks
  /\ \A g \in File : ~dirty'[g] => ~dirty[g] /\ diskDin'[g].blocks = diskDin[g].blocks

\* An inode that is clean after the step was so before, and is not saved by it.
LEMMA DirtyCounts ==
  ASSUME OtherTypes, NEW f \in File, NEW changed \in BOOLEAN, DirtyIf(f, changed)
  PROVE  /\ \A g \in File : ~dirty'[g] => ~dirty[g] /\ diskDin'[g].blocks = diskDin[g].blocks
         /\ changed => dirty'[f]
BY DEF OtherTypes, DirtyIf

LEMMA AppendCounts ==
  ASSUME Inv, NEW f \in File, AppendBlock(f, din[f].blocks), InRange(din[f].blocks)
  PROVE  CountStep(f, din[f].blocks + 1)
<1> DEFINE i == din[f].blocks
<1>1. MapTypes /\ OtherTypes /\ MapOK /\ i \in Nat
  BY TypeParts, HeldType DEF Inv
<1>2. /\ \A g \in File : g # f => din'[g].blocks = din[g].blocks
      /\ din'[f].blocks = i + 1
  <2>1. CASE AppendDirect(f, i)
    <3>1. i \in 0..NDirect - 1
      BY <2>1, <1>1, Constants DEF AppendDirect
    <3> QED  BY <2>1, <3>1, <1>1 DEF AppendDirect, MapTypes, Inode
  <2>2. CASE AppendIndirect(f, i)
    BY <2>2, <1>1 DEF AppendIndirect, MapTypes, Inode
  <2> QED  BY <2>1, <2>2 DEF AppendBlock
<1>3. PICK changed \in BOOLEAN : DirtyIf(f, changed)
  <2>1. CASE AppendDirect(f, i)
    <3>1. DirtyIf(f, BlockOf(f, i) = NoBlock) /\ (BlockOf(f, i) = NoBlock) \in BOOLEAN
      BY <2>1 DEF AppendDirect
    <3> QED  BY <3>1
  <2>2. CASE AppendIndirect(f, i)
    <3>1. DirtyIf(f, LacksEntryBlock(f, i)) /\ LacksEntryBlock(f, i) \in BOOLEAN
      BY <2>2 DEF AppendIndirect, LacksEntryBlock
    <3> QED  BY <3>1
  <2> QED  BY <2>1, <2>2 DEF AppendBlock
<1>4. \A g \in File : din'[g].size = din[g].size
  BY <1>1, AppendKeeps
<1> QED  BY <1>1, <1>2, <1>3, <1>4, DirtyCounts DEF CountStep

LEMMA DropCounts ==
  ASSUME Inv, NEW f \in File, din[f].blocks > 0, DropBlock(f, din[f].blocks - 1)
  PROVE  CountStep(f, din[f].blocks - 1) /\ dirty'[f]
<1> DEFINE i == din[f].blocks - 1
<1>1. MapTypes /\ OtherTypes /\ MapOK /\ i \in Nat
  BY TypeParts, HeldType DEF Inv
<1>2. /\ \A g \in File : g # f => din'[g].blocks = din[g].blocks
      /\ din'[f].blocks = i
  <2>1. CASE ClearDirect(f, i)
    <3>1. i \in 0..NDirect - 1
      BY <2>1, <1>1, Constants DEF ClearDirect
    <3> QED  BY <2>1, <3>1, <1>1 DEF ClearDirect, MapTypes, Inode
  <2>2. CASE ClearIndirect(f, i)
    BY <2>2, <1>1 DEF ClearIndirect, MapTypes, Inode
  <2> QED  BY <2>1, <2>2 DEF DropBlock
<1>3. DirtyIf(f, TRUE)
  BY DEF DropBlock
<1>4. \A g \in File : din'[g].size = din[g].size
  BY <1>1, DropKeeps
<1> QED  BY <1>1, <1>2, <1>3, <1>4, DirtyCounts DEF CountStep

LEMMA SameCounts ==
  ASSUME Inv, NEW f \in File, UNCHANGED inodes
  PROVE  CountStep(f, din[f].blocks)
BY DEF CountStep, inodes

\* A turn of the loop of a call touches the counts of its file only.
LEMMA TurnCounts ==
  ASSUME Inv, CountsOK, call # Idle, NEW b \in Nat, CountStep(The, b),
         torn \subseteq torn', desc' = desc,
         call' # Idle, call'.name = call.name, call'.d = call.d,
         call.name = "open" \/ Near(din[The].size, b)
  PROVE  The' = The /\ SizesNear' /\ DiskNear' /\ OthersSettled'
<1>1. The' = The
  BY DEF The
<1>2. ASSUME NEW f \in File
      PROVE  Cutting(f)' \/ Near(din[f].size, din[f].blocks)'
  <2>1. CASE f = The
    BY <2>1, <1>1 DEF Cutting, CountStep, Near
  <2>2. CASE f # The
    BY <2>2, <1>1 DEF Cutting, CountStep, Near, CountsOK, SizesNear
  <2> QED  BY <2>1, <2>2
<1>3. ASSUME NEW f \in File
      PROVE  dirty'[f] \/ Near(din[f].size, diskDin[f].blocks)'
  BY DEF CountStep, Near, CountsOK, DiskNear
<1>4. ASSUME NEW f \in File, f \notin torn'
      PROVE  InCall(f)' \/ Settled(f)'
  BY <1>1, <1>4 DEF InCall, Settled, CountSaved, CountStep, Covers, CountsOK, OthersSettled
<1> QED  BY <1>1, <1>2, <1>3, <1>4 DEF SizesNear, DiskNear, OthersSettled

\* Where the running read or write is, in blocks.
LEMMA BlkFacts ==
  ASSUME Inv, Transferring
  PROVE  /\ call # Idle /\ call.name \in {"read", "write"} /\ The \in File
         /\ call.from \in Nat /\ call.at \in Nat /\ call.to \in Nat /\ call.at < call.to
         /\ Blk \in Nat /\ Bytes(Blk) \in Nat /\ Bytes(Blk + 1) = Bytes(Blk) + BlkSize
         /\ Bytes(Blk) <= call.at /\ call.at < Bytes(Blk) + BlkSize
         /\ NextAt \in Nat /\ call.at < NextAt /\ NextAt <= call.to
         /\ NextAt <= Bytes(Blk) + BlkSize
<1>1. call # Idle /\ call.name \in {"read", "write"}
  BY RunningCall DEF Transferring, Running
<1>2. /\ The \in File /\ call.from \in Nat /\ call.at \in Nat /\ call.to \in Nat
      /\ call.at < call.to
  BY <1>1, CallFacts DEF Transferring
<1>3. /\ Blk \in Nat /\ Bytes(Blk) <= call.at /\ call.at < Bytes(Blk) + BlkSize
  BY <1>2, DivFacts DEF Blk
<1>4. Bytes(Blk) \in Nat /\ Bytes(Blk + 1) = Bytes(Blk) + BlkSize
  BY <1>3, BytesFacts
<1>5. (Blk + 1) * BlkSize = Bytes(Blk) + BlkSize
  BY <1>3, Constants DEF Bytes
<1> QED  BY <1>1, <1>2, <1>3, <1>4, <1>5, Constants DEF NextAt, Lesser

LEMMA AdvanceFacts ==
  ASSUME Inv, Transferring, Advance
  PROVE  /\ call' # Idle /\ call'.name = call.name /\ call'.d = call.d
         /\ call'.from = call.from /\ call'.to = call.to /\ call'.at = NextAt
<1>1. call # Idle /\ call.name \in {"read", "write"}
  BY BlkFacts
<1>2. call \in Calls
  BY <1>1 DEF Inv, CallOK
<1>3. /\ call'.name = call.name /\ call'.d = call.d
      /\ call'.from = call.from /\ call'.to = call.to /\ call'.at = NextAt
  BY <1>2 DEF Advance, Calls
<1> QED  BY <1>1, <1>3 DEF Idle

\* A block that the file has: the position moves up to its end.
LEMMA IoBlockCounts ==
  ASSUME Inv, CountsOK, Transferring, Advance, Blk < din[The].blocks,
         UNCHANGED <<inodes, desc, torn>>
  PROVE  CountsOK'
<1>1. /\ call' # Idle /\ call'.name = call.name /\ call'.d = call.d
      /\ call'.from = call.from /\ call'.to = call.to /\ call'.at = NextAt
  BY AdvanceFacts
<1>2. /\ call # Idle /\ call.name \in {"read", "write"} /\ The \in File
      /\ call.from \in Nat /\ call.at \in Nat /\ call.to \in Nat /\ call.at < call.to
      /\ Blk \in Nat /\ Bytes(Blk) \in Nat
      /\ Bytes(Blk) <= call.at /\ call.at < Bytes(Blk) + BlkSize
      /\ NextAt \in Nat /\ call.at < NextAt /\ NextAt <= call.to
      /\ NextAt <= Bytes(Blk) + BlkSize
  BY BlkFacts
<1>3. PICK b \in Nat : b = din[The].blocks
  BY <1>2, CountTypes
<1>4. PICK s \in Nat : s = din[The].size
  BY <1>2, CountTypes
<1>5. Bytes(b) \in Nat /\ Bytes(Blk) + BlkSize <= Bytes(b) /\ BlkSize \in Nat \ {0}
  BY <1>2, <1>3, BytesFacts, Constants
<1>6. CountStep(The, b)
  BY <1>2, <1>3, SameCounts
<1>7. Near(din[The].size, b)
  BY <1>2, <1>3 DEF CountsOK, SizesNear, Cutting
<1>8. The' = The /\ SizesNear' /\ DiskNear' /\ OthersSettled'
  BY <1>1, <1>2, <1>6, <1>7, TurnCounts
<1>9. din'[The].blocks = b /\ din'[The].size = s
  BY <1>3, <1>4 DEF inodes
<1>10. IoNear /\ (The \notin torn => IoCovers)
  BY <1>2 DEF CountsOK, IoCounts
<1>11. IoNear'
  <2>1. Near(NextAt, b) /\ call.from <= NextAt
    BY <1>2, <1>5, <1>10 DEF Near, IoNear
  <2> QED  BY <2>1, <1>1, <1>8, <1>9 DEF IoNear
<1>12. ASSUME The \notin torn
       PROVE  IoCovers'
  <2>1. Covers(Greater(s, NextAt), b) /\ (NextAt <= s => CountSaved(The))
    BY <1>2, <1>3, <1>4, <1>5, <1>10, <1>12 DEF IoCovers, IoNear, Covers, Greater, Settled
  <2>2. call.from < NextAt /\ CountSaved(The)' = CountSaved(The)
    BY <1>2, <1>8, <1>10 DEF IoNear, CountSaved, inodes
  <2> QED  BY <2>1, <2>2, <1>1, <1>2, <1>8, <1>9 DEF IoCovers
<1> QED  BY <1>1, <1>2, <1>8, <1>11, <1>12 DEF CountsOK, IoCounts

\* A block behind the last.
LEMMA IoNewBlockCounts ==
  ASSUME Inv, CountsOK, IoNewBlock
  PROVE  CountsOK'
<1>1. /\ call' # Idle /\ call'.name = call.name /\ call'.d = call.d
      /\ call'.from = call.from /\ call'.to = call.to /\ call'.at = NextAt
  BY AdvanceFacts DEF IoNewBlock
<1>2. /\ call # Idle /\ call.name \in {"read", "write"} /\ The \in File
      /\ call.from \in Nat /\ call.at \in Nat /\ call.to \in Nat /\ call.at < call.to
      /\ Blk \in Nat /\ Bytes(Blk) \in Nat /\ Bytes(Blk + 1) = Bytes(Blk) + BlkSize
      /\ Bytes(Blk) <= call.at /\ call.at < Bytes(Blk) + BlkSize
      /\ NextAt \in Nat /\ call.at < NextAt /\ NextAt <= call.to
      /\ NextAt <= Bytes(Blk) + BlkSize
  BY BlkFacts DEF IoNewBlock
<1>3. PICK b \in Nat : b = din[The].blocks
  BY <1>2, CountTypes
<1>4. PICK s \in Nat : s = din[The].size
  BY <1>2, CountTypes
<1>5. Blk = b /\ b + 1 \in Nat /\ BlkSize \in Nat \ {0}
  BY <1>3, Constants DEF IoNewBlock
<1>6. CountStep(The, b + 1)
  BY <1>2, <1>3, <1>5, AppendCounts DEF IoNewBlock
<1>7. s < Bytes(b) + BlkSize
  BY <1>2, <1>3, <1>4 DEF CountsOK, SizesNear, Cutting, Near
<1>8. The' = The /\ SizesNear' /\ DiskNear' /\ OthersSettled'
  <2>1. Near(din[The].size, b + 1)
    BY <1>2, <1>4, <1>5, <1>7 DEF Near
  <2>2. torn \subseteq torn' /\ desc' = desc
    BY DEF IoNewBlock
  <2> QED  BY <2>1, <2>2, <1>1, <1>2, <1>5, <1>6, TurnCounts
<1>9. din'[The].blocks = b + 1 /\ din'[The].size = s
  BY <1>2, <1>4, <1>6 DEF CountStep
<1>10. IoNear /\ (The \notin torn => IoCovers)
  BY <1>2 DEF CountsOK, IoCounts
<1>11. IoNear'
  <2>1. Near(NextAt, b + 1) /\ call.from <= NextAt
    BY <1>2, <1>5, <1>10 DEF Near, IoNear
  <2> QED  BY <2>1, <1>1, <1>8, <1>9 DEF IoNear
<1>12. ASSUME The \notin torn
       PROVE  IoCovers'
  <2>1. s <= Bytes(b)
    BY <1>2, <1>3, <1>4, <1>5, <1>10, <1>12 DEF IoCovers, Covers, Greater, Settled
  <2>2. Covers(Greater(s, NextAt), b + 1) /\ ~(NextAt <= s)
    BY <2>1, <1>2, <1>4, <1>5 DEF Covers, Greater
  <2>3. call.from < NextAt
    BY <1>2, <1>10 DEF IoNear
  <2> QED  BY <2>2, <2>3, <1>1, <1>2, <1>8, <1>9 DEF IoCovers
<1>13. torn' = torn
  BY DEF IoNewBlock
<1> QED  BY <1>1, <1>2, <1>8, <1>11, <1>12, <1>13 DEF CountsOK, IoCounts

\* No room: a call that had begun behind the end leaves its file torn.
LEMMA IoNoRoomCounts ==
  ASSUME Inv, CountsOK, IoNoRoom
  PROVE  CountsOK'
<1>1. /\ call # Idle /\ call.name \in {"read", "write"} /\ The \in File
      /\ call.from \in Nat /\ call.at \in Nat /\ call.to \in Nat /\ call.at < call.to
      /\ Blk \in Nat /\ Bytes(Blk) \in Nat
      /\ Bytes(Blk) <= call.at /\ call.at < Bytes(Blk) + BlkSize
  BY BlkFacts DEF IoNoRoom
<1>2. /\ call' # Idle /\ call'.name = call.name /\ call'.d = call.d
      /\ call'.from = call.from /\ call'.to = call.at /\ call'.at = call.at
  <2>1. call \in Calls /\ call' = [call EXCEPT !.to = call.at]
    BY <1>1 DEF IoNoRoom, Inv, CallOK
  <2>2. /\ call'.name = call.name /\ call'.d = call.d
        /\ call'.from = call.from /\ call'.to = call.at /\ call'.at = call.at
    BY <2>1 DEF Calls
  <2> QED  BY <2>2, <1>1 DEF Idle
<1>3. PICK b \in Nat : b = din[The].blocks
  BY <1>1, CountTypes
<1>4. PICK s \in Nat : s = din[The].size
  BY <1>1, CountTypes
<1>5. Blk = b /\ BlkSize \in Nat \ {0} /\ UNCHANGED inodes /\ NoRoom(The, Blk)
  BY <1>3, Constants DEF IoNoRoom, NoRoom
<1>6. CountStep(The, b)
  BY <1>1, <1>3, <1>5, SameCounts
<1>7. The' = The /\ SizesNear' /\ DiskNear' /\ OthersSettled'
  <2>1. Near(din[The].size, b)
    BY <1>1, <1>3 DEF CountsOK, SizesNear, Cutting
  <2>2. torn \subseteq torn' /\ desc' = desc
    BY DEF IoNoRoom
  <2> QED  BY <2>1, <2>2, <1>1, <1>2, <1>3, <1>6, TurnCounts
<1>8. din'[The].blocks = b /\ din'[The].size = s
  BY <1>3, <1>4, <1>5 DEF inodes
<1>9. IoNear /\ (The \notin torn => IoCovers)
  BY <1>1 DEF CountsOK, IoCounts
<1>10. IoNear'
  <2>1. Near(call.at, b) /\ call.from <= call.at
    BY <1>1, <1>5, <1>9 DEF Near, IoNear
  <2> QED  BY <2>1, <1>2, <1>7, <1>8 DEF IoNear
<1>11. ASSUME The \notin torn'
       PROVE  IoCovers'
  <2>1. The \notin torn /\ (call.at = call.from => call.at <= s)
    BY <1>1, <1>4, <1>11 DEF IoNoRoom
  <2>2. Settled(The)' = Settled(The) /\ CountSaved(The)' = CountSaved(The)
    BY <1>5, <1>7 DEF Settled, CountSaved, inodes
  <2> QED  BY <2>1, <2>2, <1>2, <1>3, <1>4, <1>7, <1>8, <1>9 DEF IoCovers
<1> QED  BY <1>1, <1>2, <1>7, <1>10, <1>11 DEF CountsOK, IoCounts

\* The end of a call: its file gets the length n or keeps its own, and the
\* counts stay.
LEMMA EndCounts ==
  ASSUME Inv, CountsOK, call # Idle, call' = Idle, NEW n \in Nat,
         \/ UNCHANGED inodes /\ n = din[The].size
         \/ din' = [din EXCEPT ![The].size = n] /\ DirtyIf(The, TRUE),
         Near(n, din[The].blocks),
         torn \subseteq torn' \cup {The},
         The \notin torn' => /\ Covers(n, din[The].blocks)
                             /\ UNCHANGED inodes => CountSaved(The)
  PROVE  CountsOK'
<1>1. The \in File
  BY CallFacts
<1>2. /\ \A g \in File : din'[g].blocks = din[g].blocks
      /\ \A g \in File : din'[g].size = IF g = The THEN n ELSE din[g].size
      /\ \A g \in File : ~dirty'[g] => ~dirty[g] /\ diskDin'[g].blocks = diskDin[g].blocks
      /\ ~dirty'[The] => UNCHANGED inodes /\ n = din[The].size
  <2>1. CASE UNCHANGED inodes /\ n = din[The].size
    BY <2>1 DEF inodes
  <2>2. CASE din' = [din EXCEPT ![The].size = n] /\ DirtyIf(The, TRUE)
    <3>1. din \in [File -> Inode] /\ OtherTypes
      BY TypeParts DEF Inv, TypeOK
    <3>2. /\ \A g \in File : din'[g].blocks = din[g].blocks
          /\ \A g \in File : din'[g].size = IF g = The THEN n ELSE din[g].size
      BY <2>2, <3>1, <1>1 DEF Inode
    <3>3. /\ \A g \in File : ~dirty'[g] => ~dirty[g] /\ diskDin'[g].blocks = diskDin[g].blocks
          /\ dirty'[The]
      BY <2>2, <3>1, <1>1, DirtyCounts
    <3> QED  BY <3>2, <3>3
  <2> QED  BY <2>1, <2>2
<1>3. SizesNear'
  <2>1. ASSUME NEW g \in File
        PROVE  Near(din[g].size, din[g].blocks)'
    <3>1. CASE g = The
      BY <3>1, <1>2 DEF Near
    <3>2. CASE g # The
      BY <3>2, <1>2 DEF Near, CountsOK, SizesNear, Cutting
    <3> QED  BY <3>1, <3>2
  <2> QED  BY <2>1 DEF SizesNear
<1>4. DiskNear'
  <2>1. ASSUME NEW g \in File, ~dirty'[g]
        PROVE  Near(din[g].size, diskDin[g].blocks)'
    <3>1. Near(din[g].size, diskDin[g].blocks)
      BY <2>1, <1>2 DEF CountsOK, DiskNear
    <3>2. din'[g].size = din[g].size /\ diskDin'[g].blocks = diskDin[g].blocks
      BY <2>1, <1>2
    <3> QED  BY <3>1, <3>2 DEF Near
  <2> QED  BY <2>1 DEF DiskNear
<1>5. OthersSettled'
  <2>1. ASSUME NEW g \in File, g \notin torn'
        PROVE  Settled(g)'
    <3>1. CASE g = The
      BY <2>1, <3>1, <1>2 DEF Settled, Covers, CountSaved
    <3>2. CASE g # The
      <4>1. Settled(g)
        BY <2>1, <3>2 DEF CountsOK, OthersSettled, InCall
      <4> QED  BY <4>1, <3>2, <1>2 DEF Settled, Covers, CountSaved
    <3> QED  BY <3>1, <3>2
  <2> QED  BY <2>1 DEF OthersSettled
<1> QED  BY <1>3, <1>4, <1>5 DEF CountsOK, Idle

LEMMA IoEndCounts ==
  ASSUME Inv, CountsOK, IoEnd
  PROVE  CountsOK'
<1>1. call # Idle /\ call.name \in {"read", "write"} /\ call.at = call.to
  BY RunningCall DEF IoEnd, Running
<1>2. The \in File /\ call.from \in Nat /\ call.at \in Nat
  BY <1>1, CallFacts
<1>3. PICK b \in Nat : b = din[The].blocks
  BY <1>2, CountTypes
<1>4. PICK s \in Nat : s = din[The].size
  BY <1>2, CountTypes
<1>5. IoNear /\ (The \notin torn => IoCovers)
  BY <1>1 DEF CountsOK, IoCounts
<1>6. Near(s, b) /\ Near(call.at, b)
  BY <1>1, <1>3, <1>4, <1>2, <1>5 DEF IoNear, CountsOK, SizesNear, Cutting
<1>7. call' = Idle /\ torn' = torn
  BY DEF IoEnd
<1>8. The \notin torn => /\ Covers(Greater(s, call.at), b)
                         /\ call.at <= s => CountSaved(The)
  BY <1>1, <1>2, <1>3, <1>4, <1>5 DEF IoCovers, Settled, Greater
<1>9. CASE call.at > s
  <2>1. din' = [din EXCEPT ![The].size = call.at] /\ DirtyIf(The, TRUE)
    BY <1>4, <1>9 DEF IoEnd
  <2>2. The \notin torn => Covers(call.at, b)
    BY <1>2, <1>8, <1>9 DEF Greater
  <2>3. dirty'[The]
    BY <2>1, <1>2, TypeParts, DirtyCounts DEF Inv
  <2>4. ~(UNCHANGED inodes)
    <3>1. din'[The].size = call.at
      BY <2>1, <1>2 DEF Inv, TypeOK, Inode
    <3> QED  BY <3>1, <1>2, <1>4, <1>9 DEF inodes
  <2> QED  BY <2>1, <2>2, <2>4, <1>1, <1>2, <1>3, <1>6, <1>7, EndCounts
<1>10. CASE ~(call.at > s)
  <2>1. UNCHANGED inodes
    BY <1>4, <1>10 DEF IoEnd
  <2>2. The \notin torn => Covers(s, b) /\ CountSaved(The)
    BY <1>2, <1>8, <1>10 DEF Greater
  <2>3. /\ UNCHANGED inodes /\ s = din[The].size
        /\ Near(s, din[The].blocks)
        /\ The \notin torn' => Covers(s, din[The].blocks) /\ CountSaved(The)
        /\ torn \subseteq torn' \cup {The}
    BY <2>1, <2>2, <1>3, <1>4, <1>6, <1>7
  <2> QED  BY <2>3, <1>1, <1>7, EndCounts
<1> QED  BY <1>9, <1>10

LEMMA TruncatingFacts ==
  ASSUME Inv, Truncating
  PROVE  /\ call # Idle /\ call.name \in {"seek", "open"} /\ The \in File
         /\ call.from \in Nat /\ call.to \in Nat
         /\ BlocksFor(call.to) \in Nat /\ Covers(call.to, BlocksFor(call.to))
         /\ call.name = "seek" => call.to > din[The].size
         /\ call.name = "open" => call.to = 0 /\ BlocksFor(call.to) = 0
<1>1. call # Idle /\ call.name \in {"seek", "open"}
  BY RunningCall DEF Truncating, Running
<1>2. /\ The \in File /\ call.from \in Nat /\ call.to \in Nat
      /\ call.name = "seek" => call.to > din[The].size
      /\ call.name = "open" => call.to = 0
  BY <1>1, CallFacts
<1>3. BlocksFor(call.to) \in Nat /\ Covers(call.to, BlocksFor(call.to))
  BY <1>2, BlocksForCovers
<1>4. ASSUME call.to = 0
      PROVE  BlocksFor(call.to) = 0
  <2>1. Covers(0, 0)
    BY BytesFacts, Constants DEF Covers
  <2> QED  BY <2>1, <1>3, <1>4, CoversOnce
<1> QED  BY <1>1, <1>2, <1>3, <1>4

LEMMA TruncateGrowCounts ==
  ASSUME Inv, CountsOK, TruncateGrow
  PROVE  CountsOK'
<1>1. /\ call # Idle /\ call.name \in {"seek", "open"} /\ The \in File
      /\ call.from \in Nat /\ call.to \in Nat /\ BlocksFor(call.to) \in Nat
      /\ call.name = "open" => BlocksFor(call.to) = 0
  BY TruncatingFacts DEF TruncateGrow
<1>2. PICK b \in Nat : b = din[The].blocks
  BY <1>1, CountTypes
<1>3. PICK s \in Nat : s = din[The].size
  BY <1>1, CountTypes
<1>4. b < BlocksFor(call.to) /\ call.name # "open" /\ UNCHANGED <<desc, call, torn>>
  BY <1>1, <1>2 DEF TruncateGrow
<1>5. CountStep(The, b + 1)
  BY <1>1, <1>2, AppendCounts DEF TruncateGrow
<1>6. Near(s, b + 1)
  <2>1. Near(s, b)
    BY <1>1, <1>2, <1>3, <1>4 DEF CountsOK, SizesNear, Cutting
  <2>2. Bytes(b) \in Nat /\ Bytes(b + 1) = Bytes(b) + BlkSize /\ BlkSize \in Nat
    BY BytesFacts, Constants
  <2> QED  BY <2>1, <2>2 DEF Near
<1>7. The' = The /\ SizesNear' /\ DiskNear' /\ OthersSettled'
  BY <1>1, <1>2, <1>3, <1>4, <1>5, <1>6, TurnCounts
<1>8. din'[The].blocks = b + 1
  BY <1>1, <1>5 DEF CountStep
<1>9. TruncateCounts'
  <2>1. ~(b < call.from)
    BY <1>1, <1>2, <1>4 DEF CountsOK, TruncateCounts
  <2> QED  BY <2>1, <1>1, <1>2, <1>4, <1>7, <1>8 DEF TruncateCounts, BlocksFor
<1> QED  BY <1>1, <1>4, <1>7, <1>9 DEF CountsOK

LEMMA TruncateShrinkCounts ==
  ASSUME Inv, CountsOK, TruncateShrink
  PROVE  CountsOK'
<1>1. /\ call # Idle /\ call.name \in {"seek", "open"} /\ The \in File
      /\ call.from \in Nat /\ call.to \in Nat
      /\ BlocksFor(call.to) \in Nat /\ Covers(call.to, BlocksFor(call.to))
      /\ call.name = "seek" => call.to > din[The].size
  BY TruncatingFacts DEF TruncateShrink
<1>2. PICK b \in Nat : b = din[The].blocks
  BY <1>1, CountTypes
<1>3. PICK s \in Nat : s = din[The].size
  BY <1>1, CountTypes
<1>4. /\ b > BlocksFor(call.to) /\ b > 0 /\ b - 1 \in Nat
      /\ UNCHANGED <<desc, call, torn>>
  BY <1>1, <1>2, ShrinkHasBlock DEF TruncateShrink
<1>5. CountStep(The, b - 1)
  BY <1>1, <1>2, <1>4, DropCounts DEF TruncateShrink
<1>6. call.name = "open" \/ Near(s, b - 1)
  <2>1. PICK c \in Nat : c = b - 1
    BY <1>4
  <2>2. PICK n \in Nat : n = BlocksFor(call.to)
    BY <1>1
  <2>3. n = c \/ n < c
    BY <2>1, <2>2, <1>4
  <2>4. Bytes(n) \in Nat /\ Bytes(c) \in Nat /\ Bytes(n) <= Bytes(c)
    <3>1. Bytes(n) \in Nat /\ Bytes(c) \in Nat /\ BlkSize \in Nat
      BY BytesFacts, Constants
    <3>2. n < c => Bytes(n) + BlkSize <= Bytes(c)
      BY BytesFacts
    <3> QED  BY <2>3, <3>1, <3>2
  <2> QED  BY <2>1, <2>2, <2>4, <1>1, <1>3, Constants DEF Near, Covers
<1>7. The' = The /\ SizesNear' /\ DiskNear' /\ OthersSettled'
  BY <1>1, <1>2, <1>3, <1>4, <1>5, <1>6, TurnCounts
<1>8. din'[The].blocks = b - 1
  BY <1>1, <1>5 DEF CountStep
<1>9. TruncateCounts'
  <2>1. ~(b > call.from)
    BY <1>1, <1>2, <1>4 DEF CountsOK, TruncateCounts
  <2> QED  BY <2>1, <1>1, <1>2, <1>4, <1>7, <1>8 DEF TruncateCounts, BlocksFor
<1> QED  BY <1>1, <1>4, <1>7, <1>9 DEF CountsOK

LEMMA TruncateNoRoomCounts ==
  ASSUME Inv, CountsOK, TruncateNoRoom
  PROVE  CountsOK'
<1>1. /\ call # Idle /\ call.name \in {"seek", "open"} /\ The \in File
      /\ BlocksFor(call.to) \in Nat
      /\ call.name = "open" => BlocksFor(call.to) = 0
  BY TruncatingFacts DEF TruncateNoRoom
<1>2. din[The].blocks \in Nat /\ din[The].size \in Nat
  BY <1>1, CountTypes
<1>3. UNCHANGED inodes /\ call' = Idle /\ call.name # "open"
  BY <1>1, <1>2 DEF TruncateNoRoom, NoRoom
<1>4. Near(din[The].size, din[The].blocks)
  BY <1>1, <1>3 DEF CountsOK, SizesNear, Cutting
<1>5. torn \subseteq torn' /\ (The \notin torn' => din[The].blocks = call.from)
  BY DEF TruncateNoRoom
<1>6. The \notin torn' => Settled(The)
  BY <1>1, <1>5 DEF CountsOK, TruncateCounts
<1> QED  BY <1>1, <1>2, <1>3, <1>4, <1>5, <1>6, EndCounts DEF Settled

LEMMA TruncateEndCounts ==
  ASSUME Inv, CountsOK, TruncateEnd
  PROVE  CountsOK'
<1>1. /\ call # Idle /\ The \in File /\ call.to \in Nat
      /\ BlocksFor(call.to) \in Nat /\ Covers(call.to, BlocksFor(call.to))
  BY TruncatingFacts DEF TruncateEnd
<1>2. /\ din[The].blocks = BlocksFor(call.to) /\ call' = Idle /\ torn' = torn \ {The}
      /\ din' = [din EXCEPT ![The].size = call.to] /\ DirtyIf(The, TRUE)
  BY DEF TruncateEnd
<1>3. Near(call.to, din[The].blocks) /\ Covers(call.to, din[The].blocks)
  BY <1>1, <1>2, BytesFacts, Constants DEF Near, Covers
<1>4. dirty'[The]
  BY <1>1, <1>2, TypeParts, DirtyCounts DEF Inv
<1>5. UNCHANGED inodes => CountSaved(The)
  BY <1>4 DEF CountSaved, inodes
<1> QED  BY <1>1, <1>2, <1>3, <1>5, EndCounts

\* A step of an idle kernel that changes no inode.
LEMMA IdleCounts ==
  ASSUME Inv, CountsOK, call = Idle, UNCHANGED <<inodes, torn>>
  PROVE  /\ DiskNear'
         /\ \A f \in File : Near(din[f].size, din[f].blocks)'
         /\ \A f \in File \ torn : Settled(f)'
<1>1. DiskNear'
  BY DEF CountsOK, DiskNear, Near, inodes
<1>2. ASSUME NEW f \in File
      PROVE  Near(din[f].size, din[f].blocks)'
  BY DEF CountsOK, SizesNear, Cutting, Idle, Near, inodes
<1>3. ASSUME NEW f \in File \ torn
      PROVE  Settled(f)'
  BY DEF CountsOK, OthersSettled, InCall, Settled, Covers, CountSaved, inodes
<1> QED  BY <1>1, <1>2, <1>3

LEMMA StartIoCounts ==
  ASSUME Inv, CountsOK, NEW d \in Desc, NEW name \in {"read", "write"}, NEW to \in Nat,
         Ready, Opened(d), desc[d].pos < to, StartIo(name, d, to)
  PROVE  CountsOK'
<1>1. /\ call = Idle /\ UNCHANGED <<inodes, torn, desc>>
      /\ call' = [name |-> name, d |-> d, from |-> desc[d].pos, at |-> desc[d].pos, to |-> to]
  BY DEF Ready, StartIo
<1>2. desc[d].file \in File /\ desc[d].pos \in Nat /\ The' = desc[d].file
  BY <1>1 DEF Opened, Inv, TypeOK, The
<1>3. /\ DiskNear'
      /\ \A f \in File : Near(din[f].size, din[f].blocks)'
      /\ \A f \in File \ torn : Settled(f)'
  BY <1>1, IdleCounts
<1>4. SizesNear' /\ OthersSettled'
  BY <1>1, <1>3 DEF SizesNear, OthersSettled
<1>5. call'.from = desc[d].pos /\ call'.at = desc[d].pos /\ call'.to = to /\ call'.name = name
  BY <1>1
<1>6. IoNear'
  <2>1. ASSUME desc[d].pos <= din'[desc[d].file].size
        PROVE  Near(desc[d].pos, din'[desc[d].file].blocks)
    <3>1. /\ din'[desc[d].file].size \in Nat
          /\ Bytes(din'[desc[d].file].blocks) \in Nat /\ BlkSize \in Nat
      BY <1>1, <1>2, CountTypes, Constants DEF inodes
    <3> QED  BY <3>1, <2>1, <1>2, <1>3 DEF Near
  <2> QED  BY <2>1, <1>2, <1>5 DEF IoNear
<1>7. ASSUME The' \notin torn'
      PROVE  IoCovers'
  BY <1>1, <1>2, <1>3, <1>5, <1>7 DEF IoCovers
<1> QED  BY <1>3, <1>4, <1>5, <1>6, <1>7 DEF CountsOK, IoCounts

LEMMA ReadCounts ==
  ASSUME Inv, CountsOK, NEW d \in Desc, Read(d)
  PROVE  CountsOK'
<1>1. PICK n \in Len : StartIo("read", d, Lesser(desc[d].pos + n, din[desc[d].file].size))
  BY DEF Read
<1>2. /\ desc[d].file \in File /\ desc[d].pos \in Nat /\ Opened(d) /\ Ready
      /\ desc[d].pos < din[desc[d].file].size
  BY DEF Inv, TypeOK, Opened, Read
<1>3. din[desc[d].file].size \in Nat /\ n \in Nat \ {0}
  BY <1>2, CountTypes, Constants
<1> DEFINE to == Lesser(desc[d].pos + n, din[desc[d].file].size)
<1>4. to \in Nat /\ desc[d].pos < to
  BY <1>2, <1>3 DEF Lesser
<1> HIDE DEF to
<1> QED  BY <1>1, <1>2, <1>4, StartIoCounts DEF to

LEMMA WriteCounts ==
  ASSUME Inv, CountsOK, NEW d \in Desc, Write(d)
  PROVE  CountsOK'
<1>1. PICK n \in Len : StartIo("write", d, Lesser(desc[d].pos + n, MaxFileSize))
  BY DEF Write
<1>2. desc[d].pos \in Nat /\ Opened(d) /\ Ready /\ desc[d].pos < MaxFileSize
  BY DEF Inv, TypeOK, Opened, Write
<1>3. MaxFileSize \in Nat /\ n \in Nat \ {0}
  BY Constants
<1> DEFINE to == Lesser(desc[d].pos + n, MaxFileSize)
<1>4. to \in Nat /\ desc[d].pos < to
  BY <1>2, <1>3 DEF Lesser
<1> HIDE DEF to
<1> QED  BY <1>1, <1>2, <1>4, StartIoCounts DEF to

LEMMA StartTruncateCounts ==
  ASSUME Inv, CountsOK, call = Idle, UNCHANGED <<inodes, torn>>,
         NEW name \in {"seek", "open"}, NEW d \in Desc, NEW n, desc'[d].file \in File,
         StartTruncate(name, d, n)
  PROVE  CountsOK'
<1>1. /\ DiskNear'
      /\ \A f \in File : Near(din[f].size, din[f].blocks)'
      /\ \A f \in File \ torn : Settled(f)'
  BY IdleCounts
<1>2. SizesNear' /\ OthersSettled'
  BY <1>1 DEF SizesNear, OthersSettled
<1>3. call'.name = name /\ call'.d = d /\ call'.from = din[desc'[d].file].blocks
  BY DEF StartTruncate
<1>4. The' = desc'[d].file /\ din' = din /\ din[desc'[d].file].blocks \in Nat
  BY <1>3, CountTypes DEF The, inodes
<1>5. TruncateCounts'
  BY <1>1, <1>3, <1>4 DEF TruncateCounts
<1> QED  BY <1>1, <1>2, <1>3, <1>5 DEF CountsOK

LEMMA StayIdleCounts ==
  ASSUME Inv, CountsOK, call = Idle, call' = Idle, UNCHANGED <<inodes, torn>>
  PROVE  CountsOK'
<1>1. /\ DiskNear'
      /\ \A f \in File : Near(din[f].size, din[f].blocks)'
      /\ \A f \in File \ torn : Settled(f)'
  BY IdleCounts
<1>2. call'.name = "none"
  BY DEF Idle
<1> QED  BY <1>1, <1>2 DEF CountsOK, SizesNear, OthersSettled

LEMMA SeekCounts ==
  ASSUME Inv, CountsOK, NEW d \in Desc, Seek(d)
  PROVE  CountsOK'
<1>1. call = Idle /\ UNCHANGED <<inodes, torn>> /\ desc[d].file \in File
  BY DEF Seek, Ready, Opened, Inv, TypeOK
<1>2. \/ \E p \in Position : UNCHANGED desc /\ StartTruncate("seek", d, p)
      \/ UNCHANGED call
  BY DEF Seek
<1>3. CASE \E p \in Position : UNCHANGED desc /\ StartTruncate("seek", d, p)
  <2>1. PICK p \in Position : UNCHANGED desc /\ StartTruncate("seek", d, p)
    BY <1>3
  <2> QED  BY <2>1, <1>1, StartTruncateCounts
<1>4. CASE UNCHANGED call
  BY <1>1, <1>4, StayIdleCounts
<1> QED  BY <1>2, <1>3, <1>4

LEMMA OpenCounts ==
  ASSUME Inv, CountsOK, NEW d \in Desc, NEW f \in File, Open(d, f) \/ OpenTruncating(d, f)
  PROVE  CountsOK'
<1>1. call = Idle /\ UNCHANGED <<inodes, torn>>
  BY DEF Open, OpenTruncating, Ready
<1>2. CASE UNCHANGED call
  BY <1>1, <1>2, StayIdleCounts
<1>3. CASE OpenTruncating(d, f) /\ din[f].size # 0
  <2>1. desc'[d].file = f /\ StartTruncate("open", d, 0)
    BY <1>3 DEF OpenTruncating, Inv, TypeOK
  <2> QED  BY <2>1, <1>1, StartTruncateCounts
<1> QED  BY <1>2, <1>3 DEF Open, OpenTruncating

\* An inode that is written, or leaves the memory and is read again.
LEMMA SaveCounts ==
  ASSUME Inv, CountsOK, NEW f \in File, call = Idle, call' = Idle, torn' = torn,
         diskDin' = Saved(f), dirty' = [dirty EXCEPT ![f] = FALSE],
         din' = din \/ din' = [din EXCEPT ![f] = Saved(f)[f]]
  PROVE  CountsOK'
<1>1. dirty \in [File -> BOOLEAN] /\ diskDin \in [File -> Inode] /\ din \in [File -> Inode]
  BY DEF Inv, TypeOK
<1>2. /\ \A g \in File : Near(din[g].size, din[g].blocks)
      /\ \A g \in File : dirty[g] \/ Near(din[g].size, diskDin[g].blocks)
      /\ \A g \in File \ torn : Settled(g)
  BY DEF CountsOK, SizesNear, Cutting, DiskNear, OthersSettled, InCall, Idle
<1>3. \A g \in File : g # f => /\ diskDin'[g] = diskDin[g] /\ dirty'[g] = dirty[g]
                               /\ din'[g] = din[g]
  BY <1>1, SavedReads
<1>4. /\ din'[f].size = din[f].size
      /\ din'[f].blocks \in {din[f].blocks, diskDin'[f].blocks}
      /\ diskDin'[f].blocks = IF dirty[f] THEN din[f].blocks ELSE diskDin[f].blocks
  <2>1. Saved(f)[f].size = din[f].size
    BY SavedReads
  <2>2. diskDin'[f].blocks = IF dirty[f] THEN din[f].blocks ELSE diskDin[f].blocks
    BY <1>1 DEF Saved
  <2> QED  BY <2>1, <2>2, <1>1
<1>5. Near(din[f].size, din'[f].blocks) /\ Near(din[f].size, diskDin'[f].blocks)
  BY <1>2, <1>4
<1>6. f \notin torn => /\ din'[f].blocks = din[f].blocks
                       /\ diskDin'[f].blocks = din[f].blocks
  BY <1>2, <1>4 DEF Settled, CountSaved
<1>7. SizesNear' /\ DiskNear'
  BY <1>2, <1>3, <1>4, <1>5 DEF SizesNear, DiskNear, Near
<1>8. OthersSettled'
  BY <1>2, <1>3, <1>4, <1>6 DEF OthersSettled, Settled, Covers, CountSaved
<1> QED  BY <1>7, <1>8 DEF CountsOK, Idle

LEMMA FsyncCloseCounts ==
  ASSUME Inv, CountsOK, NEW d \in Desc, Fsync(d) \/ Close(d)
  PROVE  CountsOK'
<1>1. desc[d].file \in File /\ call = Idle /\ call' = Idle /\ torn' = torn
  BY DEF Fsync, Close, Ready, Opened, Inv, TypeOK
<1>2. CASE UNCHANGED inodes
  BY <1>1, <1>2, StayIdleCounts
<1>3. CASE ~(UNCHANGED inodes)
  <2>1. /\ diskDin' = Saved(desc[d].file)
        /\ dirty' = [dirty EXCEPT ![desc[d].file] = FALSE]
        /\ din' = din \/ din' = [din EXCEPT ![desc[d].file] = Saved(desc[d].file)[desc[d].file]]
    BY <1>3 DEF Fsync, Close
  <2> QED  BY <2>1, <1>1, SaveCounts
<1> QED  BY <1>2, <1>3

LEMMA UnchangedCounts ==
  ASSUME CountsOK, UNCHANGED <<inodes, desc, call, torn>>
  PROVE  CountsOK'
<1>1. The' = The
  BY DEF The
<1>2. /\ \A f : Settled(f)' = Settled(f)
      /\ \A f : CountSaved(f)' = CountSaved(f)
      /\ \A f : InCall(f)' = InCall(f)
      /\ \A f : Cutting(f)' = Cutting(f)
  BY <1>1 DEF Settled, Covers, CountSaved, InCall, Cutting, inodes
<1>3. SizesNear' /\ DiskNear' /\ OthersSettled'
  BY <1>2 DEF CountsOK, SizesNear, DiskNear, OthersSettled, Near, inodes
<1>4. IoCounts' = IoCounts
  BY <1>1, <1>2 DEF IoCounts, IoNear, IoCovers, Near, Covers, inodes
<1>5. TruncateCounts' = TruncateCounts
  BY <1>1, <1>2 DEF TruncateCounts, BlocksFor, inodes
<1> QED  BY <1>3, <1>4, <1>5 DEF CountsOK

LEMMA InitCounts == Init => CountsOK
<1> SUFFICES ASSUME Init PROVE CountsOK
  OBVIOUS
<1>1. \A f \in File : din[f].size = 0 /\ din[f].blocks = 0 /\ diskDin[f].blocks = 0
  BY DEF Init, EmptyInode
<1>2. Bytes(0) = 0 /\ BlkSize \in Nat \ {0}
  BY BytesFacts, Constants
<1>3. Covers(0, 0) /\ Near(0, 0)
  BY <1>2 DEF Covers, Near
<1> QED  BY <1>1, <1>3 DEF Init, CountsOK, SizesNear, DiskNear, OthersSettled, Settled, CountSaved, Idle

LEMMA NextCounts == Inv /\ CountsOK /\ [Next]_vars => CountsOK'
<1> SUFFICES ASSUME Inv, CountsOK, [Next]_vars PROVE CountsOK'
  OBVIOUS
<1>1. CASE UNCHANGED vars \/ Cleanup \/ Mount \/ IoPanic \/ TruncatePanic
  BY <1>1, UnchangedCounts DEF vars, Cleanup, Mount, IoPanic, TruncatePanic, Panic
<1>2. ASSUME NEW d \in Desc, Read(d) \/ Write(d) \/ Seek(d) \/ Fsync(d) \/ Close(d)
      PROVE  CountsOK'
  BY <1>2, ReadCounts, WriteCounts, SeekCounts, FsyncCloseCounts
<1>3. ASSUME NEW d \in Desc, NEW f \in File, Open(d, f) \/ OpenTruncating(d, f)
      PROVE  CountsOK'
  BY <1>3, OpenCounts
<1>4. CASE IoBlock
  <2>1. CASE BlockOf(The, Blk) = NoBlock
    BY <1>4, <2>1, UnchangedCounts DEF IoBlock, Panic
  <2>2. CASE BlockOf(The, Blk) # NoBlock
    BY <1>4, <2>2, IoBlockCounts DEF IoBlock
  <2> QED  BY <2>1, <2>2
<1>5. CASE IoNewBlock \/ IoNoRoom \/ IoEnd
  BY <1>5, IoNewBlockCounts, IoNoRoomCounts, IoEndCounts
<1>6. CASE TruncateGrow \/ TruncateNoRoom \/ TruncateShrink \/ TruncateEnd
  BY <1>6, TruncateGrowCounts, TruncateNoRoomCounts, TruncateShrinkCounts, TruncateEndCounts
<1> QED  BY <1>1, <1>2, <1>3, <1>4, <1>5, <1>6 DEF Next

(* The theorems about the counts. *)

\* The invariant of the counts holds in every state, with the one of the map.
THEOREM Counting == Spec => [](Inv /\ CountsOK)
BY InitInv, NextInv, InitCounts, NextCounts, PTL DEF Spec

\* Between calls every file has just the blocks its length needs, however
\* reads, writes, seeks, truncations, saves and reloads of stale counts follow
\* one another, unless a call has run out of disk half way.
THEOREM FilesFit == Spec => []BlocksFit
<1>1. Inv /\ CountsOK => BlocksFit
  <2> SUFFICES ASSUME Inv, CountsOK, NEW f \in File
               PROVE  /\ \A i \in 0..din[f].blocks - 1 : BlockOf(f, i) # NoBlock
                      /\ call = Idle /\ panic = "none" /\ f \notin torn => Fits(f)
    BY DEF BlocksFit
  <2>1. \A i \in 0..din[f].blocks - 1 : BlockOf(f, i) # NoBlock
    BY DEF Inv, MapOK, NoHole
  <2>2. call = Idle /\ f \notin torn => Fits(f)
    BY DEF CountsOK, OthersSettled, InCall, Settled, Covers, Bytes, Fits
  <2> QED  BY <2>1, <2>2
<1> QED  BY <1>1, Counting, PTL

\* sfs_bmap_load_nolock and sfs_bmap_get_nolock stop a read or a write.
LEMMA IoPanicCause ==
  ASSUME Inv, CountsOK, IoPanic
  PROVE  PanicCause'
<1>1. UNCHANGED <<inodes, desc, call, torn>> /\ The' = The /\ din' = din
  BY DEF IoPanic, Panic, The, inodes
<1>2. /\ call.name \in {"read", "write"} /\ The \in File
      /\ call.from \in Nat /\ call.at \in Nat
      /\ Blk \in Nat /\ Bytes(Blk) \in Nat /\ Bytes(Blk) <= call.at
  BY BlkFacts DEF IoPanic
<1>3. din[The].size \in Nat /\ din[The].blocks \in Nat /\ Bytes(din[The].blocks) \in Nat
  BY <1>2, CountTypes
<1>4. CASE Blk > din[The].blocks
  <2>1. Bytes(din[The].blocks) + BlkSize <= Bytes(Blk)
    BY <1>2, <1>3, <1>4, BytesFacts
  <2>2. ~Near(call.at, din[The].blocks)
    BY <2>1, <1>2, <1>3, Constants DEF Near
  <2>3. call.from > din[The].size
    BY <2>2, <1>2, <1>3 DEF CountsOK, IoCounts, IoNear
  <2>4. Blk # din[The].blocks
    BY <1>2, <1>3, <1>4
  <2>5. panic' = "assert index <= blocks"
    BY <2>4 DEF IoPanic, Panic
  <2> QED  BY <2>3, <2>5, <1>1 DEF PanicCause
<1>5. CASE ~(Blk > din[The].blocks)
  <2>1. Blk = din[The].blocks /\ ~InRange(Blk) /\ panic' = "index out of range"
    BY <1>5 DEF IoPanic, Panic
  <2>2. din[The].blocks <= NDirect + NEntry
    BY <1>2 DEF Inv, MapOK, BlocksInRange
  <2>3. PICK b \in Nat : b = din[The].blocks
    BY <1>3
  <2>4. b <= NDirect + NEntry /\ ~(b < NDirect + NEntry) /\ NDirect \in Nat /\ NEntry \in Nat
    BY <2>1, <2>2, <2>3, Constants DEF InRange
  <2>5. b = NDirect + NEntry
    BY <2>4
  <2> QED  BY <2>1, <2>3, <2>5, <1>1 DEF PanicCause
<1> QED  BY <1>4, <1>5

LEMMA TruncatePanicCause ==
  ASSUME Inv, TruncatePanic
  PROVE  PanicCause'
<1>1. The' = The /\ din' = din /\ panic' = "index out of range" /\ ~InRange(din[The].blocks)
  BY DEF TruncatePanic, Panic, The, inodes
<1>2. The \in File /\ din[The].blocks \in Nat
  BY TruncatingFacts, CountTypes DEF TruncatePanic
<1>3. din[The].blocks <= NDirect + NEntry
  BY <1>2 DEF Inv, MapOK, BlocksInRange
<1>4. PICK b \in Nat : b = din[The].blocks
  BY <1>2
<1>5. b <= NDirect + NEntry /\ ~(b < NDirect + NEntry) /\ NDirect \in Nat /\ NEntry \in Nat
  BY <1>1, <1>3, <1>4, Constants DEF InRange
<1>6. b = NDirect + NEntry
  BY <1>5
<1> QED  BY <1>1, <1>4, <1>6 DEF PanicCause

\* sfs_truncfile of a file of length 0 asserts that it has no block.
LEMMA OpenPanicCause ==
  ASSUME Inv, CountsOK, panic = "none", NEW d \in Desc, NEW f \in File, OpenTruncating(d, f)
  PROVE  PanicCause'
<1>1. CASE panic' = panic
  BY <1>1 DEF PanicCause
<1>2. CASE panic' # panic
  <2>1. din[f].size = 0 /\ ~Exact(f) /\ panic' = "assert tblks == blocks" /\ torn' = torn
        /\ call = Idle
    BY <1>2 DEF OpenTruncating, Ready
  <2>2. ASSUME f \notin torn
        PROVE  FALSE
    <3>1. Covers(0, din[f].blocks) /\ din[f].blocks \in Nat
      BY <2>1, <2>2, CountTypes DEF CountsOK, OthersSettled, InCall, Settled
    <3>2. 0 \in Nat /\ BlocksFor(0) \in Nat /\ Covers(0, BlocksFor(0))
      BY BlocksForCovers
    <3>3. din[f].blocks = BlocksFor(0)
      BY <3>1, <3>2, CoversOnce
    <3> QED  BY <3>3, <2>1 DEF Exact
  <2> QED  BY <2>1, <2>2 DEF PanicCause
<1> QED  BY <1>1, <1>2

LEMMA NextPanicCause == Inv /\ CountsOK /\ PanicCause /\ [Next]_vars => PanicCause'
<1> SUFFICES ASSUME Inv, CountsOK, PanicCause, [Next]_vars PROVE PanicCause'
  OBVIOUS
<1>1. CASE UNCHANGED vars \/ Mount
  <2>1. UNCHANGED <<inodes, desc, call, torn, panic>>
    BY <1>1 DEF vars, Mount
  <2>2. The' = The
    BY <2>1 DEF The
  <2> QED  BY <2>1, <2>2 DEF PanicCause, inodes
<1>2. CASE IoPanic \/ TruncatePanic
  BY <1>2, IoPanicCause, TruncatePanicCause
<1>3. ASSUME NEW d \in Desc, NEW f \in File, OpenTruncating(d, f) PROVE PanicCause'
  <2>1. panic = "none"
    BY <1>3 DEF OpenTruncating, Ready
  <2> QED  BY <2>1, <1>3, OpenPanicCause
<1>4. CASE IoBlock
  <2>1. BlockOf(The, Blk) # NoBlock
    <3>1. The \in File /\ Blk \in Nat /\ Blk < din[The].blocks
      BY <1>4, BlkFacts DEF IoBlock
    <3>2. din[The].blocks \in Nat
      BY <3>1, CountTypes
    <3>3. Blk \in 0..din[The].blocks - 1
      BY <3>1, <3>2
    <3> QED  BY <3>1, <3>3 DEF Inv, MapOK, NoHole
  <2>2. panic' = "none"
    BY <1>4, <2>1 DEF IoBlock, Transferring, Running
  <2> QED  BY <2>2 DEF PanicCause
<1>5. ASSUME NEW d \in Desc, Read(d) \/ Write(d) \/ Seek(d) \/ Fsync(d) \/ Close(d)
      PROVE  PanicCause'
  <2>1. panic' = "none"
    BY <1>5 DEF Read, Write, Seek, Fsync, Close, StartIo, Ready
  <2> QED  BY <2>1 DEF PanicCause
<1>6. ASSUME NEW d \in Desc, NEW f \in File, Open(d, f) PROVE PanicCause'
  <2>1. panic' = "none"
    BY <1>6 DEF Open, Ready
  <2> QED  BY <2>1 DEF PanicCause
<1>7. CASE \/ IoNewBlock \/ IoNoRoom \/ IoEnd \/ Cleanup
           \/ TruncateGrow \/ TruncateNoRoom \/ TruncateShrink \/ TruncateEnd
  <2>1. panic' = "none"
    BY <1>7 DEF IoNewBlock, IoNoRoom, IoEnd, Cleanup, TruncateGrow, TruncateNoRoom,
                TruncateShrink, TruncateEnd, Transferring, Truncating, Running, Ready
  <2> QED  BY <2>1 DEF PanicCause
<1> QED  BY <1>1, <1>2, <1>3, <1>4, <1>5, <1>6, <1>7 DEF Next

\* The kernel stops on a file only if its position was cut off through another
\* descriptor, if a call before ran out of disk, or if the inode is full.
THEOREM PanicsHaveCause == Spec => []PanicCause
<1>1. Init => PanicCause
  BY DEF Init, PanicCause
<1> QED  BY <1>1, NextPanicCause, Counting, PTL DEF Spec

=============================================================================
