-------------------------------- MODULE Sfs --------------------------------
(* The blocks of the simple file system: the inodes in memory and on disk, *)
(* the direct and the indirect blocks of a file, the free map, and the     *)
(* calls that read, write, seek in, truncate, sync and close a file        *)
(* (kern/fs/sfs).  The system calls run with interrupts off and the disk   *)
(* is polled, so one call runs at a time; each turn of its loop over the   *)
(* blocks is a step here.  An assertion that fails stops the kernel:       *)
(* "panic" then names it.  The contents of data blocks are left out, and   *)
(* the files are those of the disk image: sfs creates and removes none.    *)
EXTENDS Naturals, FiniteSets

CONSTANTS
  File,           \* the regular files of the image
  Desc,           \* file descriptors, of all processes
  NoFile,         \* the file of a descriptor that is not open
  Block,          \* the numbers of the blocks that files may take
  NDirect,        \* SFS_NDIRECT: block pointers in an inode
  NEntry,         \* SFS_BLK_NENTRY: block pointers in an indirect block
  BlkSize,        \* SFS_BLKSIZE
  MaxFileSize,    \* SFS_MAX_FILE_SIZE
  Len,            \* the bytes file_read or file_write is asked for: a part of a user's call
  Position        \* the positions a user seeks

NoBlock == 0

ASSUME SfsAssumption ==
  /\ NoFile \notin File
  /\ Block \subseteq Nat \ {NoBlock}
  /\ IsFiniteSet(Block)
  /\ {NDirect, NEntry, BlkSize, MaxFileSize} \cup Len \subseteq Nat \ {0}
  /\ \A n \in Len : n <= BlkSize      \* IOBUF_SIZE = SFS_BLKSIZE: sysfile_write cuts longer ones
  /\ Position \subseteq Nat

VARIABLES
  din,            \* the inode of every file, as in memory or as sfs_load_inode would read it
  dirty,          \* sin->dirty
  freemap,        \* the blocks whose bit in the free map is set
  superDirty,     \* sfs->super_dirty
  entry,          \* the pointers in an indirect block; on disk, written through
  diskDin,        \* the inodes on disk
  diskFree,       \* the free map on disk
  desc,           \* the open file and the position of every descriptor
  call,           \* the call that is running, or Idle
  torn,           \* files left by a call that ran out of blocks half way
  mode,           \* "up", or "down" between a clean shutdown and the next boot
  panic           \* the assertion that stopped the kernel, or "none"

inodes == <<din, dirty, diskDin>>
blocks == <<freemap, superDirty, entry, diskFree>>
vars == <<inodes, blocks, desc, call, torn, mode, panic>>

Pointer == Block \cup {NoBlock}
Inode == [size : Nat, blocks : Nat,
          direct : [0..NDirect - 1 -> Pointer], indirect : Pointer]
EmptyInode == [size |-> 0, blocks |-> 0,
               direct |-> [i \in 0..NDirect - 1 |-> NoBlock], indirect |-> NoBlock]
Zeros == [i \in 0..NEntry - 1 |-> NoBlock]
Closed == [file |-> NoFile, pos |-> 0]
Idle == [name |-> "none", d |-> NoFile, from |-> 0, at |-> 0, to |-> 0]

Init ==
  /\ din = [f \in File |-> EmptyInode]
  /\ dirty = [f \in File |-> FALSE]
  /\ freemap = Block
  /\ superDirty = FALSE
  /\ entry = [b \in Block |-> Zeros]
  /\ diskDin = din
  /\ diskFree = Block
  /\ desc = [d \in Desc |-> Closed]
  /\ call = Idle
  /\ torn = {}
  /\ mode = "up"
  /\ panic = "none"

Ready == mode = "up" /\ panic = "none" /\ call = Idle
Running(names) == panic = "none" /\ call.name \in names
Panic(what) ==
  /\ panic' = what
  /\ UNCHANGED <<inodes, blocks, desc, call, torn, mode>>

Opened(d) == desc[d].file # NoFile
OpenFiles == {desc[d].file : d \in {c \in Desc : Opened(c)}}
The == desc[call.d].file                   \* the file of the running call
BlocksForWhole(n) == n \div BlkSize           \* a mutant: rounded down
BlocksFor(n) == (n + BlkSize - 1) \div BlkSize
Lesser(m, n) == IF m < n THEN m ELSE n

-----------------------------------------------------------------------------
(* The map from the blocks of a file to the blocks of the disk. *)

\* sfs_bmap_get_nolock without create: the disk block of the i-th block of f.
BlockOf(f, i) ==
  IF i < NDirect THEN din[f].direct[i]
  ELSE IF din[f].indirect = NoBlock THEN NoBlock
  ELSE entry[din[f].indirect][i - NDirect]

InRangeEntries(i) == i < NEntry              \* a mutant: NDirect not taken off first
InRange(i) == i < NDirect + NEntry

LacksEntryBlock(f, i) == i >= NDirect /\ din[f].indirect = NoBlock

\* The blocks that must be allocated before f has an i-th block.
Missing(f, i) ==
  IF LacksEntryBlock(f, i) THEN 2 ELSE IF BlockOf(f, i) = NoBlock THEN 1 ELSE 0

Room(f, i) == Missing(f, i) <= Cardinality(freemap)

GivenNothing(f, i, e) == {}                  \* a mutant: the error path frees nothing

\* Of the two allocations for the first indirect block the second may fail:
\* the block taken for the entries is then given back.
GivenBack(f, i, e) == {e}

\* The entries of a new indirect block start as zeros, as sfs_block_alloc
\* clears what it returns.
Entries(f) == IF din[f].indirect = NoBlock THEN Zeros ELSE entry[din[f].indirect]

\* What the disk holds of a dirty inode, or of a free map that has changed, is
\* left out: it is written again before it is read.
Outdated == EmptyInode

\* din->blocks is counted in memory; sfs marks the inode dirty only when one
\* of the pointers in it changes.
DirtyIf(f, changed) ==
  /\ dirty' = [dirty EXCEPT ![f] = @ \/ changed]
  /\ diskDin' = IF changed THEN [diskDin EXCEPT ![f] = Outdated] ELSE diskDin

SuperDirtyIf(changed) ==
  /\ superDirty' = (superDirty \/ changed)
  /\ diskFree' = IF changed THEN {} ELSE diskFree

\* bitmap_alloc finds the free block with the least number.
Least(free) == {b \in free : \A c \in free : b <= c}

\* The disk block that becomes the i-th block of f: one from the free map,
\* or one that the entries name already.
Found(f, i, free) == IF BlockOf(f, i) = NoBlock THEN Least(free) ELSE {BlockOf(f, i)}
EntryBlocks(f, i) == IF LacksEntryBlock(f, i) THEN Least(freemap) ELSE {din[f].indirect}

\* sfs_bmap_load_nolock for the block behind the last one: f gets one more.
AppendDirect(f, i) ==
  /\ i < NDirect
  /\ \E b \in Found(f, i, freemap) :
       /\ din' = [din EXCEPT ![f].direct[i] = b, ![f].blocks = @ + 1]
       /\ freemap' = freemap \ {b}
  /\ DirtyIf(f, BlockOf(f, i) = NoBlock)
  /\ UNCHANGED entry

AppendIndirect(f, i) ==
  /\ i >= NDirect
  /\ \E e \in EntryBlocks(f, i) : \E b \in Found(f, i, freemap \ {e}) :
       /\ din' = [din EXCEPT ![f].indirect = e, ![f].blocks = @ + 1]
       /\ entry' = [entry EXCEPT ![e] = [Entries(f) EXCEPT ![i - NDirect] = b]]
       /\ freemap' = freemap \ {e, b}
  /\ DirtyIf(f, LacksEntryBlock(f, i))

AppendBlock(f, i) ==
  /\ Room(f, i)
  /\ AppendDirect(f, i) \/ AppendIndirect(f, i)
  /\ SuperDirtyIf(Missing(f, i) > 0)

NoRoom(f, i) ==
  /\ ~Room(f, i)
  /\ IF LacksEntryBlock(f, i) /\ freemap # {}
     THEN /\ \E e \in Least(freemap) : freemap' = (freemap \ {e}) \cup GivenBack(f, i, e)
          /\ SuperDirtyIf(TRUE)
     ELSE UNCHANGED <<freemap, superDirty, diskFree>>
  /\ UNCHANGED <<inodes, entry>>

\* sfs_bmap_truncate_nolock: the last block of f is freed and its pointer cleared.
ClearDirect(f, i) ==
  /\ i < NDirect
  /\ din' = [din EXCEPT ![f].direct[i] = NoBlock, ![f].blocks = @ - 1]
  /\ UNCHANGED entry

ClearEntryLater(f, i) == UNCHANGED entry      \* a mutant: the pointer stays behind
ClearEntry(f, i) == entry' = [entry EXCEPT ![din[f].indirect][i - NDirect] = NoBlock]

ClearIndirect(f, i) ==
  /\ i >= NDirect
  /\ din' = [din EXCEPT ![f].blocks = @ - 1]
  /\ ClearEntry(f, i)

DropBlock(f, i) ==
  /\ ClearDirect(f, i) \/ ClearIndirect(f, i)
  /\ DirtyIf(f, TRUE)
  /\ freemap' = freemap \cup {BlockOf(f, i)}
  /\ SuperDirtyIf(TRUE)

-----------------------------------------------------------------------------
(* sfs_io_nolock: a read or a write, block by block. *)

StartIo(name, d, to) ==
  /\ call' = [name |-> name, d |-> d, from |-> desc[d].pos, at |-> desc[d].pos, to |-> to]
  /\ UNCHANGED <<inodes, blocks, desc, torn, mode, panic>>

Read(d) ==
  /\ Ready /\ Opened(d)
  /\ desc[d].pos < din[desc[d].file].size
  /\ \E n \in Len :
       StartIo("read", d, Lesser(desc[d].pos + n, din[desc[d].file].size))

Write(d) ==
  /\ Ready /\ Opened(d)
  /\ desc[d].pos < MaxFileSize
  /\ \E n \in Len : StartIo("write", d, Lesser(desc[d].pos + n, MaxFileSize))

Blk == call.at \div BlkSize                \* blkno

\* The position behind the part of the call that lies in block Blk.
NextAt == Lesser((Blk + 1) * BlkSize, call.to)

Transferring == Running({"read", "write"}) /\ call.at < call.to

Advance == call' = [call EXCEPT !.at = NextAt]

IoBlock ==
  /\ Transferring /\ Blk < din[The].blocks
  /\ IF BlockOf(The, Blk) = NoBlock
     THEN Panic("sfs_block_inuse: out of range")
     ELSE /\ Advance
          /\ UNCHANGED <<inodes, blocks, desc, torn, mode, panic>>

IoNewBlock ==
  /\ Transferring /\ Blk = din[The].blocks /\ InRange(Blk)
  /\ AppendBlock(The, Blk)
  /\ Advance
  /\ UNCHANGED <<desc, torn, mode, panic>>

\* The disk is full: the loop ends with what it has done so far.
IoNoRoom ==
  /\ Transferring /\ Blk = din[The].blocks /\ InRange(Blk)
  /\ NoRoom(The, Blk)
  /\ call' = [call EXCEPT !.to = call.at]
  /\ torn' = IF call.at = call.from /\ call.from > din[The].size
             THEN torn \cup {The} ELSE torn
  /\ UNCHANGED <<desc, mode, panic>>

IoPanic ==
  /\ Transferring
  /\ \/ Blk > din[The].blocks /\ Panic("assert index <= blocks")
     \/ Blk = din[The].blocks /\ ~InRange(Blk) /\ Panic("index out of range")

\* The label out, and what file_read and file_write do with the result.
IoEnd ==
  /\ Running({"read", "write"}) /\ call.at = call.to
  /\ IF call.at > din[The].size
     THEN /\ din' = [din EXCEPT ![The].size = call.at]
          /\ DirtyIf(The, TRUE)
     ELSE UNCHANGED inodes
  /\ desc' = [desc EXCEPT ![call.d].pos = call.at]
  /\ call' = Idle
  /\ UNCHANGED <<blocks, torn, mode, panic>>

-----------------------------------------------------------------------------
(* sfs_truncfile, for a seek behind the end and for an open that truncates. *)

StartTruncate(name, d, len) ==
  call' = [name |-> name, d |-> d, from |-> din[desc'[d].file].blocks, at |-> 0, to |-> len]

Exact(f) == din[f].blocks = BlocksFor(din[f].size)

\* file_seek: a position behind the end makes sfs_tryseek extend the file.
Seek(d) ==
  /\ Ready /\ Opened(d)
  /\ \E p \in Position :
       /\ p < MaxFileSize
       /\ IF p > din[desc[d].file].size
          THEN UNCHANGED desc /\ StartTruncate("seek", d, p)
          ELSE desc' = [desc EXCEPT ![d].pos = p] /\ UNCHANGED call
  /\ UNCHANGED <<inodes, blocks, torn, mode, panic>>

\* vfs_open and file_open of a file that exists, with or without O_APPEND.
Open(d, f) ==
  /\ Ready /\ ~Opened(d)
  /\ \E p \in {0, din[f].size} : desc' = [desc EXCEPT ![d] = [file |-> f, pos |-> p]]
  /\ UNCHANGED <<inodes, blocks, call, torn, mode, panic>>

\* The same with O_TRUNC or O_CREAT: the file is cut to nothing.
OpenTruncating(d, f) ==
  /\ Ready /\ ~Opened(d)
  /\ desc' = [desc EXCEPT ![d] = [file |-> f, pos |-> 0]]
  /\ IF din[f].size # 0
     THEN StartTruncate("open", d, 0) /\ UNCHANGED panic
     ELSE UNCHANGED call /\ panic' = IF Exact(f) THEN panic ELSE "assert tblks == blocks"
  /\ UNCHANGED <<inodes, blocks, torn, mode>>

Truncating == Running({"seek", "open"})

TruncateGrow ==
  /\ Truncating /\ din[The].blocks < BlocksFor(call.to) /\ InRange(din[The].blocks)
  /\ AppendBlock(The, din[The].blocks)
  /\ UNCHANGED <<desc, call, torn, mode, panic>>

\* The disk is full: the call fails, and keeps the blocks it has added.
TruncateNoRoom ==
  /\ Truncating /\ din[The].blocks < BlocksFor(call.to) /\ InRange(din[The].blocks)
  /\ NoRoom(The, din[The].blocks)
  /\ torn' = IF din[The].blocks # call.from THEN torn \cup {The} ELSE torn
  /\ call' = Idle
  /\ UNCHANGED <<desc, mode, panic>>

TruncatePanic ==
  /\ Truncating /\ din[The].blocks < BlocksFor(call.to) /\ ~InRange(din[The].blocks)
  /\ Panic("index out of range")

TruncateShrink ==
  /\ Truncating /\ din[The].blocks > BlocksFor(call.to)
  /\ DropBlock(The, din[The].blocks - 1)
  /\ UNCHANGED <<desc, call, torn, mode, panic>>

TruncateEnd ==
  /\ Truncating /\ din[The].blocks = BlocksFor(call.to)
  /\ din' = [din EXCEPT ![The].size = call.to]
  /\ DirtyIf(The, TRUE)
  /\ torn' = torn \ {The}
  /\ desc' = [desc EXCEPT ![call.d].pos = call.to]
  /\ call' = Idle
  /\ UNCHANGED <<blocks, mode, panic>>

-----------------------------------------------------------------------------
(* Saving inodes and the free map. *)

SavedNever(f) == diskDin                     \* a mutant: the dirty flag is dropped

\* sfs_fsync writes the inode if it is dirty.
Saved(f) == IF dirty[f] THEN [diskDin EXCEPT ![f] = din[f]] ELSE diskDin

Fsync(d) ==
  /\ Ready /\ Opened(d)
  /\ diskDin' = Saved(desc[d].file)
  /\ dirty' = [dirty EXCEPT ![desc[d].file] = FALSE]
  /\ UNCHANGED <<din, blocks, desc, call, torn, mode, panic>>

\* vfs_close.  With the last descriptor of a file its inode is saved and
\* leaves the memory (sfs_reclaim): what is on disk counts from then on.
Close(d) ==
  LET f == desc[d].file
      last == \A c \in Desc \ {d} : desc[c].file # f
  IN /\ Ready /\ Opened(d)
     /\ desc' = [desc EXCEPT ![d] = Closed]
     /\ IF last
        THEN /\ diskDin' = Saved(f)
             /\ dirty' = [dirty EXCEPT ![f] = FALSE]
             /\ din' = [din EXCEPT ![f] = Saved(f)[f]]
        ELSE UNCHANGED inodes
     /\ UNCHANGED <<blocks, call, torn, mode, panic>>

\* init_main, when all processes are gone: sfs_cleanup and sfs_sync.
Cleanup ==
  /\ Ready /\ OpenFiles = {}
  /\ mode' = "down"
  /\ diskFree' = IF superDirty THEN freemap ELSE diskFree
  /\ superDirty' = FALSE
  /\ UNCHANGED <<inodes, freemap, entry, desc, call, torn, panic>>

\* The next boot: sfs_do_mount reads the free map from the disk.
Mount ==
  /\ mode = "down"
  /\ mode' = "up"
  /\ freemap' = diskFree
  /\ UNCHANGED <<inodes, superDirty, entry, diskFree, desc, call, torn, panic>>

-----------------------------------------------------------------------------
Next ==
  \/ \E d \in Desc : Read(d) \/ Write(d) \/ Seek(d) \/ Fsync(d) \/ Close(d)
  \/ \E d \in Desc, f \in File : Open(d, f) \/ OpenTruncating(d, f)
  \/ IoBlock \/ IoNewBlock \/ IoNoRoom \/ IoPanic \/ IoEnd
  \/ TruncateGrow \/ TruncateNoRoom \/ TruncatePanic \/ TruncateShrink \/ TruncateEnd
  \/ Cleanup \/ Mount

Spec == Init /\ [][Next]_vars

-----------------------------------------------------------------------------
(* Properties. *)

TypeOK ==
  /\ din \in [File -> Inode]
  /\ dirty \in [File -> BOOLEAN]
  /\ freemap \subseteq Block
  /\ superDirty \in BOOLEAN
  /\ entry \in [Block -> [0..NEntry - 1 -> Pointer]]
  /\ diskDin \in [File -> Inode]
  /\ diskFree \subseteq Block
  /\ desc \in [Desc -> [file : File \cup {NoFile}, pos : Nat]]
  /\ torn \subseteq File
  /\ mode \in {"up", "down"}

\* The places that hold a block of f: its pointers, and its indirect block.
IndirectPlace == NDirect + NEntry
Places == 0..IndirectPlace
Held(f, p) == IF p = IndirectPlace THEN din[f].indirect ELSE BlockOf(f, p)

\* The free map marks as free exactly the blocks that no file holds, across
\* failures half way, reloads of inodes and a clean shutdown: a block is
\* neither lost nor given out while a file has it (sfs_block_alloc,
\* sfs_block_free and the error paths of sfs_bmap_get_sub_nolock).
FreeMapExact ==
  freemap = Block \ {Held(f, p) : f \in File, p \in Places}

\* No block has two places: no two files share one, and no file uses one for
\* two parts of its contents or as contents and as indirect block.
NoSharedBlock ==
  \A f, g \in File : \A p, q \in Places :
    Held(f, p) = Held(g, q) /\ Held(f, p) # NoBlock => f = g /\ p = q

Fits(f) ==
  /\ din[f].size <= BlkSize * din[f].blocks
  /\ BlkSize * din[f].blocks < din[f].size + BlkSize

\* Between calls a file has a block for each part of its length, no hole
\* among them, and just as many as its length needs, unless a call has run
\* out of disk half way (sfs_truncfile asserts it at line 910; after such a
\* call the assertion fails).
BlocksFit ==
  \A f \in File :
    /\ \A i \in 0..din[f].blocks - 1 : BlockOf(f, i) # NoBlock
    /\ call = Idle /\ panic = "none" /\ f \notin torn => Fits(f)

\* The kernel stops in a call on a file only for one of three reasons: the
\* position was cut off by an O_TRUNC through another descriptor, a call
\* before it ran out of disk half way, or the file has all the blocks an
\* inode can name.  The assertion about block numbers read from a file holds.
PanicCause ==
  /\ panic = "assert index <= blocks" => call.from > din[The].size
  /\ panic = "assert tblks == blocks" => torn # {}
  /\ panic = "index out of range" => din[The].blocks = NDirect + NEntry
  /\ panic # "sfs_block_inuse: out of range"

\* Lengths change only through open descriptors; closing, saving, forgetting
\* and reading an inode again, a shutdown and a boot keep them.
Lengths == INSTANCE FileLengths
  WITH len <- [f \in File |-> din[f].size], on <- [d \in Desc |-> desc[d].file]
ImplementsFileLengths == Lengths!Spec

=============================================================================
