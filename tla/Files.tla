------------------------------- MODULE Files -------------------------------
(* Descriptors and inodes: the table of descriptors of every process, the  *)
(* references and openings that the inodes count, and which inodes of the  *)
(* simple file system are in memory (kern/fs/file.c, fs.c, vfs and the     *)
(* inode cache of sfs).  A system call runs with interrupts off and only   *)
(* the read of an empty stdin sleeps, so no other call comes between the   *)
(* steps of one.  Exec and exit take a step for every reference that they  *)
(* give back, the other calls take one.  The references that a call takes  *)
(* and gives back while it runs count where inode_check sees them; the use *)
(* count of a descriptor that a sleeping reader holds is left out, as no   *)
(* other process sees its table.  A call that fails and gives back all it  *)
(* took is a stuttering step.                                              *)
EXTENDS Integers, FiniteSets

CONSTANTS
  Proc,           \* user processes
  initproc,       \* the process that forks the first of them and has no descriptors
  Fd,             \* 0..FILES_STRUCT_NENTRY - 1
  File,           \* the regular files of sfs
  Device,         \* stdin and stdout
  root,           \* the root directory of sfs, "disk0:"
  NoNode,
  MAX_INODE_COUNT,
  MaxLeak         \* a bound of this model: lost references, until one inode has so many

NStd == 2         \* the descriptors that exec leaves open
Node == File \cup Device \cup {root}

ASSUME FilesAssumption ==
  /\ initproc \notin Proc
  /\ NoNode \notin Node
  /\ root \notin File \cup Device
  /\ File \cap Device = {}
  /\ IsFiniteSet(Proc)
  /\ Fd \subseteq Nat /\ IsFiniteSet(Fd)
  /\ MAX_INODE_COUNT \in Nat \ {0}
  /\ MaxLeak \in Nat

VARIABLES
  alive,          \* the processes that have a files_struct
  table,          \* the inode of every open descriptor
  pwd,            \* filesp->pwd
  ref,            \* ref_count
  opens,          \* open_count
  cached,         \* the inodes of sfs in memory
  leaked,         \* references that nobody will give back
  call,           \* the exec or exit that is running, and the descriptor it loads from
  panic           \* what stopped the kernel, or "none"

counts == <<ref, opens, cached>>
vars == <<alive, table, pwd, counts, leaked, call, panic>>

Empty == [fd \in Fd |-> NoNode]
Idle == [op |-> "none", proc |-> initproc, fd |-> 0]

\* After vfs_set_bootfs in init_main: bootfs_node and the directory of init
\* refer to the root, the list of devices to each device.
Init ==
  /\ alive = {initproc}
  /\ table = [p \in Proc \cup {initproc} |-> Empty]
  /\ pwd = [p \in Proc \cup {initproc} |-> IF p = initproc THEN root ELSE NoNode]
  /\ ref = [n \in Node |-> IF n = root THEN 2 ELSE IF n \in Device THEN 1 ELSE 0]
  /\ opens = [n \in Node |-> 0]
  /\ cached = {root}
  /\ leaked = [n \in Node |-> 0]
  /\ call = Idle
  /\ panic = "none"

Running(p) == panic = "none" /\ call = Idle /\ p \in alive \ {initproc}
Calling(p, op) == panic = "none" /\ call.op = op /\ call.proc = p
Panic(what) == panic' = what /\ UNCHANGED <<alive, table, pwd, counts, leaked, call>>

\* A step that an assertion stops, unless there is none to fail.
Unless(failure, Step) == IF failure = "none" THEN Step /\ UNCHANGED panic ELSE Panic(failure)

-----------------------------------------------------------------------------
(* Counting. *)

Fds(t, n) == {fd \in Fd : t[fd] = n}
One(m) == [n \in Node |-> IF n = m THEN 1 ELSE 0]
Zero == [n \in Node |-> 0]
PerFd(t) == [n \in Node |-> Cardinality(Fds(t, n))]
WithDir(c, d) == [n \in Node |-> IF n = d THEN c[n] + 1 ELSE c[n]]

\* The counts of an inode: one of sfs that is not in memory is loaded first
\* (sfs_load_inode), with no reference.
Refs(n) == IF n \in cached \cup Device THEN ref[n] ELSE 0
Opens(n) == IF n \in cached \cup Device THEN opens[n] ELSE 0

\* vop_ref_inc and vop_open_inc.
Take(r, o) ==
  /\ ref' = [n \in Node |-> Refs(n) + r[n]]
  /\ opens' = [n \in Node |-> Opens(n) + o[n]]
  /\ cached' = cached \cup {n \in Node \ Device : r[n] > 0}

\* The two assertions of inode_check about a pair of ref_count and open_count.
Broken(c) == ~(c[1] >= c[2] /\ c[2] >= 0)
Full(c) == ~(c[1] < MAX_INODE_COUNT /\ c[2] < MAX_INODE_COUNT)

\* What fails in a call whose operations check the pairs in s (__vop_op).
Failure(s) ==
  IF \E c \in s : Broken(c) THEN "assert" ELSE IF \E c \in s : Full(c) THEN "limit" ELSE "none"

ReclaimedClosed(r, o) == {n \in Node \ Device : o[n] = 0}    \* a mutant: with the last close

\* The inodes that are reclaimed when their counts are r and o.
Reclaimed(r, o) == {n \in Node \ Device : r[n] = 0}

\* What fails when r references and o openings are given back, at most one of
\* each inode: the assertions of inode_open_dec and inode_ref_dec, the check
\* of vop_close after the last opening, that of vop_reclaim after the last
\* reference, which leaves inode_kill nothing to find, or the missing
\* vop_reclaim of a device.
GiveFailure(r, o) ==
  LET counted == \A n \in Node : (o[n] > 0 => opens[n] > 0) /\ (r[n] > 0 => ref[n] > 0)
      last(c, d) == {n \in Node : d[n] > 0 /\ c[n] = d[n]}
  IN IF ~counted \/ last(ref, r) \cap Device # {} THEN "assert"
     ELSE Failure({<<ref[n], 0>> : n \in last(opens, o)}
                    \cup {<<0, opens[n] - o[n]>> : n \in last(ref, r)})

\* vop_open_dec and vop_ref_dec: the inode leaves the memory with its last
\* reference (sfs_reclaim).
Give(r, o) ==
  /\ ref' = [n \in Node |-> ref[n] - r[n]]
  /\ opens' = [n \in Node |-> opens[n] - o[n]]
  /\ cached' = cached \ Reclaimed(ref', opens')

-----------------------------------------------------------------------------
(* open, close and dup. *)

\* fd_array_alloc with NO_FD.
FreeFd(p) == {fd \in Fd : table[p][fd] = NoNode /\ \A e \in Fd : e < fd => table[p][e] # NoNode}

\* The flags of open as a set: "write" stands for O_WRONLY and O_RDWR.
Flag == {"write", "creat", "excl", "trunc", "append"}
Legal(flags) == "trunc" \in flags => "write" \in flags

\* vop_open of each type of inode: dev_open with stdin_open and stdout_open,
\* sfs_opendir, sfs_openfile.
MayOpen(n, flags) ==
  \/ n \in File
  \/ n = root /\ flags \cap {"write", "append"} = {}
  \/ n \in Device /\ flags \subseteq {"write"}

\* What O_CREAT and O_EXCL take of a file that exists: the reference stays.
Exists(flags) == {"creat", "excl"} \subseteq flags

\* The counts that an open has checked.  A file is looked up in the root, while
\* get_device holds a reference to that; then vop_open and vop_truncate or
\* vop_fstat see the new reference, the last two the new opening as well.
Looked(n) == IF n \in Device \cup {root} THEN {} ELSE {<<Refs(root) + 1, Opens(root)>>}
Opened(n, flags) ==
  {<<Refs(n) + 1, Opens(n)>>}
    \cup {c \in {<<Refs(n) + 1, Opens(n) + 1>>} :
             n \in File /\ flags \cap {"creat", "trunc", "append"} # {}}

\* vop_create of a name that does not exist, vop_truncate of a directory:
\* inodes of sfs have no such operation, and __vop_op asserts that they do.
Uncreatable(n, flags) ==
  "creat" \in flags /\ (n = NoNode \/ (n = root /\ ~Exists(flags) /\ MayOpen(n, flags)))

OpenFailure(n, flags) ==
  LET failure == Failure(IF n = NoNode \/ Exists(flags) THEN Looked(n)
                         ELSE Looked(n) \cup Opened(n, flags))
  IN IF failure = "none" /\ Uncreatable(n, flags) THEN "no operation" ELSE failure

Opening(p, flags) == Running(p) /\ Legal(flags) /\ FreeFd(p) # {}

OpenFd(p, fd, n) ==
  /\ table' = [table EXCEPT ![p][fd] = n]
  /\ Take(One(n), One(n))
  /\ UNCHANGED <<alive, pwd, leaked>>

Open(p, n, flags) ==
  /\ Opening(p, flags) /\ ~Exists(flags) /\ MayOpen(n, flags)
  /\ OpenFailure(n, flags) = "none"
  /\ \E fd \in FreeFd(p) : OpenFd(p, fd, n)
  /\ UNCHANGED <<call, panic>>

OpenExists(p, n, flags) ==
  /\ Opening(p, flags) /\ Exists(flags)
  /\ OpenFailure(n, flags) = "none"
  /\ \A m \in Node : leaked[m] < MaxLeak
  /\ leaked' = [leaked EXCEPT ![n] = @ + 1]
  /\ Take(One(n), Zero)
  /\ UNCHANGED <<alive, table, pwd, call, panic>>

OpenPanic(p, n, flags) ==
  /\ Opening(p, flags)
  /\ OpenFailure(n, flags) # "none"
  /\ Panic(OpenFailure(n, flags))

\* fd_array_close of one descriptor, by file_close, files_closeall and
\* files_destroy, and what fails in it.
CloseFd(p, fd) ==
  /\ table' = [table EXCEPT ![p][fd] = NoNode]
  /\ Give(One(table[p][fd]), One(table[p][fd]))
  /\ UNCHANGED <<alive, pwd, leaked>>

CloseFailure(p, fd) == GiveFailure(One(table[p][fd]), One(table[p][fd]))

OpenFds(p) == {fd \in Fd : table[p][fd] # NoNode}

Close(p, fd) ==
  /\ Running(p) /\ fd \in OpenFds(p)
  /\ Unless(CloseFailure(p, fd), CloseFd(p, fd) /\ UNCHANGED call)

DupRefsOnce(t) == [n \in Node |-> IF Fds(t, n) = {} THEN 0 ELSE 1]   \* a mutant: once per inode
DupOpensNot(t) == [n \in Node |-> 0]      \* a mutant: vop_open_inc forgotten

\* fd_array_dup counts each copy of a descriptor in ref_count and open_count.
DupRefs(t) == PerFd(t)
DupOpens(t) == PerFd(t)

\* file_dup, to any free descriptor or to the first.
Dup(p, fd, to) ==
  /\ Running(p) /\ fd \in OpenFds(p) /\ to \notin OpenFds(p)
  /\ table' = [table EXCEPT ![p][to] = table[p][fd]]
  /\ LET copy == [Empty EXCEPT ![to] = table[p][fd]] IN Take(DupRefs(copy), DupOpens(copy))
  /\ UNCHANGED <<alive, pwd, leaked, call, panic>>

\* The other calls keep the counts.  A read, write, seek, fstat, fsync or
\* getdirentry that the inode has no operation for stops the kernel, and any
\* that finds too many references does.
Missing(n, op) ==
  \/ n = root /\ op \in {"read", "tryseek"}
  \/ n \in Device /\ op \in {"fsync", "getdirentry"}
  \/ n \in File /\ op = "getdirentry"

CallFailure(n, op) == IF Missing(n, op) THEN "no operation" ELSE Failure({<<ref[n], opens[n]>>})

CallPanic(p, fd) ==
  /\ Running(p) /\ fd \in OpenFds(p)
  /\ \E op \in {"read", "write", "tryseek", "fstat", "fsync", "getdirentry"} :
       /\ CallFailure(table[p][fd], op) # "none"
       /\ Panic(CallFailure(table[p][fd], op))

\* vfs_getcwd, which holds one reference more to the directory.
GetcwdPanic(p) ==
  LET failure == Failure({<<ref[pwd[p]] + 1, opens[pwd[p]]>>})
  IN Running(p) /\ pwd[p] # NoNode /\ failure # "none" /\ Panic(failure)

-----------------------------------------------------------------------------
(* fork, exec and exit. *)

\* copy_files: the child has its own files_struct with the same descriptors
\* and directory (dup_files).
Fork(p, c) ==
  /\ panic = "none" /\ call = Idle /\ p \in alive /\ c \in Proc \ alive
  /\ alive' = alive \cup {c}
  /\ table' = [table EXCEPT ![c] = table[p]]
  /\ pwd' = [pwd EXCEPT ![c] = pwd[p]]
  /\ Take(WithDir(DupRefs(table[p]), pwd[p]), DupOpens(table[p]))
  /\ UNCHANGED <<leaked, call, panic>>

Continue(op, p, fd) == call' = [op |-> op, proc |-> p, fd |-> fd]

\* The first descriptor in s, in a loop over the table.
CloseFirst(p, s) ==
  \E fd \in s :
    /\ \A e \in s : fd <= e
    /\ Unless(CloseFailure(p, fd), CloseFd(p, fd) /\ UNCHANGED call)

\* do_exit: put_files and files_destroy, which gives the directory back first,
\* then closes the descriptors in their order.
DirRef(p) == WithDir(Zero, pwd[p])

LeaveDir(p) ==
  Unless(GiveFailure(DirRef(p), Zero),
         /\ pwd' = [pwd EXCEPT ![p] = NoNode]
         /\ Give(DirRef(p), Zero)
         /\ Continue("exit", p, 0)
         /\ UNCHANGED <<alive, table, leaked>>)

Exit(p) == Running(p) /\ LeaveDir(p)

ExitClose(p) == Calling(p, "exit") /\ CloseFirst(p, OpenFds(p))

ExitEnd(p) ==
  /\ Calling(p, "exit") /\ OpenFds(p) = {}
  /\ alive' = alive \ {p}
  /\ call' = Idle
  /\ UNCHANGED <<table, pwd, counts, leaked, panic>>

\* do_execve: files_closeall, sysfile_open of the program, and load_icode, which
\* closes it again.  When one of them fails the process exits.
Exec(p) ==
  /\ Running(p)
  /\ Continue("exec", p, 0)
  /\ UNCHANGED <<alive, table, pwd, counts, leaked, panic>>

ToClose(p) == {fd \in OpenFds(p) : fd >= NStd}

ExecClose(p) == Calling(p, "exec") /\ CloseFirst(p, ToClose(p))

ExecOpen(p, n) ==
  /\ Calling(p, "exec") /\ ToClose(p) = {}
  /\ \E fd \in FreeFd(p) :
       Unless(OpenFailure(n, {}), OpenFd(p, fd, n) /\ Continue("load", p, fd))

\* A directory cannot be read as a program, a device refuses the seek.
Load(p) ==
  /\ Calling(p, "load") /\ table[p][call.fd] \in File
  /\ Unless(CloseFailure(p, call.fd), CloseFd(p, call.fd) /\ call' = Idle)

LoadPanic(p) == Calling(p, "load") /\ table[p][call.fd] = root /\ Panic("no operation")

ExecFails(p) ==
  /\ (Calling(p, "exec") /\ ToClose(p) = {}) \/ Calling(p, "load")
  /\ LeaveDir(p)

Next ==
  \/ \E p \in alive, c \in Proc : Fork(p, c)
  \/ \E p \in Proc :
       \/ \E flags \in SUBSET Flag :
            \/ \E n \in Node : Open(p, n, flags) \/ OpenExists(p, n, flags)
            \/ \E n \in Node \cup {NoNode} : OpenPanic(p, n, flags)
       \/ \E fd \in Fd : Close(p, fd) \/ CallPanic(p, fd) \/ (\E to \in Fd : Dup(p, fd, to))
       \/ GetcwdPanic(p)
       \/ Exec(p) \/ ExecClose(p) \/ (\E n \in Node : ExecOpen(p, n))
       \/ Load(p) \/ LoadPanic(p) \/ ExecFails(p)
       \/ Exit(p) \/ ExitClose(p) \/ ExitEnd(p)

Spec == Init /\ [][Next]_vars

-----------------------------------------------------------------------------
(* Properties. *)

Process == Proc \cup {initproc}

TypeOK ==
  /\ initproc \in alive /\ alive \subseteq Process
  /\ table \in [Process -> [Fd -> Node \cup {NoNode}]]
  /\ pwd \in [Process -> Node \cup {NoNode}]
  /\ ref \in [Node -> Int]
  /\ opens \in [Node -> Int]
  /\ cached \subseteq Node \ Device
  /\ leaked \in [Node -> Nat]
  /\ call \in [op : {"none", "exec", "load", "exit"}, proc : Process, fd : Nat]
  /\ panic \in {"none", "no operation", "limit", "assert"}

OpenOn(n) == {x \in Process \X Fd : table[x[1]][x[2]] = n}
DirOf(n) == {p \in Process : pwd[p] = n}
Fixed(n) == IF n \in Device \cup {root} THEN 1 ELSE 0

\* The counts of an inode are exact through forks, execs, exits and closes in
\* any order: open_count is the number of descriptors on it, ref_count that
\* and the directories, the boot file system or the device list that refer to
\* it, and what open with O_CREAT and O_EXCL has lost (vfsfile.c:47).
RefExact ==
  \A n \in Node :
    /\ opens[n] = Cardinality(OpenOn(n))
    /\ ref[n] = Cardinality(OpenOn(n)) + Cardinality(DirOf(n)) + Fixed(n) + leaked[n]

\* An inode of sfs is in memory exactly while a descriptor or a directory uses
\* it or a lost reference holds it: none is freed under its users, none stays
\* behind that sfs_unmount would find.
InMemory ==
  \A n \in Node \ Device :
    n \in cached <=> OpenOn(n) # {} \/ DirOf(n) # {} \/ n = root \/ leaked[n] > 0

\* Of the assertions about the counts only one ever stops the kernel, that an
\* inode has less than MAX_INODE_COUNT references (inode.c:114), and only when
\* so many descriptors, directories and references that open with O_CREAT and
\* O_EXCL has lost hold one inode that the next leaves no room.  Between any
\* two steps of an exec or an exit the others hold: no count is taken below
\* zero, none is closed more often than it is held (inode_ref_dec,
\* inode_open_dec, inode_check and inode_kill).
AssertsHold ==
  /\ panic # "assert"
  /\ panic = "limit" =>
       \E n \in Node :
         Cardinality(OpenOn(n)) + Cardinality(DirOf(n)) + Fixed(n) + leaked[n] >= MAX_INODE_COUNT - 1

=============================================================================
