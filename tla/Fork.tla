-------------------------------- MODULE Fork --------------------------------
(* What a process takes and gives back: its pid, its kernel stack, the     *)
(* frames of its address space, the one of its files_struct and those of   *)
(* the buffers of its system calls (do_fork, do_execve, do_exit and        *)
(* do_wait in kern/process/proc.c, kern/fs/sysfile.c, with kern/mm).       *)
(* The kernel is not preempted, and of these calls only a read of stdin    *)
(* sleeps: every other one is a step, in which it takes its frames and     *)
(* gives them back in the order of the code.                               *)
(* kmalloc of a page (kmalloc.c) takes a frame and kfree returns it.  Left *)
(* out are the frames the slob cuts into smaller blocks: it takes one when *)
(* it has no room and never returns it.                                    *)
EXTENDS DefaultPmm

CONSTANTS
  Proc,           \* the process structures
  initproc,
  KSTACKPAGE,
  MAX_PID,
  MAX_PROCESS,
  EXEC_MAX_ARG_NUM,
  MaxPages        \* a bound of this model: the frames of an address space

ASSUME ForkAssumption ==
  /\ initproc \notin Proc
  /\ KSTACKPAGE \in Nat \ {0}
  /\ MAX_PID \in Nat /\ MAX_PROCESS \in Nat
  /\ MAX_PROCESS > 1                \* idleproc and init
  /\ MAX_PID > MAX_PROCESS          \* asserted in get_pid
  /\ EXEC_MAX_ARG_NUM \in Nat \ {0}
  /\ MaxPages \in Nat \ {0}

NoFrame == 0

VARIABLES
  area,           \* free_area and the property of each page
  proc_list,      \* all processes but idleproc, the newest first
  zombies,
  pid,
  kstack,         \* the first frame of the kernel stack
  mm,             \* the frames of the address space: page directory, page tables, pages
  files,          \* the frame of the files_struct
  buffer,         \* the frame a read that sleeps holds
  last_pid,
  next_safe,
  panic           \* the kernel has run out of memory

vars == <<area, proc_list, zombies, pid, kstack, mm, files, buffer, last_pid, next_safe, panic>>

Init ==
  /\ area = AreaInit
  /\ proc_list = <<initproc>>
  /\ zombies = {}
  /\ pid = [p \in Proc \cup {initproc} |-> IF p = initproc THEN 1 ELSE 0]
  /\ kstack = [p \in Proc |-> NoFrame]
  /\ mm = [p \in Proc |-> {}]
  /\ files = [p \in Proc |-> NoFrame]
  /\ buffer = [p \in Proc |-> NoFrame]
  /\ last_pid = 1
  /\ next_safe = MAX_PID
  /\ panic = FALSE

Used == Range(proc_list)
Alive(p) == ~panic /\ p \in (Used \ zombies) \ {initproc}
Running(p) == Alive(p) /\ buffer[p] = NoFrame        \* in no read

\* alloc_pages of one frame when none is free: swap_out is called with
\* check_mm_struct, which is NULL once the system runs, and the kernel stops.
OutOfMemory ==
  /\ panic' = TRUE
  /\ UNCHANGED <<area, proc_list, zombies, pid, kstack, mm, files, buffer, last_pid, next_safe>>

-----------------------------------------------------------------------------
(* get_pid.  A pass over proc_list looks for last_pid and for the least pid *)
(* above it; it starts again when it finds no gap.                          *)

Again(s) == [last |-> IF s.last + 1 >= MAX_PID THEN 1 ELSE s.last + 1,
             next |-> MAX_PID, again |-> TRUE]

VisitEqual(s, q) ==                            \* a mutant: no bound for next_safe
  IF s.again \/ q # s.last THEN s
  ELSE IF s.last + 1 >= s.next THEN Again(s) ELSE [s EXCEPT !.last = @ + 1]

Visit(s, q) ==
  IF s.again THEN s
  ELSE IF q = s.last
       THEN IF s.last + 1 >= s.next THEN Again(s) ELSE [s EXCEPT !.last = @ + 1]
       ELSE IF q > s.last /\ s.next > q THEN [s EXCEPT !.next = q] ELSE s

Pass(last) ==
  LET visit[i \in 0..Len(proc_list)] ==
        IF i = 0 THEN [last |-> last, next |-> MAX_PID, again |-> FALSE]
        ELSE Visit(visit[i - 1], pid[proc_list[i]])
  IN  visit[Len(proc_list)]

Search[last \in 1..MAX_PID - 1] ==
  LET s == Pass(last) IN IF s.again THEN Search[s.last] ELSE s

\* last_pid and next_safe after the call.
GetPid ==
  IF last_pid + 1 >= MAX_PID THEN Search[1]
  ELSE IF last_pid + 1 >= next_safe THEN Search[last_pid + 1]
  ELSE [last |-> last_pid + 1, next |-> next_safe]

-----------------------------------------------------------------------------
(* fork, exec, page faults, exit and wait. *)

\* nr_process counts idleproc too.
NrProcess == Len(proc_list) + 1

\* A child of a kernel thread has no address space (copy_mm).
SizeOf(p) == IF p = initproc THEN 0 ELSE Cardinality(mm[p])

\* setup_kstack, copy_mm with one frame for each of the parent's, copy_files.
StackOf == AllocPages(area, KSTACKPAGE)
Copied(p) == AllocEach(StackOf.area, SizeOf(p) + 1)

MayFork(p) ==
  /\ (p = initproc /\ ~panic) \/ (Running(p) /\ mm[p] # {})
  /\ NrProcess < MAX_PROCESS
  /\ CanAlloc(area, KSTACKPAGE)

Fork(p, c) ==
  LET a == Copied(p)
      k == SizeOf(p)
      n == GetPid
  IN /\ MayFork(p) /\ c \in Proc \ Used
     /\ Len(a.got) = k + 1
     /\ area' = a.area
     /\ kstack' = [kstack EXCEPT ![c] = StackOf.base]
     /\ mm' = [mm EXCEPT ![c] = Range(SubSeq(a.got, 1, k))]
     /\ files' = [files EXCEPT ![c] = a.got[k + 1]]
     /\ pid' = [pid EXCEPT ![c] = n.last]
     /\ last_pid' = n.last /\ next_safe' = n.next
     /\ proc_list' = <<c>> \o proc_list
     /\ UNCHANGED <<zombies, buffer, panic>>

ForkOutOfMemory(p) ==
  MayFork(p) /\ Len(Copied(p).got) < SizeOf(p) + 1 /\ OutOfMemory

\* What exit_mmap and put_pgdir make of the free list a with the frames s: they
\* free them in the order of the addresses they are mapped at, which is any
\* order of their numbers.
Freed(a, s) == {FreeEach(a, order) : order \in SetToSeqs(s)}

\* A buffer of a page is freed by kfree; copies of several are freed backwards.
PutKargv(a, kargv) == FreeEach(a, Reverse(kargv))
TakenAndGiven(a, n) == LET r == AllocEach(a, n) IN PutKargv(r.area, r.got)
Buffered(a) == TakenAndGiven(a, 1)

\* The buffers of copy_path, sysfile_write and a sysfile_read that does not
\* sleep live as long as the call.
FileCall(p) ==
  /\ Running(p) /\ mm[p] # {} /\ CanAlloc(area, 1)
  /\ area' = Buffered(area)
  /\ UNCHANGED <<proc_list, zombies, pid, kstack, mm, files, buffer, last_pid, next_safe, panic>>

\* sysfile_read of stdin sleeps with its buffer, and gives it back however it
\* is woken: a killed reader exits later, on its way out of the kernel.
ReadSleeps(p) ==
  LET r == AllocEach(area, 1)
  IN /\ Running(p) /\ mm[p] # {} /\ r.got # <<>>
     /\ area' = r.area
     /\ buffer' = [buffer EXCEPT ![p] = r.got[1]]
     /\ UNCHANGED <<proc_list, zombies, pid, kstack, mm, files, last_pid, next_safe, panic>>

ReadReturns(p) ==
  /\ Alive(p) /\ buffer[p] # NoFrame
  /\ area' = FreePages(area, buffer[p], 1)
  /\ buffer' = [buffer EXCEPT ![p] = NoFrame]
  /\ UNCHANGED <<proc_list, zombies, pid, kstack, mm, files, last_pid, next_safe, panic>>

FileOutOfMemory(p) == Running(p) /\ mm[p] # {} /\ ~CanAlloc(area, 1) /\ OutOfMemory

\* do_execve copies the arguments (copy_kargv), a frame for each; copy_path
\* of sysfile_open takes one more while the program is opened.
Args(argc) == AllocEach(area, argc)
Opens(args, argc) == Len(args.got) = argc /\ CanAlloc(args.area, 1)

\* load_icode takes k frames.  After the first, the page directory, it reads
\* the file with a buffer.  The buffer of a read between later frames comes
\* and goes in the same way, and needs no more than the frames that follow.
Loaded(a, k) ==
  LET r == AllocEach(a, 1)
      s == AllocEach(Buffered(r.area), k - 1)
  IN [area |-> s.area, got |-> r.got \o s.got, read |-> CanAlloc(r.area, 1)]
Loads(new, k) == new.read /\ Len(new.got) = k

ExecOutOfMemory(p, argc) == Running(p) /\ ~Opens(Args(argc), argc) /\ OutOfMemory

\* copy_string fails at the argc'th argument: the call returns an error.
ExecRefused(p, argc) ==
  /\ Running(p) /\ Len(Args(argc).got) = argc
  /\ area' = TakenAndGiven(area, argc)
  /\ UNCHANGED <<proc_list, zombies, pid, kstack, mm, files, buffer, last_pid, next_safe, panic>>

\* put_files gives back its frame, the stack stays until the process is reaped.
Ended(p, a) ==
  /\ area' = FreePages(a, files[p], 1)
  /\ mm' = [mm EXCEPT ![p] = {}]
  /\ files' = [files EXCEPT ![p] = NoFrame]
  /\ zombies' = zombies \cup {p}
  /\ UNCHANGED <<proc_list, pid, kstack, buffer, last_pid, next_safe, panic>>

Exit(p) ==
  Running(p) /\ \E a \in Freed(area, mm[p]) : Ended(p, a)

\* sysfile_open fails: put_kargv, and the process exits with the address
\* space it had.
ExecOpenFails(p, argc) ==
  LET args == Args(argc)
  IN /\ Running(p) /\ Opens(args, argc)
     /\ \E a \in Freed(PutKargv(Buffered(args.area), args.got), mm[p]) : Ended(p, a)

\* load_icode fails: its frames go back, put_kargv, and the process exits.
ExecFailsLeaks(p, args, new) ==                \* a mutant: no put_kargv
  \E a \in Freed(new.area, Range(new.got)) : Ended(p, a)
ExecFails(p, args, new) ==
  \E a \in Freed(new.area, Range(new.got)) : Ended(p, PutKargv(a, args.got))

\* load_icode makes the new address space, and put_kargv.
Executed(p, args, new) ==
  /\ area' = PutKargv(new.area, args.got)
  /\ mm' = [mm EXCEPT ![p] = Range(new.got)]
  /\ UNCHANGED <<proc_list, zombies, pid, kstack, files, buffer, last_pid, next_safe, panic>>

\* The old address space goes before the new one is made.  load_icode may fail
\* with any number of frames, with the first before it has read.
Exec(p, argc) ==
  LET args == Args(argc)
  IN /\ Running(p) /\ Opens(args, argc)
     /\ \E a \in Freed(Buffered(args.area), mm[p]), k \in 1..MaxPages :
          LET new == Loaded(a, k)
          IN \/ Loads(new, k) /\ Executed(p, args, new)
             \/ Len(new.got) = k /\ (new.read \/ k = 1) /\ ExecFails(p, args, new)
             \/ ~Loads(new, k) /\ OutOfMemory

\* do_pgfault adds a page, for the process or for a read that copies to it.
PageFault(p) ==
  LET a == AllocEach(area, 1)
  IN /\ Alive(p) /\ mm[p] # {} /\ Cardinality(mm[p]) < MaxPages
     /\ IF a.got = <<>> THEN OutOfMemory
        ELSE /\ area' = a.area
             /\ mm' = [mm EXCEPT ![p] = @ \cup Range(a.got)]
             /\ UNCHANGED <<proc_list, zombies, pid, kstack, files, buffer, last_pid, next_safe, panic>>

\* The end of do_wait, by the parent or by init.
Reaped(c) == RemoveAt(proc_list, CHOOSE i \in DOMAIN proc_list : proc_list[i] = c)
Wait(c) ==
  /\ ~panic /\ c \in zombies
  /\ proc_list' = Reaped(c)
  /\ zombies' = zombies \ {c}
  /\ area' = FreePages(area, kstack[c], KSTACKPAGE)
  /\ kstack' = [kstack EXCEPT ![c] = NoFrame]
  /\ pid' = [pid EXCEPT ![c] = 0]
  /\ UNCHANGED <<mm, files, buffer, last_pid, next_safe, panic>>

Next ==
  \/ \E p \in Proc \cup {initproc} : ForkOutOfMemory(p) \/ \E c \in Proc : Fork(p, c)
  \/ \E p \in Proc, argc \in 1..EXEC_MAX_ARG_NUM :
       \/ ExecRefused(p, argc) \/ ExecOutOfMemory(p, argc) \/ ExecOpenFails(p, argc)
       \/ Exec(p, argc)
  \/ \E p \in Proc : FileCall(p) \/ ReadSleeps(p) \/ ReadReturns(p) \/ FileOutOfMemory(p)
  \/ \E p \in Proc : PageFault(p) \/ Exit(p) \/ Wait(p)

Spec == Init /\ [][Next]_vars

-----------------------------------------------------------------------------
(* Properties. *)

Stack(p) == IF kstack[p] = NoFrame THEN {} ELSE kstack[p]..kstack[p] + KSTACKPAGE - 1
Held(f) == {f} \ {NoFrame}
Owned(p) == Stack(p) \cup mm[p] \cup Held(files[p]) \cup Held(buffer[p])
Unowned == Frame \ UNION {Owned(p) : p \in Proc}

\* Between two calls every frame is on the free list once, in the order of
\* addresses, or belongs to one place of one process, its files_struct and the
\* buffer of its sleeping read included: none is lost and none given out twice,
\* through forks, execs that fail half way with their arguments and frames,
\* reads, exits and reaping in any order.  (The slob's own frames left out.)
FramesExact ==
  /\ Range(area.list) = Unowned
  /\ \A i \in 1..Len(area.list) - 1 : area.list[i] < area.list[i + 1]
  /\ \A p, q \in Proc : p # q => Owned(p) \cap Owned(q) = {}
  /\ \A p \in Proc : Cardinality(Owned(p)) =
       Cardinality(Stack(p)) + Cardinality(mm[p])
       + Cardinality(Held(files[p])) + Cardinality(Held(buffer[p]))

\* The allocator finds a block of n frames exactly if there are n adjacent
\* frames that nobody owns: freed blocks are merged in whatever order they
\* come back, and a block that was split still counts its frames.
AllocatesIfItCan ==
  LET free == Unowned
  IN \A n \in 1..Cardinality(Frame) :
       CanAlloc(area, n) <=> \E f \in Frame : f..f + n - 1 \subseteq free

\* Two processes never have the same pid, although get_pid looks at the list
\* of processes only when it has come to next_safe.
PidsDistinct ==
  \A p, q \in Used : p # q => pid[p] # pid[q] /\ pid[p] \in 1..MAX_PID - 1

=============================================================================
