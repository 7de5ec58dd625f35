------------------------------- MODULE Stride -------------------------------
(***************************************************************************)
(* The stride scheduling class (kern/schedule/default_sched.c) on its skew *)
(* heap (libs/skew_heap.h), under schedule() and wakeup_proc.              *)
(***************************************************************************)
EXTENDS Integers, SequencesExt

CONSTANTS
  Proc,
  Sleeper,    \* the processes that may sleep
  Forked,     \* slots of processes that are forked and exit
  Priority,   \* the arguments of lab6_set_priority
  Half,       \* half the number of values of lab6_stride
  idleproc,
  NULL

ASSUME ProcAssumption ==
  /\ IsFiniteSet(Proc) /\ Sleeper \subseteq Proc /\ Forked \subseteq Proc
  /\ idleproc \notin Proc /\ NULL \notin Proc

ASSUME WordAssumption == Half \in Nat \ {0} /\ Priority \subseteq 0 .. 2 * Half - 1

VARIABLES
  state,      \* proc->state, without the zombies
  stride,     \* proc->lab6_stride
  priority,   \* proc->lab6_priority
  run_pool,   \* rq->lab6_run_pool, the root of the heap
  heap,       \* proc->lab6_run_pool: left, right and parent of every process
  current

vars == << state, stride, priority, run_pool, heap, current >>

Pool == INSTANCE StridePool WITH Competing <- Proc

-----------------------------------------------------------------------------
(***************************************************************************)
(* Skew heaps.  An operation takes the links of all entries and returns    *)
(* them with the root of the heap.                                         *)
(***************************************************************************)
Link == Proc \cup {NULL}

\* The entries as alloc_proc leaves them.
NoLinks ==
  LET none == [p \in Proc |-> NULL] IN [left |-> none, right |-> none, parent |-> none]

WithLinks(h, p, l, r) ==
  [h EXCEPT !.left = [@ EXCEPT ![p] = l], !.right = [@ EXCEPT ![p] = r]]

\* if (c) c->parent = p
WithParent(h, c, p) ==
  IF c = NULL THEN h ELSE [h EXCEPT !.parent = [@ EXCEPT ![c] = p]]

\* skew_heap_init
Cleared(h, p) == WithParent(WithLinks(h, p, NULL, NULL), p, NULL)

Behind(p, q, s) == Pool!Less(s[q], s[p])

BeforeUnsigned(p, q, s) == s[p] < s[q]

\* proc_stride_comp_f
Before(p, q, s) == Pool!Less(s[p], s[q])

\* `p` above the heap `m`, with its left child `r` on the right.
Above(p, m, r) ==
  [root |-> p, heap |-> WithParent(WithLinks(m.heap, p, m.root, r), m.root, p)]

\* skew_heap_merge; the links are read before any of them is changed.
HeapMerge(h, a, b, s) ==
  LET merged[x \in Link \X Link] ==
        LET p == x[1]
            q == x[2]
        IN IF p = NULL \/ q = NULL THEN [root |-> IF p = NULL THEN q ELSE p, heap |-> h]
           ELSE IF Before(p, q, s) THEN Above(p, merged[<< h.right[p], q >>], h.left[p])
           ELSE Above(q, merged[<< p, h.right[q] >>], h.left[q])
  IN merged[<< a, b >>]

\* skew_heap_insert
HeapInsert(pool, p, s) == HeapMerge(Cleared(pool.heap, p), pool.root, p, s)

KeepParent(pool, p, s) ==
  LET rep == HeapMerge(pool.heap, pool.heap.left[p], pool.heap.right[p], s)
  IN [root |-> rep.root, heap |-> Cleared(rep.heap, p)]

\* skew_heap_remove.  The links of an entry that is in no heap are not read
\* before skew_heap_insert clears them: they are cleared here.
HeapRemove(pool, p, s) ==
  LET up == pool.heap.parent[p]
      rep == HeapMerge(pool.heap, pool.heap.left[p], pool.heap.right[p], s)
      h == WithParent(rep.heap, rep.root, up)
      l == IF h.left[up] = p THEN rep.root ELSE h.left[up]
      r == IF h.left[up] = p THEN h.right[up] ELSE rep.root
  IN IF up = NULL THEN [root |-> rep.root, heap |-> Cleared(h, p)]
     ELSE [root |-> pool.root, heap |-> Cleared(WithLinks(h, up, l, r), p)]

\* The heap after the processes have been inserted one after the other.
Filled(procs, s) ==
  LET filled[n \in 0 .. Len(procs)] ==
        IF n = 0 THEN [root |-> NULL, heap |-> NoLinks]
        ELSE HeapInsert(filled[n - 1], procs[n], s)
  IN filled[Len(procs)]

-----------------------------------------------------------------------------
BigStride == Half - 1

\* A priority of 0 counts as 1, in lab6_set_priority and in stride_enqueue.
Weight(n) == IF n = 0 THEN 1 ELSE n

Unstepped(p) == stride

\* The strides once `p` has been picked.
Stepped(p) ==
  [stride EXCEPT ![p] = Pool!Advance(@, BigStride \div priority[p])]

\* The processes that have been forked so far are all in the pool.
Init ==
  /\ state = [p \in Proc |-> IF p \in Forked THEN "UNINIT" ELSE "RUNNABLE"]
  /\ stride = [p \in Proc |-> 0]
  /\ priority = [p \in Proc |-> Weight(0)]
  /\ LET pool == Filled(SetToSeq(Proc \ Forked), stride)
     IN run_pool = pool.root /\ heap = pool.heap
  /\ current = idleproc

\* rq as the operations on skew heaps take it, and as they leave it.
rq == [root |-> run_pool, heap |-> heap]
SetPool(pool) == \E new \in {pool} : run_pool' = new.root /\ heap' = new.heap

\* pick_next and dequeue of schedule().
PickNext(pool) ==
  IF pool.root = NULL
  THEN /\ current' = idleproc
       /\ SetPool(pool)
       /\ UNCHANGED stride
  ELSE /\ current' = pool.root
       /\ stride' = Stepped(pool.root)
       /\ SetPool(HeapRemove(pool, pool.root, stride'))

\* schedule() of a RUNNABLE process; idleproc is never inserted.
Reschedule ==
  /\ \E pool \in {IF current = idleproc THEN rq ELSE HeapInsert(rq, current, stride)} :
       PickNext(pool)
  /\ UNCHANGED << state, priority >>

Sleep ==
  /\ current \in Sleeper
  /\ state' = [state EXCEPT ![current] = "SLEEPING"]
  /\ PickNext(rq)
  /\ UNCHANGED priority

\* do_exit, with the reaping of the zombie.
Exit ==
  /\ current \in Forked
  /\ state' = [state EXCEPT ![current] = "UNINIT"]
  /\ PickNext(rq)
  /\ UNCHANGED priority

Wake(p) ==
  /\ state[p] = "SLEEPING"
  /\ state' = [state EXCEPT ![p] = "RUNNABLE"]
  /\ SetPool(HeapInsert(rq, p, stride))
  /\ UNCHANGED << stride, priority, current >>

\* alloc_proc gives the new process the stride 0.
Fork(p) ==
  /\ state[p] = "UNINIT" /\ current # idleproc
  /\ state' = [state EXCEPT ![p] = "RUNNABLE"]
  /\ stride' = [stride EXCEPT ![p] = 0]
  /\ priority' = [priority EXCEPT ![p] = Weight(0)]
  /\ SetPool(HeapInsert(rq, p, stride'))
  /\ UNCHANGED current

\* lab6_set_priority
SetPriority(n) ==
  /\ current # idleproc
  /\ priority' = [priority EXCEPT ![current] = Weight(n)]
  /\ UNCHANGED << state, stride, run_pool, heap, current >>

Next ==
  \/ Reschedule \/ Sleep \/ Exit
  \/ \E p \in Proc : Wake(p) \/ Fork(p)
  \/ \E n \in Priority : SetPriority(n)

Spec == Init /\ [][Next]_vars

\* The timer interrupts every process once its time slice is used up.
FairSpec == Spec /\ WF_vars(Reschedule)

-----------------------------------------------------------------------------
\* Strides half the words apart come before each other, both ways.
Earlier(p, q) == Pool!Less(stride[p], stride[q]) /\ ~Pool!Less(stride[q], stride[p])

Children(p) == {heap.left[p], heap.right[p]} \ {NULL}

\* The processes that the root leads to.
Members ==
  { p \in Proc : \A S \in SUBSET Proc :
      {run_pool} \ {NULL} \subseteq S /\ (\A q \in S : Children(q) \subseteq S) => p \in S }

(***************************************************************************)
(* The root leads to every RUNNABLE process but the current one, and to    *)
(* each on one way only: a process is a child of its parent alone, on one  *)
(* side, and the root has no parent.  No merge drops or repeats an entry   *)
(* (skew_heap_merge, skew_heap_remove).                                    *)
(***************************************************************************)
HeapExact ==
  /\ Members = { p \in Proc : state[p] = "RUNNABLE" } \ {current}
  /\ \A p \in Members :
       /\ \A c \in Children(p) : heap.parent[c] = p
       /\ heap.left[p] = heap.right[p] => heap.left[p] = NULL
  /\ run_pool # NULL => heap.parent[run_pool] = NULL

(***************************************************************************)
(* No entry of the heap comes before the one above it, whatever the        *)
(* strides: skew_heap_merge compares all entries it links.                 *)
(***************************************************************************)
HeapOrdered == \A p \in Members : \A c \in Children(p) : ~Earlier(c, p)

(***************************************************************************)
(* pick_next takes "the element from the run-queue with the minimum value  *)
(* of stride" (default_sched.c:111): nobody it leaves in the pool comes    *)
(* before it.                                                              *)
(***************************************************************************)
PicksFirst ==
  [][ Reschedule \/ Sleep \/ Exit =>
        \A p \in Members' : ~Earlier(p, current') ]_vars

(***************************************************************************)
(* Where nobody sleeps or forks, the class implements StridePool.          *)
(***************************************************************************)
ImplementsStridePool == Pool!Spec

\* The step of every process is at least 1.
Moderate == \A p \in Proc : priority[p] <= BigStride

(***************************************************************************)
(* Every process in the pool gets the CPU in the end, if from some time on *)
(* no priority is above BIG_STRIDE.  lab6_set_priority takes any word: the *)
(* step of a process with a greater priority is 0, so that it stays first  *)
(* and keeps the CPU from the others for as long as it likes.              *)
(***************************************************************************)
Served == <>[]Moderate => \A p \in Proc : p \in Members ~> current = p

=============================================================================
