----------------------------- MODULE TimerList -----------------------------
(***************************************************************************)
(* The list of timers of kern/schedule/sched.c.  A timer_t stores how many *)
(* ticks after its predecessor in the list it expires, so that the timer   *)
(* interrupt only decrements the first one.                                *)
(***************************************************************************)
EXTENDS Naturals, SequencesExt

CONSTANTS
  Sleeper,    \* the processes that call do_sleep
  MaxTicks    \* bound on the argument of sleep()

ASSUME TimerAssumption == MaxTicks \in Nat

VARIABLES
  called,     \* the processes in do_sleep
  asleep,     \* those whose wait_state is WT_TIMER
  timers,     \* timer_list
  failed      \* an assertion about a timer failed

vars == << called, asleep, timers, failed >>

Timer == [proc : Sleeper, expires : Nat]

\* The ticks until the k-th timer expires.
Due(list, k) ==
  LET sum[j \in 0..Len(list)] == IF j = 0 THEN 0 ELSE sum[j - 1] + list[j].expires
  IN  sum[k]

Init == called = {} /\ asleep = {} /\ timers = << >> /\ failed = FALSE

(***************************************************************************)
(* add_timer: the search goes past the timers that expire no later, and    *)
(* the successor counts from the new one.                                  *)
(***************************************************************************)
Position(list, ticks) ==
  CHOOSE k \in 1 .. Len(list) + 1 :
    /\ k <= Len(list) => ticks < Due(list, k)
    /\ \A j \in 1 .. k - 1 : Due(list, j) <= ticks

AddTimer(list, p, ticks) ==
  LET k == Position(list, ticks)
      t == [proc |-> p, expires |-> ticks - Due(list, k - 1)]
      rest == IF k <= Len(list) THEN [list EXCEPT ![k].expires = @ - t.expires]
                                ELSE list
  IN  InsertAt(rest, k, t)

Linked(list, p) == { k \in DOMAIN list : list[k].proc = p }

UnlinkOnly(list, k) == RemoveAt(list, k)

\* The successor of a timer that has not expired takes over its ticks.
Unlink(list, k) ==
  RemoveAt(IF k = Len(list) THEN list
           ELSE [list EXCEPT ![k + 1].expires = @ + list[k].expires], k)

\* del_timer, for which an expired timer is not linked any more.
DelTimer(list, p) ==
  IF Linked(list, p) = {} THEN list
  ELSE Unlink(list, CHOOSE k \in Linked(list, p) : TRUE)

-----------------------------------------------------------------------------
\* do_sleep up to its call of schedule().
Sleep(p) ==
  /\ p \notin called
  /\ called' = called \cup {p} /\ asleep' = asleep \cup {p}
  /\ \E ticks \in 1..MaxTicks : timers' = AddTimer(timers, p, ticks)
  /\ UNCHANGED failed

\* The length of the run of timers at the head of the list that expire.
ExpiredOne(list) == IF list[1].expires = 0 THEN 1 ELSE 0

Expired(list) ==
  CHOOSE k \in 0 .. Len(list) :
    /\ \A j \in 1..k : list[j].expires = 0
    /\ k < Len(list) => list[k + 1].expires # 0

\* run_timer_list; it stops if the first timer has expired before.
Tick ==
  /\ timers # << >> /\ ~failed
  /\ LET list == [timers EXCEPT ![1].expires = @ - 1]
         k == Expired(list)
     IN  IF timers[1].expires = 0
         THEN failed' = TRUE /\ UNCHANGED << asleep, timers >>
         ELSE /\ asleep' = asleep \ { list[j].proc : j \in 1..k }
              /\ timers' = SubSeq(list, k + 1, Len(list))
              /\ UNCHANGED failed
  /\ UNCHANGED called

\* do_kill ends the wait of p.
Interrupt(p) ==
  /\ p \in asleep
  /\ asleep' = asleep \ {p}
  /\ UNCHANGED << called, timers, failed >>

\* do_sleep behind schedule().
Return(p) ==
  /\ p \in called \ asleep
  /\ called' = called \ {p}
  /\ timers' = DelTimer(timers, p)
  /\ UNCHANGED << asleep, failed >>

Next ==
  \/ Tick
  \/ \E p \in Sleeper : Sleep(p) \/ Interrupt(p) \/ Return(p)

Spec == Init /\ [][Next]_vars

-----------------------------------------------------------------------------
\* The assertion that the first timer has not expired holds at every tick.
AssertHolds == ~failed

(***************************************************************************)
(* The list of relative times implements timers of absolute ones: adding a *)
(* timer and deleting one shift no other, and a tick wakes all whose time  *)
(* is over, those that expire together included.                           *)
(***************************************************************************)
Left == [p \in Sleeper |->
           IF Linked(timers, p) = {} THEN 0
           ELSE Due(timers, CHOOSE k \in Linked(timers, p) : TRUE)]

Abstract == INSTANCE SleepTimers WITH left <- Left
ImplementsSleepTimers == Abstract!Spec

=============================================================================
