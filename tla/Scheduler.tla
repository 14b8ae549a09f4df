----------------------------- MODULE Scheduler -----------------------------
(***************************************************************************)
(* The timers of olsrd (scheduler.c, common/list.c).  A timer is kept in   *)
(* the slot of a timer wheel that its expiry time hashes to, or in a pool. *)
(* One round of the main loop reads the clock, handles packets, walks the  *)
(* slots since the last walk and calls back every timer that is due.       *)
(*                                                                         *)
(* Times are counted in clock ticks, modulo the width of clock_t, so that  *)
(* behaviours are infinite and the clock wraps around.  The callbacks and  *)
(* the packet handlers are modelled by the one timer operation they do.    *)
(***************************************************************************)
EXTENDS Integers, Sequences, FiniteSets

CONSTANTS
    Timer,        \* the timer_entry structures in memory
    Chunk,        \* the blocks olsr_get_timer slices up: sequences of timers
    Slots,        \* TIMER_WHEEL_SLOTS
    Half,         \* clock_t and int range over -Half..Half-1
    RelTime,      \* the relative times timers are set to, in ticks
    MaxStep,      \* ticks one round of the main loop takes at most
    StopsPrev     \* may a callback stop the timer the walk passed last?

Clock == -Half .. Half - 1

ASSUME SchedulerAssumption ==
    /\ Slots \in Nat \ {0}
    /\ Half \in Nat \ {0} /\ (2 * Half) % Slots = 0
    /\ RelTime \subseteq Nat
    /\ MaxStep \in Nat \ {0}
    /\ StopsPrev \in BOOLEAN

(* The heads of the circular lists are nodes too: the wheel's are 0..Slots-1, *)
(* and Pool is free_timer_list.                                               *)
Wheel == 0 .. Slots - 1
Pool == Slots
Lists == Wheel \cup {Pool}
Node == Timer \cup Lists

(* No timer is a head, and a block holds timers, one after the other.      *)
ASSUME MemoryAssumption ==
    /\ Timer \cap Lists = {}
    /\ \A c \in Chunk :
          /\ c \in Seq(Timer) /\ c # <<>>
          /\ \A i, j \in DOMAIN c : i # j => c[i] # c[j]

VARIABLES
    wide,        \* clock_t is wider than int (a 64-bit build)
    now,         \* now_times
    last_run,    \* timer_last_run
    list,        \* the members of every list, in order
    clock,       \* timer_clock of every timer
    period,      \* timer_period: 0 for a one-shot timer
    running,     \* OLSR_TIMER_RUNNING
    pc,          \* where the main loop is
    walked,      \* wheel_slot_walks, 0 outside the walk
    prev, cur    \* timer_walk_prev_node and timer_walk_node, Pool outside

timers == <<list, clock, period, running>>
walk == <<last_run, walked, prev, cur>>
vars == <<wide, now, timers, walk, pc>>

-----------------------------------------------------------------------------
(* Clock arithmetic, in two's complement.                                  *)
Wrap(n) == ((n + Half) % (2 * Half)) - Half

TIMED_OUT(t) == Wrap(clock[t] - now) < 0

(* TLA+'s % is never negative: this is also the code's mask.               *)
SlotOf(c) == c % Slots

(* A relative time loses at most one tick to jitter and rounding.          *)
olsr_jitter(rel) == {Wrap(now + rel), Wrap(now + rel - (IF rel = 0 THEN 0 ELSE 1))}

-----------------------------------------------------------------------------
(* Circular lists.                                                         *)
Members(l) == {list[l][i] : i \in DOMAIN list[l]}

OnList(t, l) == t \in Members(l)

(* list_remove: the nodes before and behind t are linked to each other.    *)
Without(s, t) ==
    IF \E i \in DOMAIN s : s[i] = t
    THEN LET at == CHOOSE i \in DOMAIN s : s[i] = t
         IN  [i \in 1 .. Len(s) - 1 |-> s[IF i < at THEN i ELSE i + 1]]
    ELSE s

(* list_remove and list_add_before(head of l): t becomes the last of l.    *)
MoveTo(t, l) ==
    list' = [k \in Lists |-> IF k = l THEN Append(Without(list[k], t), t)
                                      ELSE Without(list[k], t)]

(* node->next                                                              *)
NextNode(n) ==
    IF n \in Lists THEN IF list[n] = <<>> THEN n ELSE list[n][1]
    ELSE CHOOSE m \in Node :
           \E l \in Lists : \E i \in DOMAIN list[l] :
              /\ list[l][i] = n
              /\ m = IF i = Len(list[l]) THEN l ELSE list[l][i + 1]

-----------------------------------------------------------------------------
(* The operations on timers.                                               *)

(* Take the first timer of the pool; slice up a new block when it is empty. *)
olsr_get_timer(t, l) ==
    \/ /\ list[Pool] # <<>>
       /\ t = list[Pool][1]
       /\ MoveTo(t, l)
    \/ /\ list[Pool] = <<>>
       /\ \E c \in Chunk :
            /\ \A i \in DOMAIN c, k \in Lists : ~OnList(c[i], k)
            /\ t = c[1]
            /\ list' = [list EXCEPT ![Pool] = Tail(c), ![l] = Append(@, t)]

olsr_start_timer(rel, periodical) ==
    \E t \in Timer, c \in olsr_jitter(rel) :
       /\ olsr_get_timer(t, SlotOf(c))
       /\ clock' = [clock EXCEPT ![t] = c]
       /\ period' = [period EXCEPT ![t] = IF periodical THEN rel ELSE 0]
       /\ running' = [running EXCEPT ![t] = TRUE]

(* The time and the period of a timer in the pool are set before they are  *)
(* read again: the model forgets them.                                     *)
olsr_stop_timer(t) ==
    /\ MoveTo(t, Pool)
    /\ running' = [running EXCEPT ![t] = FALSE]
    /\ clock' = [clock EXCEPT ![t] = 0]
    /\ period' = [period EXCEPT ![t] = 0]

(* Mutant: the timer is not moved to the slot of its new time.             *)
ChangeInPlace(t, rel, periodical) ==
    \E c \in olsr_jitter(rel) :
       /\ clock' = [clock EXCEPT ![t] = c]
       /\ period' = [period EXCEPT ![t] = IF periodical THEN rel ELSE 0]
       /\ UNCHANGED <<list, running>>

olsr_change_timer(t, rel, periodical) ==
    \E c \in olsr_jitter(rel) :
       /\ MoveTo(t, SlotOf(c))
       /\ clock' = [clock EXCEPT ![t] = c]
       /\ period' = [period EXCEPT ![t] = IF periodical THEN rel ELSE 0]
       /\ UNCHANGED running

(* On a running timer, whose pointer is not NULL: a zero time stops it.    *)
olsr_set_timer(t, rel, periodical) ==
    IF rel = 0 THEN olsr_stop_timer(t) ELSE olsr_change_timer(t, rel, periodical)

-----------------------------------------------------------------------------
(* The walk.                                                               *)

(* Mutant: the walk does not look at the cached node.                      *)
FollowCurrent == prev' = cur /\ cur' = NextNode(cur)

(* When the cached previous node no longer points at the current one, the   *)
(* current one has left the list.                                           *)
olsr_get_next_list_entry ==
    IF NextNode(prev) = cur
    THEN prev' = cur /\ cur' = NextNode(cur)
    ELSE prev' = prev /\ cur' = NextNode(prev)

(* last_run <= now_times compares two clock_t, not their difference.       *)
Behind ==
    /\ IF wide THEN Wrap(now - last_run) >= 0 ELSE last_run <= now
    /\ walked < Slots

EnterSlot ==
    /\ prev' = SlotOf(last_run)
    /\ cur' = NextNode(SlotOf(last_run))

(* Mutant: the slots walked are not counted.                               *)
UncountedSlot == last_run' = Wrap(last_run + 1) /\ walked' = walked

NextSlot == last_run' = Wrap(last_run + 1) /\ walked' = walked + 1

(* Mutant: the safety belt's reset is missing.                             *)
KeepLastRun == last_run' = last_run

ResetLastRun == last_run' = now

-----------------------------------------------------------------------------
(* The steps of the main loop.                                             *)
Init ==
    /\ wide \in BOOLEAN
    /\ now \in Clock
    /\ last_run = now
    /\ list = [l \in Lists |-> <<>>]
    /\ clock = [t \in Timer |-> 0]
    /\ period = [t \in Timer |-> 0]
    /\ running = [t \in Timer |-> FALSE]
    /\ pc = "input"
    /\ walked = 0
    /\ prev = Pool
    /\ cur = Pool

(* A new round: the clock is read again.                                   *)
Round ==
    /\ pc = "output"
    /\ \E d \in 0 .. MaxStep : now' = Wrap(now + d)
    /\ pc' = "input"
    /\ UNCHANGED <<wide, timers, walk>>

(* A packet handler works on a timer.  What olsr_process_changes does      *)
(* behind the walk is done here too, after a round of no ticks.            *)
Handler ==
    /\ pc = "input"
    /\ \/ \E rel \in RelTime, p \in BOOLEAN : olsr_start_timer(rel, p)
       \/ \E t \in Timer : running[t] /\ olsr_stop_timer(t)
       \/ \E t \in Timer, rel \in RelTime :
             running[t] /\ olsr_set_timer(t, rel, period[t] # 0)
    /\ UNCHANGED <<wide, now, walk, pc>>

(* olsr_walk_timers is entered.                                            *)
BeginWalk ==
    /\ pc = "input"
    /\ pc' = "slot"
    /\ UNCHANGED <<wide, now, timers, walk>>

(* The head of its loop over the slots.                                    *)
WalkSlot ==
    /\ pc = "slot"
    /\ Behind
    /\ EnterSlot
    /\ pc' = "walk"
    /\ UNCHANGED <<wide, now, timers, last_run, walked>>

(* The list is back at its head: on to the next slot.                      *)
SlotDone ==
    /\ pc = "walk"
    /\ cur = SlotOf(last_run)
    /\ NextSlot
    /\ prev' = Pool /\ cur' = Pool
    /\ pc' = "slot"
    /\ UNCHANGED <<wide, now, timers>>

(* A timer that is not due is passed.                                      *)
PassTimer ==
    /\ pc = "walk"
    /\ cur \in Timer
    /\ ~TIMED_OUT(cur)
    /\ olsr_get_next_list_entry
    /\ UNCHANGED <<wide, now, timers, last_run, walked, pc>>

(* A timer that is due is called back.  The callback may leave the timers  *)
(* alone, start one, stop its own, or stop the ones of the entry it        *)
(* deletes.                                                                *)
FireTimer ==
    /\ pc = "walk"
    /\ cur \in Timer
    /\ TIMED_OUT(cur)
    /\ \/ UNCHANGED timers
       \/ \E rel \in RelTime, p \in BOOLEAN : olsr_start_timer(rel, p)
       \/ \E t \in Timer :
             /\ running[t]
             /\ t = prev => StopsPrev
             /\ olsr_stop_timer(t)
    /\ pc' = "fired"
    /\ UNCHANGED <<wide, now, walk>>

(* Behind the callback: a periodic timer that still runs is restarted, a   *)
(* one-shot timer that still runs is stopped.                              *)
AfterCallback ==
    /\ pc = "fired"
    /\ \/ running[cur] /\ period[cur] # 0 /\ olsr_change_timer(cur, period[cur], TRUE)
       \/ running[cur] /\ period[cur] = 0 /\ olsr_stop_timer(cur)
       \/ ~running[cur] /\ UNCHANGED timers
    /\ pc' = "advance"
    /\ UNCHANGED <<wide, now, walk>>

Advance ==
    /\ pc = "advance"
    /\ olsr_get_next_list_entry
    /\ pc' = "walk"
    /\ UNCHANGED <<wide, now, timers, last_run, walked>>

EndWalk ==
    /\ pc = "slot"
    /\ ~Behind
    /\ ResetLastRun
    /\ pc' = "output"
    /\ walked' = 0 /\ prev' = Pool /\ cur' = Pool
    /\ UNCHANGED <<wide, now, timers>>

WalkStep ==
    WalkSlot \/ SlotDone \/ PassTimer \/ FireTimer \/ AfterCallback \/ Advance \/ EndWalk

Next == Round \/ Handler \/ BeginWalk \/ WalkStep

Spec == Init /\ [][Next]_vars

(* The loop has no exit and every call in it returns: the walk goes on.    *)
FairSpec == Spec /\ WF_vars(WalkStep)

-----------------------------------------------------------------------------
(* Properties.                                                             *)

(* The variables have their types.                                         *)
TypeOK ==
    /\ wide \in BOOLEAN
    /\ now \in Clock /\ last_run \in Clock
    /\ list \in [Lists -> Seq(Timer)]
    /\ clock \in [Timer -> Clock]
    /\ period \in [Timer -> RelTime \cup {0}]
    /\ running \in [Timer -> BOOLEAN]
    /\ pc \in {"input", "slot", "walk", "fired", "advance", "output"}
    /\ walked \in 0 .. Slots
    /\ prev \in Node /\ cur \in Node

(* A running timer is on exactly the slot its expiry time hashes to, once, *)
(* and no other timer is on the wheel: whatever handlers and callbacks     *)
(* start, change and stop, no timer is lost or linked twice.               *)
WheelSound ==
    /\ TypeOK
    /\ \A t \in Timer, l \in Wheel :
          OnList(t, l) <=> running[t] /\ l = SlotOf(clock[t])
    /\ \A l \in Lists : \A i, j \in DOMAIN list[l] : i # j => list[l][i] # list[l][j]
    /\ \A t \in Members(Pool) : ~running[t]

(* While the wheel is walked the callbacks take timers off the list that   *)
(* is being walked and put others on.  The node the walk has reached is    *)
(* still one of the slot: what the comment of olsr_get_next_list_entry     *)
(* says caching the previous node is for.                                  *)
WalkInSlot ==
    pc = "walk" => cur = SlotOf(last_run) \/ OnList(cur, SlotOf(last_run))

(* Where clock_t does not wrap, no timer that is due is left behind by a   *)
(* walk, however long the round took.  Where it wraps, the walk of that    *)
(* round is skipped, and the timers it should have called back are reached *)
(* when their slot comes round again.                                      *)
Punctual ==
    pc = "output" =>
       \A t \in Timer : running[t] =>
          IF wide THEN ~TIMED_OUT(t) ELSE Wrap(clock[t] - now) >= -(Slots + MaxStep)

(* Every walk ends, although callbacks restart timers on the slot that is  *)
(* being walked and the clock wraps around.                                *)
WalkEnds == pc = "slot" ~> pc = "output"
=============================================================================
