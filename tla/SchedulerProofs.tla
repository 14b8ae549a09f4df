-------------------------- MODULE SchedulerProofs ---------------------------
(***************************************************************************)
(* Proofs about Scheduler for any timers, blocks, size of the wheel, width *)
(* of the clock and times.                                                 *)
(*                                                                         *)
(* WheelSound is inductive but for the state of the walk: the count of     *)
(* slots stays in range because a slot is entered only while it is below   *)
(* Slots, and the two nodes of the walk are nodes because both are on a    *)
(* list, the pool if a callback stopped them (WheelInv).                   *)
(* WalkInSlot is not: it needs to know that the cached previous node stays *)
(* on the slot through the callback, that the current node is not the      *)
(* previous one, and that in between two timers it is its successor        *)
(* (WalkInv).  The previous node stays only if no callback stops it, so    *)
(* the theorem assumes that StopsPrev is FALSE.                            *)
(* Punctual needs, besides, where every timer that is due stands in the    *)
(* walk: after which slots its turn comes, behind which node of the slot   *)
(* that is being walked, and how late it can be (PunctualInv).             *)
(***************************************************************************)
EXTENDS Scheduler, TLAPS

Distinct(s) == \A i, j \in DOMAIN s : i # j => s[i] # s[j]

Elements(s) == {s[i] : i \in DOMAIN s}

(* What the operations on timers keep.                                     *)
ListsOK == list \in [Lists -> Seq(Timer)] /\ \A l \in Lists : Distinct(list[l])

TimersOK ==
    /\ ListsOK
    /\ clock \in [Timer -> Clock]
    /\ period \in [Timer -> RelTime \cup {0}]
    /\ running \in [Timer -> BOOLEAN]
    /\ \A t \in Timer, l \in Wheel : OnList(t, l) <=> running[t] /\ l = SlotOf(clock[t])
    /\ \A t \in Timer : OnList(t, Pool) => ~running[t]

InWalk == pc \in {"walk", "fired", "advance"}

Linked(n) == n \in Lists \/ \E l \in Lists : OnList(n, l)

(* The wheel's inductive invariant.                                        *)
WheelInv ==
    /\ TypeOK
    /\ TimersOK
    /\ InWalk => walked < Slots /\ Linked(prev)
    /\ pc = "walk" => Linked(cur)
    /\ pc \in {"fired", "advance"} => cur \in Timer

InSlot(n) == n = SlotOf(last_run) \/ OnList(n, SlotOf(last_run))

(* The walk's.                                                             *)
WalkInv ==
    /\ InWalk => InSlot(prev)
    /\ pc = "walk" => cur = NextNode(prev)
    /\ pc \in {"fired", "advance"} => cur # prev
-----------------------------------------------------------------------------
(* Clock arithmetic *)

LEMMA WrapType ==
    ASSUME NEW n \in Int
    PROVE  Wrap(n) \in Clock
<1> DEFINE r == (n + Half) % (2 * Half)
<1>1. Half \in Nat \ {0}
  BY SchedulerAssumption
<1>2. 2 * Half \in Nat \ {0} /\ n + Half \in Int
  BY <1>1
<1>3. r \in 0 .. 2 * Half - 1
  BY <1>2
<1> HIDE DEF r
<1>4. r - Half \in -Half .. Half - 1
  BY <1>1, <1>3
<1> QED
  BY <1>4 DEF Wrap, Clock, r

LEMMA ClockInt == Clock \subseteq Int
BY SchedulerAssumption DEF Clock

LEMMA SlotType ==
    ASSUME NEW c \in Int
    PROVE  SlotOf(c) \in Wheel /\ SlotOf(c) \in Lists /\ SlotOf(c) # Pool
<1>1. Slots \in Nat \ {0}
  BY SchedulerAssumption
<1>2. c % Slots \in 0 .. Slots - 1
  BY <1>1
<1> QED
  BY <1>1, <1>2 DEF SlotOf, Wheel, Lists, Pool

LEMMA JitterType ==
    ASSUME TypeOK, NEW rel \in RelTime \cup {0}, NEW c \in olsr_jitter(rel)
    PROVE  c \in Clock
<1>1. rel \in Int /\ now \in Int
  BY SchedulerAssumption, ClockInt DEF TypeOK
<1>2. now + rel \in Int /\ now + rel - (IF rel = 0 THEN 0 ELSE 1) \in Int
  BY <1>1
<1> QED
  BY <1>2, WrapType DEF olsr_jitter

LEMMA Heads == Pool \in Lists /\ Wheel \subseteq Lists /\ Pool \notin Wheel /\ Timer \cap Lists = {}
BY SchedulerAssumption, MemoryAssumption DEF Lists, Wheel, Pool
-----------------------------------------------------------------------------
(* Lists *)

LEMMA WithoutFacts ==
    ASSUME NEW s \in Seq(Timer), Distinct(s), NEW t
    PROVE  /\ Without(s, t) \in Seq(Timer)
           /\ Distinct(Without(s, t))
           /\ \A u : u \in Elements(Without(s, t)) <=> u \in Elements(s) /\ u # t
<1>1. CASE ~\E i \in DOMAIN s : s[i] = t
  BY <1>1 DEF Without, Elements
<1>2. CASE \E i \in DOMAIN s : s[i] = t
  <2> DEFINE at == CHOOSE i \in DOMAIN s : s[i] = t
             w == [i \in 1 .. Len(s) - 1 |-> s[IF i < at THEN i ELSE i + 1]]
  <2>1. at \in DOMAIN s /\ s[at] = t
    BY <1>2
  <2>2. Without(s, t) = w
    BY <1>2 DEF Without
  <2> HIDE DEF at
  <2>3. DOMAIN s = 1 .. Len(s) /\ Len(s) \in Nat /\ at \in 1 .. Len(s)
    BY <2>1
  <2>4. Len(s) - 1 \in Nat
    BY <2>3
  <2>5. \A i \in 1 .. Len(s) - 1 : (IF i < at THEN i ELSE i + 1) \in DOMAIN s
    BY <2>3
  <2>6. w \in [1 .. Len(s) - 1 -> Timer]
    BY <2>5
  <2>7. w \in Seq(Timer)
    BY <2>4, <2>6
  <2>8. Distinct(w)
    <3> SUFFICES ASSUME NEW i \in 1 .. Len(s) - 1, NEW j \in 1 .. Len(s) - 1, i # j
                 PROVE  w[i] # w[j]
      BY DEF Distinct
    <3>1. (IF i < at THEN i ELSE i + 1) # (IF j < at THEN j ELSE j + 1)
      BY <2>3
    <3> QED
      BY <2>5, <3>1 DEF Distinct
  <2>9. ASSUME NEW u PROVE u \in Elements(w) <=> u \in Elements(s) /\ u # t
    <3>1. ASSUME u \in Elements(w) PROVE u \in Elements(s) /\ u # t
      <4>1. PICK i \in 1 .. Len(s) - 1 : u = s[IF i < at THEN i ELSE i + 1]
        BY <3>1 DEF Elements
      <4>2. (IF i < at THEN i ELSE i + 1) # at
        BY <2>3
      <4> QED
        BY <2>1, <2>5, <4>1, <4>2 DEF Elements, Distinct
    <3>2. ASSUME u \in Elements(s), u # t PROVE u \in Elements(w)
      <4>1. PICK k \in 1 .. Len(s) : u = s[k]
        BY <2>3, <3>2 DEF Elements
      <4>2. k # at
        BY <2>1, <3>2, <4>1
      <4>3. CASE k < at
        <5>1. k \in 1 .. Len(s) - 1 /\ w[k] = u
          BY <2>3, <4>1, <4>3
        <5> QED
          BY <5>1 DEF Elements
      <4>4. CASE k > at
        <5>1. k - 1 \in 1 .. Len(s) - 1 /\ ~(k - 1 < at) /\ (k - 1) + 1 = k
          BY <2>3, <4>4
        <5>2. w[k - 1] = u
          BY <4>1, <5>1
        <5> QED
          BY <5>1, <5>2 DEF Elements
      <4> QED
        BY <2>3, <4>2, <4>3, <4>4
    <3> QED
      BY <3>1, <3>2
  <2> QED
    BY <2>2, <2>7, <2>8, <2>9
<1> QED
  BY <1>1, <1>2

LEMMA AppendFacts ==
    ASSUME NEW s \in Seq(Timer), Distinct(s), NEW t \in Timer, t \notin Elements(s)
    PROVE  /\ Append(s, t) \in Seq(Timer)
           /\ Distinct(Append(s, t))
           /\ \A u : u \in Elements(Append(s, t)) <=> u \in Elements(s) \/ u = t
<1> DEFINE a == Append(s, t)
<1>1. /\ a \in Seq(Timer) /\ Len(s) \in Nat /\ DOMAIN s = 1 .. Len(s)
      /\ DOMAIN a = 1 .. Len(s) + 1
      /\ \A i \in 1 .. Len(s) : a[i] = s[i]
      /\ a[Len(s) + 1] = t
  OBVIOUS
<1> HIDE DEF a
<1>2. ASSUME NEW i \in DOMAIN a PROVE i \in DOMAIN s \/ i = Len(s) + 1
  BY <1>1
<1>3. Distinct(a)
  BY <1>1, <1>2 DEF Distinct, Elements
<1>4. ASSUME NEW u PROVE u \in Elements(a) <=> u \in Elements(s) \/ u = t
  <2>1. Len(s) + 1 \in DOMAIN a /\ DOMAIN s \subseteq DOMAIN a
    BY <1>1
  <2>2. ASSUME u \in Elements(a) PROVE u \in Elements(s) \/ u = t
    BY <1>1, <1>2, <2>2 DEF Elements
  <2>3. ASSUME u \in Elements(s) \/ u = t PROVE u \in Elements(a)
    BY <1>1, <2>1, <2>3 DEF Elements
  <2> QED
    BY <2>2, <2>3
<1> QED
  BY <1>1, <1>3, <1>4 DEF a

\* A moved timer is on the list it was moved to and on no other one.
LEMMA MoveToFacts ==
    ASSUME ListsOK, NEW t \in Timer, NEW l \in Lists, MoveTo(t, l)
    PROVE  /\ ListsOK'
           /\ \A u \in Timer, k \in Lists : OnList(u, k)' <=> IF u = t THEN k = l ELSE OnList(u, k)
<1>1. ASSUME NEW k \in Lists
      PROVE  /\ list'[k] \in Seq(Timer) /\ Distinct(list'[k])
             /\ \A u : u \in Elements(list'[k]) <=> IF u = t THEN k = l ELSE u \in Elements(list[k])
  <2> DEFINE w == Without(list[k], t)
  <2>1. list[k] \in Seq(Timer) /\ Distinct(list[k])
    BY DEF ListsOK
  <2>2. /\ w \in Seq(Timer) /\ Distinct(w)
        /\ \A u : u \in Elements(w) <=> u \in Elements(list[k]) /\ u # t
    BY <2>1, WithoutFacts
  <2>3. list'[k] = IF k = l THEN Append(w, t) ELSE w
    BY DEF MoveTo
  <2> HIDE DEF w
  <2>4. CASE k = l
    BY <2>2, <2>3, <2>4, AppendFacts
  <2>5. CASE k # l
    BY <2>2, <2>3, <2>5
  <2> QED
    BY <2>4, <2>5
<1>2. ListsOK'
  <2>1. list' = [k \in Lists |-> list'[k]]
    BY DEF MoveTo
  <2> QED
    BY <1>1, <2>1 DEF ListsOK
<1> QED
  BY <1>1, <1>2 DEF OnList, Members, Elements

\* The successor of a timer is the next one of its list, or the head.
Successor(l, i) == IF i = Len(list[l]) THEN l ELSE list[l][i + 1]

LEMMA NextNodeAt ==
    ASSUME TimersOK, NEW l \in Lists, NEW i \in DOMAIN list[l]
    PROVE  /\ NextNode(list[l][i]) = Successor(l, i)
           /\ i # Len(list[l]) =>
                /\ i + 1 \in DOMAIN list[l] /\ Successor(l, i) \in Timer
                /\ Successor(l, i) # list[l][i]
<1> DEFINE n == list[l][i]
           After(m, k, j) == list[k][j] = n /\ m = IF j = Len(list[k]) THEN k ELSE list[k][j + 1]
           succ == IF i = Len(list[l]) THEN l ELSE list[l][i + 1]
<1>1. list[l] \in Seq(Timer) /\ Distinct(list[l])
  BY Heads DEF TimersOK, ListsOK
<1>2. n \in Timer /\ n \notin Lists /\ i \in 1 .. Len(list[l]) /\ Len(list[l]) \in Nat
  BY <1>1, Heads
<1>3. NextNode(n) = CHOOSE m \in Node : \E k \in Lists : \E j \in DOMAIN list[k] : After(m, k, j)
  BY <1>2 DEF NextNode
<1>4. ASSUME NEW k \in Lists, NEW j \in DOMAIN list[k], list[k][j] = n
      PROVE  k = l /\ j = i
  <2>1. OnList(n, k) /\ OnList(n, l)
    BY <1>4 DEF OnList, Members
  <2>2. k = l
    BY <1>2, <2>1 DEF TimersOK, Lists
  <2> QED
    BY <1>1, <1>4, <2>2 DEF Distinct
<1>5. ASSUME i # Len(list[l])
      PROVE  i + 1 \in DOMAIN list[l] /\ succ = list[l][i + 1] /\ succ \in Timer /\ succ # n
  <2>1. i + 1 \in DOMAIN list[l] /\ i + 1 # i
    BY <1>1, <1>2, <1>5
  <2> QED
    BY <1>1, <1>5, <2>1 DEF Distinct
<1>6. succ \in Node
  BY <1>1, <1>5 DEF Node
<1>7. After(succ, l, i)
  OBVIOUS
<1>8. \A m \in Node : (\E k \in Lists : \E j \in DOMAIN list[k] : After(m, k, j)) <=> m = succ
  <2> HIDE DEF succ
  <2>1. ASSUME NEW m \in Node, NEW k \in Lists, NEW j \in DOMAIN list[k], After(m, k, j)
        PROVE  m = succ
    BY <1>4, <2>1 DEF succ
  <2> HIDE DEF After
  <2> QED
    BY <1>7, <2>1
<1> HIDE DEF After
<1>9. NextNode(n) = succ
  <2> HIDE DEF succ, n
  <2> QED
    BY <1>3, <1>6, <1>8
<1> QED
  BY <1>5, <1>9 DEF Successor

\* The successor of a node of a list is on that list or its head, and is
\* not the node itself unless the list is empty.
LEMMA NextNodeFacts ==
    ASSUME TimersOK, NEW l \in Lists, NEW n, n = l \/ OnList(n, l)
    PROVE  /\ NextNode(n) = l \/ OnList(NextNode(n), l)
           /\ NextNode(n) \in Node
           /\ NextNode(n) \in Timer => NextNode(n) # n
<1>1. l \in Lists /\ list[l] \in Seq(Timer) /\ Distinct(list[l])
  BY Heads DEF TimersOK, ListsOK
<1>2. CASE n = l
  <2>1. CASE list[l] = <<>>
    BY <1>1, <1>2, <2>1, Heads DEF NextNode, Node
  <2>2. CASE list[l] # <<>>
    <3>1. 1 \in DOMAIN list[l] /\ list[l][1] \in Timer
      BY <1>1, <2>2
    <3>2. NextNode(n) = list[l][1]
      BY <1>1, <1>2, <2>2 DEF NextNode
    <3> QED
      BY <1>1, <1>2, <3>1, <3>2, Heads DEF OnList, Members, Node
  <2> QED
    BY <2>1, <2>2
<1>3. CASE OnList(n, l)
  <2>1. PICK i \in DOMAIN list[l] : list[l][i] = n
    BY <1>3 DEF OnList, Members
  <2>2. NextNode(n) = Successor(l, i)
    BY <2>1, NextNodeAt
  <2>3. CASE i = Len(list[l])
    BY <2>2, <2>3, Heads DEF Successor, Node
  <2>4. CASE i # Len(list[l])
    <3>1. i + 1 \in DOMAIN list[l] /\ Successor(l, i) \in Timer /\ Successor(l, i) # n
      BY <2>1, <2>4, NextNodeAt
    <3>2. OnList(Successor(l, i), l)
      BY <2>4, <3>1 DEF Successor, OnList, Members
    <3> QED
      BY <2>2, <3>1, <3>2 DEF Node
  <2> QED
    BY <2>3, <2>4
<1> QED
  BY <1>2, <1>3
-----------------------------------------------------------------------------
(* The operations on timers *)

\* A timer that is stopped leaves the wheel, and no other one does.
LEMMA StopFacts ==
    ASSUME TimersOK, NEW t \in Timer, olsr_stop_timer(t)
    PROVE  /\ TimersOK'
           /\ \A u \in Timer, k \in Wheel : u # t /\ OnList(u, k) => OnList(u, k)'
           /\ \A u \in Node : Linked(u) => Linked(u)'
<1>1. /\ ListsOK'
      /\ \A u \in Timer, k \in Lists : OnList(u, k)' <=> IF u = t THEN k = Pool ELSE OnList(u, k)
  BY MoveToFacts, Heads DEF TimersOK, olsr_stop_timer
<1>2. 0 \in Clock
  BY SchedulerAssumption DEF Clock
<1>3. /\ clock' \in [Timer -> Clock]
      /\ period' \in [Timer -> RelTime \cup {0}]
      /\ running' \in [Timer -> BOOLEAN]
  BY <1>2 DEF TimersOK, olsr_stop_timer
<1>4. \A u \in Timer : IF u = t THEN ~running'[u]
                       ELSE running'[u] = running[u] /\ clock'[u] = clock[u]
  BY DEF TimersOK, olsr_stop_timer
<1>5. ASSUME NEW u \in Timer, NEW l \in Wheel
      PROVE  OnList(u, l)' <=> running'[u] /\ l = SlotOf(clock'[u])
  BY <1>1, <1>4, Heads DEF TimersOK
<1>6. ASSUME NEW u \in Timer, OnList(u, Pool)' PROVE ~running'[u]
  BY <1>1, <1>4, <1>6, Heads DEF TimersOK
<1>7. TimersOK'
  BY <1>1, <1>3, <1>5, <1>6 DEF TimersOK, SlotOf
<1>8. \A u \in Node : Linked(u) => Linked(u)'
  BY <1>1, Heads DEF Linked, Node
<1> QED
  BY <1>1, <1>7, <1>8, Heads

\* A timer that is changed is on the slot of its new time.
LEMMA ChangeFacts ==
    ASSUME TypeOK, TimersOK, NEW t \in Timer, running[t], NEW rel \in RelTime \cup {0},
           NEW p, olsr_change_timer(t, rel, p)
    PROVE  /\ TimersOK'
           /\ \A u \in Timer, k \in Wheel : u # t /\ OnList(u, k) => OnList(u, k)'
           /\ \A u \in Node : Linked(u) => Linked(u)'
<1>1. PICK c \in olsr_jitter(rel) :
         /\ MoveTo(t, SlotOf(c))
         /\ clock' = [clock EXCEPT ![t] = c]
         /\ period' = [period EXCEPT ![t] = IF p THEN rel ELSE 0]
         /\ running' = running
  BY DEF olsr_change_timer
<1>2. c \in Clock /\ c \in Int
  BY JitterType, ClockInt
<1>3. SlotOf(c) \in Wheel /\ SlotOf(c) \in Lists /\ SlotOf(c) # Pool
  BY <1>2, SlotType
<1>4. /\ ListsOK'
      /\ \A u \in Timer, k \in Lists : OnList(u, k)' <=> IF u = t THEN k = SlotOf(c) ELSE OnList(u, k)
  BY <1>1, <1>3, MoveToFacts DEF TimersOK
<1>5. /\ clock' \in [Timer -> Clock]
      /\ period' \in [Timer -> RelTime \cup {0}]
      /\ running' \in [Timer -> BOOLEAN]
  BY <1>1, <1>2 DEF TimersOK
<1>6. \A u \in Timer : clock'[u] = IF u = t THEN c ELSE clock[u]
  BY <1>1 DEF TimersOK
<1>7. ASSUME NEW u \in Timer, NEW l \in Wheel
      PROVE  OnList(u, l)' <=> running'[u] /\ l = SlotOf(clock'[u])
  BY <1>1, <1>3, <1>4, <1>6, Heads DEF TimersOK
<1>8. ASSUME NEW u \in Timer, OnList(u, Pool)' PROVE ~running'[u]
  BY <1>1, <1>3, <1>4, <1>8, Heads DEF TimersOK
<1>9. TimersOK'
  BY <1>4, <1>5, <1>7, <1>8 DEF TimersOK, SlotOf
<1>10. \A u \in Node : Linked(u) => Linked(u)'
  BY <1>3, <1>4, Heads DEF Linked, Node
<1> QED
  BY <1>4, <1>9, <1>10, Heads

\* olsr_get_timer hands out a timer that is not running, from the pool or
\* from a new block, and disturbs nothing else on the wheel.
LEMMA GetFacts ==
    ASSUME TimersOK, NEW t \in Timer, NEW l \in Wheel, olsr_get_timer(t, l)
    PROVE  /\ ListsOK'
           /\ ~running[t]
           /\ \A k \in Lists : OnList(t, k)' <=> k = l
           /\ \A u \in Timer, k \in Wheel : u # t => (OnList(u, k)' <=> OnList(u, k))
           /\ \A u \in Timer : OnList(u, Pool)' => ~running[u]
           /\ \A u \in Timer : u # t /\ OnList(u, Pool) => OnList(u, Pool)'
<1>1. CASE list[Pool] # <<>> /\ t = list[Pool][1] /\ MoveTo(t, l)
  <2>1. 1 \in DOMAIN list[Pool]
    BY <1>1, Heads DEF TimersOK, ListsOK
  <2>2. OnList(t, Pool)
    BY <1>1, <2>1 DEF OnList, Members
  <2>3. /\ ListsOK'
        /\ \A u \in Timer, k \in Lists : OnList(u, k)' <=> IF u = t THEN k = l ELSE OnList(u, k)
    BY <1>1, MoveToFacts, Heads DEF TimersOK
  <2> QED
    BY <2>2, <2>3, Heads DEF TimersOK
<1>2. ASSUME list[Pool] = <<>>, NEW c \in Chunk,
             \A i \in DOMAIN c, k \in Lists : ~OnList(c[i], k),
             t = c[1],
             list' = [list EXCEPT ![Pool] = Tail(c), ![l] = Append(@, t)]
      PROVE  /\ ListsOK'
             /\ ~running[t]
             /\ \A k \in Lists : OnList(t, k)' <=> k = l
             /\ \A u \in Timer, k \in Wheel : u # t => (OnList(u, k)' <=> OnList(u, k))
             /\ \A u \in Timer : OnList(u, Pool)' => ~running[u]
             /\ \A u : ~OnList(u, Pool)
  <2>1. c \in Seq(Timer) /\ c # <<>> /\ Distinct(c)
    BY MemoryAssumption DEF Distinct
  <2>2. 1 \in DOMAIN c /\ Len(c) \in Nat /\ DOMAIN c = 1 .. Len(c)
    BY <2>1
  <2>3. l \in Lists /\ Pool \in Lists /\ l # Pool
    BY Heads
  <2>4. /\ list'[Pool] = Tail(c)
        /\ list'[l] = Append(list[l], t)
        /\ \A k \in Lists \ {Pool, l} : list'[k] = list[k]
        /\ list' = [k \in Lists |-> list'[k]]
    BY <1>2, <2>3 DEF TimersOK, ListsOK
  <2>5. ASSUME NEW i \in DOMAIN c PROVE c[i] \in Timer /\ ~running[c[i]]
    <3>1. c[i] \in Timer
      BY <2>1
    <3>2. clock[c[i]] \in Int
      BY <3>1, ClockInt DEF TimersOK
    <3>3. SlotOf(clock[c[i]]) \in Wheel /\ SlotOf(clock[c[i]]) \in Lists
      BY <3>2, SlotType
    <3> QED
      BY <1>2, <3>1, <3>3 DEF TimersOK
  <2>6. /\ Tail(c) \in Seq(Timer) /\ DOMAIN Tail(c) = 1 .. Len(c) - 1
        /\ \A i \in 1 .. Len(c) - 1 : i + 1 \in DOMAIN c /\ Tail(c)[i] = c[i + 1]
    BY <2>1, <2>2
  <2>7. Distinct(Tail(c)) /\ t \notin Elements(Tail(c))
    <3> DEFINE r == Tail(c)
    <3>1. /\ DOMAIN r = 1 .. Len(c) - 1
          /\ \A i \in DOMAIN r : i + 1 \in DOMAIN c /\ r[i] = c[i + 1] /\ i \in Nat
      BY <2>2, <2>6
    <3> HIDE DEF r
    <3>2. ASSUME NEW i \in DOMAIN r, NEW j \in DOMAIN r, i # j PROVE r[i] # r[j]
      <4>1. i + 1 # j + 1
        BY <3>1, <3>2
      <4> QED
        BY <2>1, <3>1, <4>1 DEF Distinct
    <3>3. ASSUME NEW i \in DOMAIN r PROVE r[i] # t
      <4>1. i + 1 # 1
        BY <2>2, <3>1
      <4> QED
        BY <1>2, <2>1, <2>2, <3>1, <4>1 DEF Distinct
    <3>4. Distinct(r) /\ t \notin Elements(r)
      BY <3>2, <3>3 DEF Distinct, Elements
    <3> QED
      BY <3>4 DEF r
  <2>8. \A u \in Elements(Tail(c)) : ~running[u]
    BY <2>5, <2>6 DEF Elements
  <2>9. list[l] \in Seq(Timer) /\ Distinct(list[l]) /\ \A k \in Lists : t \notin Elements(list[k])
    <3>1. list[l] \in Seq(Timer) /\ Distinct(list[l])
      BY <2>3 DEF TimersOK, ListsOK
    <3>2. \A k \in Lists : ~OnList(t, k)
      BY <1>2, <2>2
    <3> QED
      BY <3>1, <3>2 DEF OnList, Members, Elements
  <2>10. /\ list'[l] \in Seq(Timer) /\ Distinct(list'[l])
         /\ \A u : u \in Elements(list'[l]) <=> u \in Elements(list[l]) \/ u = t
    BY <2>3, <2>4, <2>9, AppendFacts
  <2>11. \A k \in Lists : list'[k] \in Seq(Timer) /\ Distinct(list'[k])
    BY <2>4, <2>6, <2>7, <2>10 DEF TimersOK, ListsOK
  <2>12. ListsOK'
    BY <2>4, <2>11 DEF ListsOK
  <2>13. ~running[t]
    BY <1>2, <2>2, <2>5
  <2>14. \A k \in Lists : t \in Elements(list'[k]) <=> k = l
    BY <2>3, <2>4, <2>7, <2>9, <2>10
  <2>15. \A u \in Timer, k \in Wheel : u # t => (u \in Elements(list'[k]) <=> u \in Elements(list[k]))
    BY <2>3, <2>4, <2>10, Heads
  <2>16. \A u \in Timer : u \in Elements(list'[Pool]) => ~running[u]
    BY <2>4, <2>8
  <2>17. \A u : ~OnList(u, Pool)
    BY <1>2 DEF OnList, Members
  <2> QED
    BY <2>12, <2>13, <2>14, <2>15, <2>16, <2>17 DEF OnList, Members, Elements
<1> QED
  BY <1>1, <1>2 DEF olsr_get_timer

LEMMA StartFacts ==
    ASSUME TypeOK, TimersOK, NEW rel \in RelTime, NEW p, olsr_start_timer(rel, p)
    PROVE  /\ TimersOK'
           /\ \A u \in Timer, k \in Wheel : OnList(u, k) => OnList(u, k)'
           /\ \A u \in Node : Linked(u) => Linked(u)'
<1>1. PICK t \in Timer, c \in olsr_jitter(rel) :
         /\ olsr_get_timer(t, SlotOf(c))
         /\ clock' = [clock EXCEPT ![t] = c]
         /\ period' = [period EXCEPT ![t] = IF p THEN rel ELSE 0]
         /\ running' = [running EXCEPT ![t] = TRUE]
  BY DEF olsr_start_timer
<1>2. c \in Clock /\ c \in Int
  BY JitterType, ClockInt
<1>3. SlotOf(c) \in Wheel /\ SlotOf(c) \in Lists /\ SlotOf(c) # Pool
  BY <1>2, SlotType
<1>4. /\ ListsOK'
      /\ ~running[t]
      /\ \A k \in Lists : OnList(t, k)' <=> k = SlotOf(c)
      /\ \A u \in Timer, k \in Wheel : u # t => (OnList(u, k)' <=> OnList(u, k))
      /\ \A u \in Timer : OnList(u, Pool)' => ~running[u]
      /\ \A u \in Timer : u # t /\ OnList(u, Pool) => OnList(u, Pool)'
  BY <1>1, <1>3, GetFacts
<1>5. /\ clock' \in [Timer -> Clock]
      /\ period' \in [Timer -> RelTime \cup {0}]
      /\ running' \in [Timer -> BOOLEAN]
  BY <1>1, <1>2 DEF TimersOK
<1>6. \A u \in Timer : IF u = t THEN running'[u] /\ clock'[u] = c
                       ELSE running'[u] = running[u] /\ clock'[u] = clock[u]
  BY <1>1 DEF TimersOK
<1>7. ASSUME NEW u \in Timer, NEW l \in Wheel
      PROVE  OnList(u, l)' <=> running'[u] /\ l = SlotOf(clock'[u])
  BY <1>3, <1>4, <1>6, Heads DEF TimersOK
<1>8. ASSUME NEW u \in Timer, OnList(u, Pool)' PROVE ~running'[u]
  BY <1>3, <1>4, <1>6, <1>8, Heads
<1>9. TimersOK'
  BY <1>4, <1>5, <1>7, <1>8 DEF TimersOK, SlotOf
<1>10. \A k \in Wheel : ~OnList(t, k)
  BY <1>4 DEF TimersOK
<1>11. ASSUME NEW u \in Timer, NEW l \in Lists, OnList(u, l) PROVE Linked(u)'
  BY <1>3, <1>4, <1>11 DEF Linked, Lists
<1>12. \A u \in Node : Linked(u) => Linked(u)'
  BY <1>11 DEF Linked, Node
<1> QED
  BY <1>4, <1>9, <1>10, <1>12
-----------------------------------------------------------------------------
(* The wheel *)

LEMMA InitWheel ==
    ASSUME Init
    PROVE  WheelInv
<1>1. Slots \in Nat \ {0} /\ Pool \in Lists /\ 0 \in Clock
  BY SchedulerAssumption, Heads DEF Clock
<1>2. \A l \in Lists : list[l] = <<>>
  BY DEF Init
<1>3. \A t, l : l \in Lists => ~OnList(t, l)
  BY <1>2 DEF OnList, Members
<1>4. TypeOK
  BY <1>1 DEF Init, TypeOK, Node
<1>5. ListsOK
  BY <1>2, <1>4 DEF ListsOK, TypeOK, Distinct
<1>6. TimersOK
  BY <1>3, <1>4, <1>5, Heads DEF TimersOK, TypeOK, Init
<1> QED
  BY <1>4, <1>6 DEF WheelInv, Init, InWalk

LEMMA WheelExplained ==
    ASSUME WheelInv
    PROVE  WheelSound
<1>1. \A t \in Members(Pool) : t \in Timer /\ ~running[t]
  BY Heads DEF WheelInv, TimersOK, ListsOK, OnList, Members
<1> QED
  BY <1>1 DEF WheelSound, WheelInv, TimersOK, ListsOK, Distinct

LEMMA UnchangedTimers ==
    ASSUME TimersOK, UNCHANGED timers
    PROVE  /\ TimersOK'
           /\ \A n, l : OnList(n, l)' <=> OnList(n, l)
           /\ \A n : Linked(n)' <=> Linked(n)
           /\ \A n : NextNode(n)' = NextNode(n)
<1>1. list' = list /\ clock' = clock /\ period' = period /\ running' = running
  BY DEF timers
<1>2. \A n : NextNode(n)' = NextNode(n)
  BY <1>1 DEF NextNode
<1>3. (\A n, l : OnList(n, l)' <=> OnList(n, l)) /\ (\A n : Linked(n)' <=> Linked(n))
  BY <1>1 DEF OnList, Members, Linked
<1>4. TimersOK'
  BY <1>1 DEF TimersOK, ListsOK, OnList, Members, SlotOf
<1> QED
  BY <1>2, <1>3, <1>4

\* What a handler or a callback does to the timers.
LEMMA HandlerFacts ==
    ASSUME WheelInv,
           \/ \E rel \in RelTime, p \in BOOLEAN : olsr_start_timer(rel, p)
           \/ \E t \in Timer : running[t] /\ olsr_stop_timer(t)
           \/ \E t \in Timer, rel \in RelTime :
                 running[t] /\ olsr_set_timer(t, rel, period[t] # 0)
    PROVE  TimersOK'
BY StartFacts, StopFacts, ChangeFacts DEF WheelInv, olsr_set_timer

\* What follows the callback moves no timer but the current one.
LEMMA AfterCallbackFacts ==
    ASSUME WheelInv, cur \in Timer, AfterCallback
    PROVE  /\ TimersOK'
           /\ \A u \in Timer, k \in Wheel : u # cur /\ OnList(u, k) => OnList(u, k)'
           /\ \A u \in Node : Linked(u) => Linked(u)'
<1>1. CASE running[cur] /\ period[cur] # 0 /\ olsr_change_timer(cur, period[cur], TRUE)
  <2>1. period[cur] \in RelTime \cup {0}
    BY DEF WheelInv, TimersOK
  <2> QED
    BY <1>1, <2>1, ChangeFacts DEF WheelInv
<1>2. CASE running[cur] /\ period[cur] = 0 /\ olsr_stop_timer(cur)
  BY <1>2, StopFacts DEF WheelInv
<1>3. CASE UNCHANGED timers
  BY <1>3 DEF WheelInv, timers, TimersOK, ListsOK, OnList, Members, SlotOf, Linked
<1> QED
  BY <1>1, <1>2, <1>3 DEF AfterCallback

\* Through the callback: the node cached as the previous one stays.
LEMMA FireFacts ==
    ASSUME WheelInv, FireTimer
    PROVE  /\ TimersOK'
           /\ \A u \in Node : Linked(u) => Linked(u)'
           /\ StopsPrev = FALSE =>
                \A k \in Wheel : prev \in Timer /\ OnList(prev, k) => OnList(prev, k)'
<1> DEFINE Kept == \A k \in Wheel : prev \in Timer /\ OnList(prev, k) => OnList(prev, k)'
           Good == TimersOK' /\ \A u \in Node : Linked(u) => Linked(u)'
<1>1. TimersOK /\ TypeOK /\ prev' = prev
  BY DEF WheelInv, FireTimer, walk
<1>2. CASE UNCHANGED timers
  <2>1. list' = list
    BY <1>2 DEF timers
  <2>2. Good
    BY <1>1, <1>2, UnchangedTimers
  <2> QED
    BY <1>1, <2>1, <2>2 DEF OnList, Members
<1>3. ASSUME NEW rel \in RelTime, NEW p \in BOOLEAN, olsr_start_timer(rel, p) PROVE Good /\ Kept
  <2>1. Good /\ \A u \in Timer, k \in Wheel : OnList(u, k) => OnList(u, k)'
    BY <1>1, <1>3, StartFacts
  <2> QED
    BY <1>1, <2>1 DEF OnList
<1>4. ASSUME NEW t \in Timer, t = prev => StopsPrev, olsr_stop_timer(t)
      PROVE  Good /\ (StopsPrev = FALSE => Kept)
  <2>1. Good /\ \A u \in Timer, k \in Wheel : u # t /\ OnList(u, k) => OnList(u, k)'
    BY <1>1, <1>4, StopFacts
  <2> QED
    BY <1>1, <1>4, <2>1 DEF OnList
<1> HIDE DEF Kept, Good
<1>5. Good /\ (StopsPrev = FALSE => Kept)
  BY <1>2, <1>3, <1>4 DEF FireTimer, Kept, Good
<1> QED
  BY <1>5 DEF Kept, Good

\* The walk goes from a node of the slot to a node of the slot, and what it
\* caches is the node before.
LEMMA AdvanceFacts ==
    ASSUME TimersOK, NEW l \in Lists, prev = l \/ OnList(prev, l), cur \in Timer,
           olsr_get_next_list_entry
    PROVE  /\ prev' = l \/ OnList(prev', l)
           /\ prev' \in Node
           /\ cur' = NextNode(prev')
           /\ cur' \in Node
<1>1. CASE NextNode(prev) = cur
  <2>1. prev' = cur /\ cur' = NextNode(cur)
    BY <1>1 DEF olsr_get_next_list_entry
  <2>2. OnList(cur, l)
    BY <1>1, NextNodeFacts, Heads
  <2> QED
    BY <2>1, <2>2, NextNodeFacts DEF Node
<1>2. CASE NextNode(prev) # cur
  <2>1. prev' = prev /\ cur' = NextNode(prev)
    BY <1>2 DEF olsr_get_next_list_entry
  <2>2. prev \in Node
    BY Heads DEF Node, OnList, Members, TimersOK, ListsOK
  <2> QED
    BY <2>1, <2>2, NextNodeFacts
<1> QED
  BY <1>1, <1>2

\* What the two nodes of the walk and the count have to do with its stage.
LEMMA WheelStep ==
    ASSUME WheelInv, TimersOK', wide' = wide, now' \in Clock, last_run' \in Clock,
           pc' \in {"input", "slot", "walk", "fired", "advance", "output"},
           walked' \in 0 .. Slots, prev' \in Node, cur' \in Node,
           pc' \in {"walk", "fired", "advance"} => walked' < Slots /\ Linked(prev)',
           pc' = "walk" => Linked(cur)',
           pc' \in {"fired", "advance"} => cur' \in Timer
    PROVE  WheelInv'
<1>1. TypeOK'
  BY DEF WheelInv, TypeOK, TimersOK, ListsOK
<1> QED
  BY <1>1 DEF WheelInv, InWalk

LEMMA AdvanceLinked ==
    ASSUME WheelInv, UNCHANGED timers, Linked(prev), cur \in Timer, olsr_get_next_list_entry
    PROVE  prev' \in Node /\ cur' \in Node /\ Linked(prev)' /\ Linked(cur)'
<1>1. TimersOK
  BY DEF WheelInv
<1>2. PICK l \in Lists : prev = l \/ OnList(prev, l)
  BY DEF Linked
<1>3. /\ prev' = l \/ OnList(prev', l)
      /\ prev' \in Node /\ cur' \in Node /\ cur' = NextNode(prev')
  BY <1>1, <1>2, AdvanceFacts
<1>4. cur' = l \/ OnList(cur', l)
  BY <1>1, <1>3, NextNodeFacts
<1>5. list' = list
  BY DEF timers
<1> QED
  BY <1>3, <1>4, <1>5 DEF Linked, OnList, Members

(* Every step keeps the wheel's invariant.                                 *)
LEMMA NextWheel ==
    ASSUME WheelInv, [Next]_vars
    PROVE  WheelInv'
<1>1. Slots \in Nat \ {0} /\ Pool \in Node
  BY SchedulerAssumption, Heads DEF Node
<1>2. /\ TypeOK /\ TimersOK
      /\ InWalk => walked < Slots /\ Linked(prev)
      /\ pc = "walk" => Linked(cur)
      /\ pc \in {"fired", "advance"} => cur \in Timer
  BY DEF WheelInv
<1>3. /\ now \in Clock /\ last_run \in Clock /\ now \in Int /\ last_run \in Int
      /\ SlotOf(last_run) \in Wheel /\ SlotOf(last_run) \in Lists
      /\ walked \in 0 .. Slots /\ prev \in Node /\ cur \in Node
  BY <1>2, ClockInt, SlotType DEF TypeOK
<1>4. CASE UNCHANGED vars
  <2>1. /\ UNCHANGED timers /\ wide' = wide /\ now' = now /\ last_run' = last_run
        /\ walked' = walked /\ prev' = prev /\ cur' = cur /\ pc' = pc
    BY <1>4 DEF vars, walk
  <2>2. TimersOK' /\ list' = list
    BY <1>2, <2>1, UnchangedTimers DEF timers
  <2>3. (Linked(prev)' <=> Linked(prev)) /\ (Linked(cur)' <=> Linked(cur))
    BY <2>1, <2>2 DEF Linked, OnList, Members
  <2> QED
    BY <1>2, <1>3, <2>1, <2>2, <2>3, WheelStep DEF TypeOK, InWalk
<1>5. CASE Round
  <2>1. TimersOK'
    BY <1>2, <1>5, UnchangedTimers DEF Round
  <2>2. now' \in Clock
    BY <1>3, <1>5, WrapType, SchedulerAssumption DEF Round
  <2> QED
    BY <1>3, <1>5, <2>1, <2>2, WheelStep DEF Round, walk
<1>6. CASE Handler
  <2>1. TimersOK'
    BY <1>6, HandlerFacts DEF Handler
  <2> QED
    BY <1>3, <1>6, <2>1, WheelStep DEF Handler, walk
<1>7. CASE BeginWalk
  <2>1. TimersOK'
    BY <1>2, <1>7, UnchangedTimers DEF BeginWalk
  <2> QED
    BY <1>3, <1>7, <2>1, WheelStep DEF BeginWalk, walk
<1>8. CASE WalkSlot
  <2>1. TimersOK' /\ list' = list
    BY <1>2, <1>8, UnchangedTimers DEF WalkSlot, timers
  <2>2. /\ prev' = SlotOf(last_run) /\ prev' \in Node /\ cur' \in Node
        /\ cur' = SlotOf(last_run) \/ OnList(cur', SlotOf(last_run))
    BY <1>2, <1>3, <1>8, NextNodeFacts DEF WalkSlot, EnterSlot, Node
  <2>3. Linked(prev)' /\ Linked(cur)'
    BY <1>3, <2>1, <2>2 DEF Linked, OnList, Members
  <2> QED
    BY <1>3, <1>8, <2>1, <2>2, <2>3, WheelStep DEF WalkSlot, Behind
<1>9. CASE SlotDone
  <2>1. TimersOK'
    BY <1>2, <1>9, UnchangedTimers DEF SlotDone
  <2>2. last_run' \in Clock
    BY <1>3, <1>9, WrapType DEF SlotDone, NextSlot
  <2>3. walked' \in 0 .. Slots
    BY <1>1, <1>2, <1>3, <1>9 DEF SlotDone, NextSlot, InWalk
  <2> QED
    BY <1>1, <1>3, <1>9, <2>1, <2>2, <2>3, WheelStep DEF SlotDone
<1>10. CASE PassTimer
  <2>1. TimersOK'
    BY <1>2, <1>10, UnchangedTimers DEF PassTimer
  <2>2. prev' \in Node /\ cur' \in Node /\ Linked(prev)' /\ Linked(cur)'
    BY <1>2, <1>10, AdvanceLinked DEF PassTimer, InWalk
  <2> QED
    BY <1>2, <1>3, <1>10, <2>1, <2>2, WheelStep DEF PassTimer, InWalk
<1>11. ASSUME FireTimer \/ AfterCallback, TimersOK', \A u \in Node : Linked(u) => Linked(u)'
       PROVE  WheelInv'
  <2>1. /\ wide' = wide /\ now' = now /\ last_run' = last_run /\ walked' = walked
        /\ prev' = prev /\ cur' = cur /\ pc' \in {"fired", "advance"} /\ InWalk /\ cur \in Timer
    BY <1>2, <1>11 DEF FireTimer, AfterCallback, walk, InWalk
  <2>2. Linked(prev)'
    BY <1>2, <1>3, <1>11, <2>1 DEF Linked, OnList, Members
  <2> QED
    BY <1>2, <1>3, <1>11, <2>1, <2>2, WheelStep
<1>12. CASE FireTimer
  BY <1>11, <1>12, FireFacts
<1>13. CASE AfterCallback
  <2>1. cur \in Timer
    BY <1>2, <1>13 DEF AfterCallback
  <2> QED
    BY <1>11, <1>13, <2>1, AfterCallbackFacts
<1>14. CASE Advance
  <2>1. TimersOK'
    BY <1>2, <1>14, UnchangedTimers DEF Advance
  <2>2. prev' \in Node /\ cur' \in Node /\ Linked(prev)' /\ Linked(cur)'
    BY <1>2, <1>14, AdvanceLinked DEF Advance, InWalk
  <2> QED
    BY <1>2, <1>3, <1>14, <2>1, <2>2, WheelStep DEF Advance, InWalk
<1>15. CASE EndWalk
  <2>1. TimersOK'
    BY <1>2, <1>15, UnchangedTimers DEF EndWalk
  <2> QED
    BY <1>1, <1>3, <1>15, <2>1, WheelStep DEF EndWalk, ResetLastRun
<1> QED
  BY <1>4, <1>5, <1>6, <1>7, <1>8, <1>9, <1>10, <1>12, <1>13, <1>14, <1>15 DEF Next, WalkStep

(* No timer is lost or linked twice, whatever handlers and callbacks       *)
(* start, change and stop while the wheel is walked (scheduler.c           *)
(* olsr_start_timer, olsr_change_timer, olsr_stop_timer).                  *)
THEOREM WheelAlwaysSound == Spec => []WheelSound
<1>1. Init => WheelInv
  BY InitWheel
<1>2. WheelInv /\ [Next]_vars => WheelInv'
  BY NextWheel
<1>3. WheelInv => WheelSound
  BY WheelExplained
<1> QED
  BY <1>1, <1>2, <1>3, PTL DEF Spec
-----------------------------------------------------------------------------
(* The walk *)

LEMMA NextWalk ==
    ASSUME StopsPrev = FALSE, WheelInv, WalkInv, [Next]_vars
    PROVE  WalkInv'
<1> DEFINE l == SlotOf(last_run)
<1>1. TypeOK /\ TimersOK /\ (pc \in {"fired", "advance"} => cur \in Timer)
  BY DEF WheelInv
<1>2. /\ l \in Wheel /\ l \in Lists /\ l \notin Timer
      /\ InWalk => prev = l \/ OnList(prev, l)
      /\ pc = "walk" => cur = NextNode(prev)
      /\ pc \in {"fired", "advance"} => cur # prev
  BY <1>1, ClockInt, SlotType, Heads DEF WalkInv, InSlot, TypeOK
<1> HIDE DEF l
\* the steps that are not the walk's, or leave the slot
<1>3. CASE pc' \notin {"walk", "fired", "advance"}
  BY <1>3 DEF WalkInv, InWalk
<1>4. CASE UNCHANGED vars
  <2>1. list' = list /\ prev' = prev /\ cur' = cur /\ pc' = pc /\ last_run' = last_run
    BY <1>4 DEF vars, timers, walk
  <2> QED
    BY <2>1 DEF WalkInv, InWalk, InSlot, OnList, Members, SlotOf, NextNode
<1>5. CASE WalkSlot
  <2>1. /\ list' = list /\ last_run' = last_run /\ pc' = "walk"
        /\ prev' = SlotOf(last_run) /\ cur' = NextNode(SlotOf(last_run))
    BY <1>5 DEF WalkSlot, EnterSlot, timers
  <2>2. NextNode(prev)' = NextNode(prev')
    BY <2>1 DEF NextNode
  <2> QED
    BY <2>1, <2>2 DEF WalkInv, InWalk, InSlot, SlotOf
<1>6. ASSUME InWalk, UNCHANGED timers, last_run' = last_run, pc' = "walk", cur \in Timer,
             olsr_get_next_list_entry
      PROVE  WalkInv'
  <2>1. (prev' = l \/ OnList(prev', l)) /\ cur' = NextNode(prev')
    BY <1>1, <1>2, <1>6, AdvanceFacts
  <2>2. list' = list /\ SlotOf(last_run)' = l
    BY <1>6 DEF timers, SlotOf, l
  <2>3. NextNode(prev)' = NextNode(prev')
    BY <2>2 DEF NextNode
  <2>4. InSlot(prev)'
    BY <2>1, <2>2 DEF InSlot, OnList, Members
  <2> QED
    BY <1>6, <2>1, <2>3, <2>4 DEF WalkInv
<1>7. CASE PassTimer
  BY <1>6, <1>7 DEF PassTimer, InWalk
<1>8. CASE Advance
  BY <1>1, <1>6, <1>8 DEF Advance, InWalk
<1>9. ASSUME InWalk, last_run' = last_run, pc' \in {"fired", "advance"}, prev' = prev, cur' = cur,
             cur # prev, prev \in Timer /\ OnList(prev, l) => OnList(prev, l)'
      PROVE  WalkInv'
  <2>1. prev = l \/ (prev \in Timer /\ OnList(prev, l))
    BY <1>1, <1>2, <1>9 DEF OnList, Members, TimersOK, ListsOK
  <2>2. SlotOf(last_run)' = l /\ l' = l
    BY <1>9 DEF SlotOf, l
  <2>3. InSlot(prev)'
    BY <1>9, <2>1, <2>2 DEF InSlot, OnList, Members
  <2> QED
    BY <1>9, <2>3 DEF WalkInv
<1>10. CASE FireTimer
  <2>1. /\ pc = "walk" /\ InWalk /\ cur \in Timer /\ pc' = "fired"
        /\ last_run' = last_run /\ prev' = prev /\ cur' = cur
    BY <1>10 DEF FireTimer, walk, InWalk
  <2>2. cur # prev
    BY <1>1, <1>2, <2>1, NextNodeFacts
  <2>3. \A k \in Wheel : prev \in Timer /\ OnList(prev, k) => OnList(prev, k)'
    BY <1>10, FireFacts
  <2>4. l' = l
    BY <2>1 DEF l, SlotOf
  <2> QED
    BY <1>2, <1>9, <2>1, <2>2, <2>3, <2>4 DEF OnList, Members
<1>11. CASE AfterCallback
  <2>1. /\ pc = "fired" /\ InWalk /\ cur \in Timer /\ cur # prev /\ pc' = "advance"
        /\ last_run' = last_run /\ prev' = prev /\ cur' = cur
    BY <1>1, <1>2, <1>11 DEF AfterCallback, walk, InWalk
  <2>2. \A u \in Timer, k \in Wheel : u # cur /\ OnList(u, k) => OnList(u, k)'
    BY <1>11, <2>1, AfterCallbackFacts
  <2>3. l' = l
    BY <2>1 DEF l, SlotOf
  <2> QED
    BY <1>2, <1>9, <2>1, <2>2, <2>3 DEF OnList, Members
<1> QED
  BY <1>3, <1>4, <1>5, <1>7, <1>8, <1>10, <1>11
     DEF Next, WalkStep, Round, Handler, BeginWalk, SlotDone, EndWalk

(* The node the walk has reached is the head of the slot it walks or a     *)
(* timer of it, whatever the callbacks take off that slot and put on it,   *)
(* as long as none of them stops the timer the walk passed last            *)
(* (scheduler.c olsr_get_next_list_entry).                                 *)
THEOREM WalkStaysInSlot == ASSUME StopsPrev = FALSE PROVE Spec => []WalkInSlot
<1>1. Init => WheelInv /\ WalkInv
  BY InitWheel DEF Init, WalkInv, InWalk
<1>2. WheelInv /\ WalkInv /\ [Next]_vars => (WheelInv /\ WalkInv)'
  BY NextWheel, NextWalk
<1>3. WheelInv /\ WalkInv => WalkInSlot
  <2> SUFFICES ASSUME WheelInv, WalkInv, pc = "walk"
               PROVE  cur = SlotOf(last_run) \/ OnList(cur, SlotOf(last_run))
    BY DEF WalkInSlot
  <2>1. TimersOK /\ SlotOf(last_run) \in Lists
    BY ClockInt, SlotType DEF WheelInv, TypeOK
  <2> QED
    BY <2>1, NextNodeFacts DEF WalkInv, InWalk, InSlot
<1> QED
  BY <1>1, <1>2, <1>3, PTL DEF Spec

-----------------------------------------------------------------------------
(* Punctuality.                                                            *)
(*                                                                         *)
(* Lag(t) is how far the time of t is ahead of the clock, Gap how far the  *)
(* clock was ahead of last_run when the walk began, and Turn(t) after how  *)
(* many slots the walk reaches t.  A timer that is due has a turn that is  *)
(* still to come, and in the slot that is being walked it is behind the    *)
(* previous node.  A timer is Left behind only by the walk that is skipped *)
(* where the clock wraps, just above -Half.                                *)

Lag(t) == Wrap(clock[t] - now)
Gap == Wrap(now - last_run) + walked
Turn(t) == (Gap + Lag(t)) % Slots
Due(t) == running[t] /\ Lag(t) < 0

Left(t) ==
    /\ ~wide
    /\ now - Gap >= -Half
    /\ now - Gap + Turn(t) < MaxStep + Slots - Half
    /\ Turn(t) - (Gap + Lag(t)) < Slots + MaxStep

Before(s, a, b) == \E i, j \in DOMAIN s : i < j /\ s[i] = a /\ s[j] = b
Follows(n, t, l) == n = l \/ Before(list[l], n, t)

RoundInv ==
    /\ Gap \in 0 .. MaxStep
    /\ pc \in {"input", "output"} => walked = 0
    /\ pc = "output" => last_run = now
    /\ ~wide /\ (InWalk \/ walked > 0) => now - Gap >= -Half

InTime(t) == Due(t) => Turn(t) >= walked /\ (Lag(t) >= -Gap \/ Left(t))

ToCome(t) == Due(t) /\ SlotOf(clock[t]) = SlotOf(last_run) => Follows(prev, t, SlotOf(last_run))

PunctualInv ==
    /\ RoundInv
    /\ \A t \in Timer : InTime(t)
    /\ InWalk => \A t \in Timer : ToCome(t)
    /\ pc = "advance" => ~Due(cur)

(* A round of the main loop and a turn of the wheel are short compared     *)
(* with the range of the clock, and so are the times timers are set to.    *)
RoundsShort == Slots + 2 * MaxStep <= Half + 1 /\ \A rel \in RelTime : rel < Half

LEMMA Times ==
    ASSUME NEW k \in Int, NEW m \in Nat \ {0}
    PROVE  /\ k * m \in Int
           /\ k >= 1 => k * m >= m
           /\ k <= -1 => k * m <= -m
           /\ k = 0 => k * m = 0
<1>1. k >= 1 => k * m >= m
  OBVIOUS
<1>2. k <= -1 => k * m <= -m
  OBVIOUS
<1> QED
  BY <1>1, <1>2

LEMMA Divide ==
    ASSUME NEW x \in Int, NEW m \in Nat \ {0}
    PROVE  x % m \in 0 .. m - 1 /\ \E k \in Int : x = (x % m) + k * m
<1>1. x % m \in 0 .. m - 1
  OBVIOUS
<1>2. x = (x % m) + (x \div m) * m /\ x \div m \in Int
  OBVIOUS
<1> QED
  BY <1>1, <1>2

LEMMA Reduce ==
    ASSUME NEW m \in Nat \ {0}, NEW r \in 0 .. m - 1, NEW k \in Int
    PROVE  (r + k * m) % m = r
<1> DEFINE x == r + k * m
<1>1. x \in Int
  OBVIOUS
<1>2. PICK q \in Int : x = (x % m) + q * m
  BY <1>1, Divide
<1>3. x % m \in 0 .. m - 1
  BY <1>1, Divide
<1> DEFINE s == x % m
           d == k - q
<1>4. d * m = s - r /\ d \in Int
  <2>1. d * m = k * m - q * m
    OBVIOUS
  <2>2. r + k * m = s + q * m /\ k * m \in Int /\ q * m \in Int
    BY <1>2
  <2>3. s \in Int /\ r \in Int
    BY <1>3
  <2> HIDE DEF s
  <2> QED
    BY <2>1, <2>2, <2>3
<1> HIDE DEF s, d
<1>5. s \in 0 .. m - 1
  BY <1>3 DEF s
<1>6. d = 0
  BY <1>4, <1>5, Times
<1>7. s = r
  BY <1>4, <1>5, <1>6
<1> QED
  BY <1>7 DEF s, x

LEMMA SmallRest ==
    ASSUME NEW x \in Nat, NEW m \in Nat \ {0}
    PROVE  x % m <= x
<1>0. x \in Int
  OBVIOUS
<1>1. PICK k \in Int : x = (x % m) + k * m
  BY <1>0, Divide
<1>2. x % m \in 0 .. m - 1
  BY <1>0, Divide
<1> DEFINE r == x % m
<1> HIDE DEF r
<1>3. x = r + k * m /\ r \in 0 .. m - 1
  BY <1>1, <1>2 DEF r
<1>4. k >= 0
  BY <1>3, Times
<1>5. k * m >= 0
  BY <1>4, Times
<1> QED
  BY <1>3, <1>5, Times DEF r

\* two numbers a whole number of turns apart are in the same slot
LEMMA SameSlot ==
    ASSUME NEW a \in Int, NEW k \in Int
    PROVE  SlotOf(a + k * Slots) = SlotOf(a)
<1>1. Slots \in Nat \ {0}
  BY SchedulerAssumption
<1>2. PICK q \in Int : a = (a % Slots) + q * Slots
  BY <1>1, Divide
<1> DEFINE r == a % Slots
<1>3. r \in 0 .. Slots - 1
  BY <1>1, Divide
<1>4. a + k * Slots = r + (q + k) * Slots
  <2>1. (q + k) * Slots = q * Slots + k * Slots /\ k * Slots \in Int /\ q * Slots \in Int
    BY <1>1
  <2>2. a = r + q * Slots /\ r \in Int
    BY <1>2, <1>3
  <2> HIDE DEF r
  <2> QED
    BY <2>1, <2>2
<1> HIDE DEF r
<1>5. (r + (q + k) * Slots) % Slots = r
  BY <1>1, <1>3, Reduce
<1> QED
  BY <1>4, <1>5 DEF SlotOf, r

LEMMA WrapCases ==
    ASSUME NEW x \in Int, -3 * Half <= x, x < 3 * Half
    PROVE  Wrap(x) = IF x < -Half THEN x + 2 * Half ELSE IF x >= Half THEN x - 2 * Half ELSE x
<1> DEFINE m == 2 * Half
           a == IF x < -Half THEN x + 3 * Half ELSE IF x >= Half THEN x - Half ELSE x + Half
           k == IF x < -Half THEN -1 ELSE IF x >= Half THEN 1 ELSE 0
<1>1. Half \in Nat \ {0} /\ m \in Nat \ {0}
  BY SchedulerAssumption
<1>2. a \in 0 .. m - 1 /\ k \in Int /\ x + Half = a + k * m
  BY <1>1
<1> HIDE DEF k
<1>3. (a + k * m) % m = a
  BY <1>1, <1>2, Reduce
<1>4. Wrap(x) = a - Half
  BY <1>2, <1>3 DEF Wrap
<1> QED
  BY <1>1, <1>4

\* the clock of a wheel's size wraps to the same slot
LEMMA WrapTurns ==
    ASSUME NEW x \in Int
    PROVE  \E k \in Int : Wrap(x) = x + k * Slots
<1> DEFINE m == 2 * Half
<1>1. Slots \in Nat \ {0} /\ Half \in Nat \ {0} /\ m \in Nat \ {0} /\ m % Slots = 0
  BY SchedulerAssumption
<1>2. PICK h \in Int : m = (m % Slots) + h * Slots
  <2>1. m \in Int
    BY <1>1
  <2> QED
    BY <1>1, <2>1, Divide
<1>3. x + Half \in Int
  BY <1>1
<1>4. PICK q \in Int : x + Half = ((x + Half) % m) + q * m
  BY <1>1, <1>3, Divide
<1>5. (x + Half) % m \in 0 .. m - 1
  BY <1>1, <1>3, Divide
<1>6. Wrap(x) = x + (-q) * m
  <2> DEFINE r == (x + Half) % m
  <2>1. Wrap(x) = r - Half
    BY DEF Wrap
  <2>2. r \in Int /\ q * m \in Int /\ (-q) * m = -(q * m)
    BY <1>1, <1>5
  <2>3. x + Half = r + q * m
    BY <1>4
  <2> HIDE DEF r, m
  <2> QED
    BY <1>1, <2>1, <2>2, <2>3
<1>7. (-q) * m = ((-q) * h) * Slots /\ (-q) * h \in Int
  <2>1. m = h * Slots
    BY <1>1, <1>2
  <2> HIDE DEF m
  <2> QED
    BY <1>1, <2>1
<1> QED
  BY <1>6, <1>7

\* a timer is set to a time that is not past
LEMMA JitterAhead ==
    ASSUME RoundsShort, now \in Clock, NEW rel \in RelTime \cup {0}, NEW c \in olsr_jitter(rel)
    PROVE  ~(Wrap(c - now) < 0)
<1>1. Half \in Nat \ {0} /\ now \in Int /\ now >= -Half /\ now < Half
  BY SchedulerAssumption DEF Clock
<1>2. rel \in Nat /\ rel < Half
  BY <1>1, SchedulerAssumption DEF RoundsShort
<1>3. PICK r \in 0 .. Half - 1 : c = Wrap(now + r)
  BY <1>1, <1>2 DEF olsr_jitter
<1>4. c = IF now + r >= Half THEN now + r - 2 * Half ELSE now + r
  BY <1>1, <1>3, WrapCases
<1>5. Wrap(c - now) = r
  BY <1>1, <1>3, <1>4, WrapCases
<1> QED
  BY <1>3, <1>5

\* when the clock goes on by d, a timer that is due then is d further behind
LEMMA LaterLag ==
    ASSUME NEW a \in Clock, NEW b \in Clock, NEW d \in 0 .. Half - 1, Wrap(a - Wrap(b + d)) < 0
    PROVE  Wrap(a - Wrap(b + d)) = Wrap(a - b) - d
<1>1. /\ Half \in Nat \ {0} /\ a \in Int /\ a >= -Half /\ a < Half
      /\ b \in Int /\ b >= -Half /\ b < Half /\ d \in Int /\ 0 <= d /\ d < Half
  BY SchedulerAssumption DEF Clock
<1>2. Wrap(b + d) = IF b + d >= Half THEN b + d - 2 * Half ELSE b + d
  BY <1>1, WrapCases
<1> DEFINE e == Wrap(b + d)
<1>3. Wrap(a - b) = IF a - b < -Half THEN a - b + 2 * Half ELSE IF a - b >= Half THEN a - b - 2 * Half ELSE a - b
  BY <1>1, WrapCases
<1>4. Wrap(a - e) = IF a - e < -Half THEN a - e + 2 * Half ELSE IF a - e >= Half THEN a - e - 2 * Half ELSE a - e
  <2>1. e \in Int /\ -Half <= e /\ e < Half
    BY <1>1, <1>2
  <2> HIDE DEF e
  <2> QED
    BY <1>1, <2>1, WrapCases
<1>5. e = IF b + d >= Half THEN b + d - 2 * Half ELSE b + d
  BY <1>2
<1>6. Wrap(a - e) < 0
  OBVIOUS
<1> DEFINE u == Wrap(a - e)
           v == Wrap(a - b)
<1> HIDE DEF e
<1>7. u = v - d
  <2>1. u < 0
    BY <1>6
  <2> HIDE DEF u, v
  <2> QED
    BY <1>1, <1>3, <1>4, <1>5, <2>1 DEF u, v
<1> QED
  BY <1>7 DEF e
-----------------------------------------------------------------------------
(* The order of a slot *)

LEMMA WithoutOrder ==
    ASSUME NEW s \in Seq(Timer), NEW t, NEW u, NEW v, u # t, v # t, Before(s, u, v)
    PROVE  Before(Without(s, t), u, v)
<1>1. CASE ~\E i \in DOMAIN s : s[i] = t
  BY <1>1 DEF Without
<1>2. CASE \E i \in DOMAIN s : s[i] = t
  <2> DEFINE at == CHOOSE i \in DOMAIN s : s[i] = t
             w == [i \in 1 .. Len(s) - 1 |-> s[IF i < at THEN i ELSE i + 1]]
             Place(i) == IF i < at THEN i ELSE i - 1
  <2>1. at \in DOMAIN s /\ s[at] = t
    BY <1>2
  <2>2. Without(s, t) = w
    BY <1>2 DEF Without
  <2> HIDE DEF at
  <2>3. DOMAIN s = 1 .. Len(s) /\ Len(s) \in Nat /\ at \in 1 .. Len(s)
    BY <2>1
  <2>4. PICK i \in DOMAIN s, j \in DOMAIN s : i < j /\ s[i] = u /\ s[j] = v
    BY DEF Before
  <2>5. i # at /\ j # at /\ i \in 1 .. Len(s) /\ j \in 1 .. Len(s)
    BY <2>1, <2>3, <2>4
  <2>6. ASSUME NEW k \in 1 .. Len(s), k # at
        PROVE  Place(k) \in 1 .. Len(s) - 1 /\ w[Place(k)] = s[k]
    <3>1. CASE k < at
      <4>1. k \in 1 .. Len(s) - 1
        BY <2>3, <3>1
      <4> QED
        BY <3>1, <4>1
    <3>2. CASE k > at
      <4>1. k - 1 \in 1 .. Len(s) - 1 /\ ~(k - 1 < at) /\ (k - 1) + 1 = k /\ ~(k < at)
        BY <2>3, <3>2
      <4> QED
        BY <4>1
    <3> QED
      BY <2>3, <2>6, <3>1, <3>2
  <2>7. Place(i) < Place(j)
    BY <2>3, <2>4, <2>5
  <2>8. DOMAIN w = 1 .. Len(s) - 1
    OBVIOUS
  <2> HIDE DEF Place, w
  <2>9. Before(w, u, v)
    BY <2>4, <2>5, <2>6, <2>7, <2>8 DEF Before
  <2> QED
    BY <2>2, <2>9
<1> QED
  BY <1>1, <1>2

LEMMA AppendOrder ==
    ASSUME NEW s \in Seq(Timer), NEW t \in Timer, NEW u, NEW v, Before(s, u, v)
    PROVE  Before(Append(s, t), u, v)
<1>1. PICK i \in DOMAIN s, j \in DOMAIN s : i < j /\ s[i] = u /\ s[j] = v
  BY DEF Before
<1> DEFINE a == Append(s, t)
<1>2. DOMAIN s \subseteq DOMAIN a /\ \A k \in DOMAIN s : a[k] = s[k]
  OBVIOUS
<1> HIDE DEF a
<1>3. Before(a, u, v)
  BY <1>1, <1>2 DEF Before
<1> QED
  BY <1>3 DEF a

\* moving a timer leaves the others in their order
LEMMA MoveOrder ==
    ASSUME ListsOK, NEW t \in Timer, NEW l \in Lists, MoveTo(t, l),
           NEW k \in Lists, NEW u, NEW v, u # t, v # t, Before(list[k], u, v)
    PROVE  Before(list'[k], u, v)
<1> DEFINE w == Without(list[k], t)
<1>1. list[k] \in Seq(Timer) /\ Distinct(list[k])
  BY DEF ListsOK
<1>2. w \in Seq(Timer) /\ Before(w, u, v)
  BY <1>1, WithoutFacts, WithoutOrder
<1>3. list'[k] = IF k = l THEN Append(w, t) ELSE w
  BY DEF MoveTo
<1> HIDE DEF w
<1> QED
  BY <1>2, <1>3, AppendOrder

\* Of two timers of a slot the one behind a node is its successor or behind it.
LEMMA FollowsNext ==
    ASSUME TimersOK, NEW l \in Lists, NEW n, n = l \/ OnList(n, l),
           NEW t \in Timer, OnList(t, l), Follows(n, t, l), t # NextNode(n)
    PROVE  NextNode(n) # l /\ Before(list[l], NextNode(n), t)
<1>1. list[l] \in Seq(Timer) /\ Len(list[l]) \in Nat /\ DOMAIN list[l] = 1 .. Len(list[l])
  BY DEF TimersOK, ListsOK
<1>2. CASE n = l
  <2>1. PICK j \in DOMAIN list[l] : list[l][j] = t
    BY DEF OnList, Members
  <2>2. list[l] # <<>> /\ 1 \in DOMAIN list[l] /\ list[l][1] \in Timer
    BY <1>1, <2>1
  <2>3. NextNode(n) = list[l][1]
    BY <1>2, <2>2 DEF NextNode
  <2>4. j # 1 /\ 1 < j
    BY <1>1, <2>1, <2>3
  <2> QED
    BY <2>1, <2>2, <2>3, <2>4, Heads DEF Before
<1>3. CASE n # l
  <2>1. PICK i \in DOMAIN list[l], j \in DOMAIN list[l] : i < j /\ list[l][i] = n /\ list[l][j] = t
    BY <1>3 DEF Follows, Before
  <2>2. i # Len(list[l])
    BY <1>1, <2>1
  <2>3. /\ NextNode(n) = Successor(l, i) /\ i + 1 \in DOMAIN list[l]
        /\ Successor(l, i) \in Timer
    BY <2>1, <2>2, NextNodeAt
  <2>4. NextNode(n) = list[l][i + 1]
    BY <2>2, <2>3 DEF Successor
  <2>5. i + 1 < j
    <3>1. i + 1 # j
      BY <2>1, <2>4
    <3> QED
      BY <1>1, <2>1, <3>1
  <2> QED
    BY <2>1, <2>3, <2>4, <2>5, Heads DEF Before
<1> QED
  BY <1>2, <1>3

-----------------------------------------------------------------------------
(* The operations on timers, again *)

\* A step that changes no timer but t, and sets t to a time not past.
TouchesOnly(t) ==
    /\ \A u \in Timer \ {t} : running'[u] = running[u] /\ clock'[u] = clock[u]
    /\ running'[t] => ~(Wrap(clock'[t] - now) < 0)
    /\ \A k \in Wheel, u, v \in Timer \ {t} : Before(list[k], u, v) => Before(list'[k], u, v)

LEMMA StopTouches ==
    ASSUME TimersOK, NEW t \in Timer, olsr_stop_timer(t)
    PROVE  TouchesOnly(t) /\ ~running'[t]
<1>1. /\ \A u \in Timer \ {t} : running'[u] = running[u] /\ clock'[u] = clock[u]
      /\ ~running'[t]
  BY DEF TimersOK, olsr_stop_timer
<1>2. \A k \in Wheel, u, v \in Timer \ {t} : Before(list[k], u, v) => Before(list'[k], u, v)
  BY MoveOrder, Heads DEF TimersOK, olsr_stop_timer
<1> QED
  BY <1>1, <1>2 DEF TouchesOnly

LEMMA ChangeTouches ==
    ASSUME RoundsShort, TypeOK, TimersOK, NEW t \in Timer, NEW rel \in RelTime \cup {0}, NEW p,
           olsr_change_timer(t, rel, p)
    PROVE  TouchesOnly(t)
<1>1. PICK c \in olsr_jitter(rel) :
         /\ MoveTo(t, SlotOf(c))
         /\ clock' = [clock EXCEPT ![t] = c]
         /\ running' = running
  BY DEF olsr_change_timer
<1>2. c \in Int /\ SlotOf(c) \in Lists
  BY JitterType, ClockInt, SlotType
<1>3. ~(Wrap(c - now) < 0)
  BY JitterAhead DEF TypeOK
<1>4. /\ \A u \in Timer \ {t} : running'[u] = running[u] /\ clock'[u] = clock[u]
      /\ clock'[t] = c
  BY <1>1 DEF TimersOK
<1>5. \A k \in Wheel, u, v \in Timer \ {t} : Before(list[k], u, v) => Before(list'[k], u, v)
  BY <1>1, <1>2, MoveOrder, Heads DEF TimersOK
<1> QED
  BY <1>3, <1>4, <1>5 DEF TouchesOnly

LEMMA StartTouches ==
    ASSUME RoundsShort, TypeOK, TimersOK, NEW rel \in RelTime, NEW p, olsr_start_timer(rel, p)
    PROVE  \E t \in Timer : ~running[t] /\ TouchesOnly(t)
<1>1. PICK t \in Timer, c \in olsr_jitter(rel) :
         /\ olsr_get_timer(t, SlotOf(c))
         /\ clock' = [clock EXCEPT ![t] = c]
         /\ running' = [running EXCEPT ![t] = TRUE]
  BY DEF olsr_start_timer
<1>2. c \in Int /\ SlotOf(c) \in Lists /\ SlotOf(c) \in Wheel
  BY JitterType, ClockInt, SlotType
<1>3. ~(Wrap(c - now) < 0)
  BY JitterAhead DEF TypeOK
<1>4. /\ \A u \in Timer \ {t} : running'[u] = running[u] /\ clock'[u] = clock[u]
      /\ clock'[t] = c
  BY <1>1 DEF TimersOK
<1>5. ~running[t]
  BY <1>1, <1>2, GetFacts
<1>6. ASSUME NEW k \in Wheel, NEW u \in Timer \ {t}, NEW v \in Timer \ {t}, Before(list[k], u, v)
      PROVE  Before(list'[k], u, v)
  <2>1. CASE MoveTo(t, SlotOf(c))
    BY <1>2, <1>6, <2>1, MoveOrder, Heads DEF TimersOK
  <2>2. ASSUME NEW b, list' = [list EXCEPT ![Pool] = Tail(b), ![SlotOf(c)] = Append(@, t)]
        PROVE  Before(list'[k], u, v)
    <3>1. k \in Lists /\ k # Pool /\ SlotOf(c) # Pool /\ list[k] \in Seq(Timer)
      BY <1>2, Heads DEF TimersOK, ListsOK
    <3>2. list'[k] = list[k] \/ list'[k] = Append(list[k], t)
      BY <1>2, <2>2, <3>1 DEF TimersOK, ListsOK
    <3> QED
      BY <1>6, <3>1, <3>2, AppendOrder
  <2> QED
    BY <1>1, <2>1, <2>2 DEF olsr_get_timer
<1> QED
  BY <1>3, <1>4, <1>5, <1>6 DEF TouchesOnly

\* A timer that no step touches is as late as before, and its turn comes as before.
SameRound == UNCHANGED <<wide, now, last_run, walked>>

LEMMA SameTimer ==
    ASSUME SameRound, NEW u, running'[u] = running[u], clock'[u] = clock[u]
    PROVE  (Due(u)' <=> Due(u)) /\ (InTime(u)' <=> InTime(u)) /\ Gap' = Gap
<1>1. wide' = wide /\ now' = now /\ last_run' = last_run /\ walked' = walked
  BY DEF SameRound
<1>2. Gap' = Gap
  BY <1>1 DEF Gap, Wrap
<1>3. Lag(u)' = Lag(u)
  BY <1>1 DEF Lag, Wrap
<1>4. Turn(u)' = Turn(u)
  BY <1>2, <1>3 DEF Turn
<1>5. Left(u)' <=> Left(u)
  BY <1>1, <1>2, <1>3, <1>4 DEF Left
<1>6. Due(u)' <=> Due(u)
  BY <1>3 DEF Due
<1> QED
  BY <1>1, <1>2, <1>3, <1>4, <1>5, <1>6 DEF InTime

LEMMA Touched ==
    ASSUME SameRound, TypeOK, NEW t \in Timer, TouchesOnly(t), NEW u \in Timer,
           InTime(u)
    PROVE  /\ InTime(u)' /\ (Due(u)' => u # t /\ Due(u))
           /\ t # prev /\ prev' = prev /\ prev \in Node /\ ToCome(u) => ToCome(u)'
<1>1. wide' = wide /\ now' = now /\ last_run' = last_run /\ walked' = walked
  BY DEF SameRound
<1>2. CASE u = t
  <2>1. ~Due(u)'
    <3>1. running'[u] => ~(Wrap(clock'[u] - now) < 0)
      BY <1>2 DEF TouchesOnly
    <3>2. Lag(u)' = Wrap(clock'[u] - now)
      BY <1>1 DEF Lag, Wrap
    <3> QED
      BY <3>1, <3>2 DEF Due
  <2> QED
    BY <2>1 DEF InTime, ToCome
<1>3. CASE u # t
  <2>1. running'[u] = running[u] /\ clock'[u] = clock[u]
    BY <1>3 DEF TouchesOnly
  <2>2. (Due(u)' <=> Due(u)) /\ (InTime(u)' <=> InTime(u))
    BY <2>1, SameTimer
  <2>3. ASSUME t # prev, prev' = prev, prev \in Node, ToCome(u), Due(u)',
               SlotOf(clock[u])' = SlotOf(last_run)'
        PROVE  Follows(prev, u, SlotOf(last_run))'
    <3> DEFINE l == SlotOf(last_run)
    <3>1. SlotOf(clock[u])' = SlotOf(clock[u]) /\ SlotOf(last_run)' = l
      BY <1>1, <2>1 DEF SlotOf
    <3>2. Follows(prev, u, l) /\ l \in Wheel
      BY <2>2, <2>3, <3>1, ClockInt, SlotType DEF ToCome, TypeOK
    <3> HIDE DEF l
    <3>3. CASE prev = l
      BY <2>3, <3>1, <3>3 DEF Follows
    <3>4. CASE Before(list[l], prev, u)
      <4>1. prev \in Timer
        BY <3>2, <3>4, Heads DEF Before, TypeOK
      <4>2. Before(list'[l], prev, u)
        BY <1>3, <2>3, <3>2, <3>4, <4>1 DEF TouchesOnly
      <4>3. Before(list[l], prev, u)' <=> Before(list'[l'], prev', u)
        BY DEF Before
      <4> QED
        BY <2>3, <3>1, <4>2 DEF Follows, Before
    <3> QED
      BY <3>2, <3>3, <3>4 DEF Follows
  <2>4. t # prev /\ prev' = prev /\ prev \in Node /\ ToCome(u) => ToCome(u)'
    BY <2>3 DEF ToCome
  <2> QED
    BY <1>3, <2>2, <2>4
<1> QED
  BY <1>2, <1>3

-----------------------------------------------------------------------------
(* The round *)

LEMMA RoundTypes ==
    ASSUME TypeOK
    PROVE  /\ Half \in Nat \ {0} /\ Slots \in Nat \ {0} /\ MaxStep \in Nat \ {0}
           /\ now \in Int /\ -Half <= now /\ now < Half
           /\ last_run \in Int /\ -Half <= last_run /\ last_run < Half
           /\ walked \in Int /\ 0 <= walked /\ walked <= Slots
           /\ Gap \in Int
           /\ \A t \in Timer : clock[t] \in Clock /\ Lag(t) \in Int /\ -Half <= Lag(t) /\ Lag(t) < Half
           /\ \A t \in Timer : Turn(t) \in Int /\ 0 <= Turn(t) /\ Turn(t) < Slots
<1>1. Half \in Nat \ {0} /\ Slots \in Nat \ {0} /\ MaxStep \in Nat \ {0}
  BY SchedulerAssumption
<1>2. /\ now \in Int /\ -Half <= now /\ now < Half
      /\ last_run \in Int /\ -Half <= last_run /\ last_run < Half
  BY <1>1 DEF TypeOK, Clock
<1>3. walked \in Int /\ 0 <= walked /\ walked <= Slots
  BY <1>1 DEF TypeOK
<1>4. Gap \in Int
  <2>0. now - last_run \in Int
    BY <1>2
  <2>1. Wrap(now - last_run) \in Int
    BY <2>0, WrapType, ClockInt
  <2> QED
    BY <1>3, <2>1 DEF Gap
<1>5. ASSUME NEW t \in Timer
      PROVE  clock[t] \in Clock /\ Lag(t) \in Int /\ -Half <= Lag(t) /\ Lag(t) < Half
  <2>1. clock[t] \in Clock /\ clock[t] \in Int
    BY ClockInt DEF TypeOK
  <2>2. Lag(t) \in Clock
    BY <1>2, <2>1, WrapType DEF Lag
  <2> QED
    BY <1>1, <2>1, <2>2 DEF Clock
<1>6. ASSUME NEW t \in Timer PROVE Turn(t) \in Int /\ 0 <= Turn(t) /\ Turn(t) < Slots
  <2>1. Gap + Lag(t) \in Int
    BY <1>4, <1>5
  <2>2. Turn(t) \in 0 .. Slots - 1
    BY <1>1, <2>1, Divide DEF Turn
  <2> QED
    BY <1>1, <2>2
<1> QED
  BY <1>1, <1>2, <1>3, <1>4, <1>5, <1>6

LEMMA WrapZero == Wrap(0) = 0
<1>1. Half \in Nat \ {0}
  BY SchedulerAssumption
<1> QED
  BY <1>1, WrapCases

\* How far the walk is behind the clock.
LEMMA GapCases ==
    ASSUME TypeOK
    PROVE  Gap - walked = IF now - last_run < -Half THEN now - last_run + 2 * Half
                          ELSE IF now - last_run >= Half THEN now - last_run - 2 * Half
                          ELSE now - last_run
<1> DEFINE x == now - last_run
<1>1. Half \in Nat \ {0} /\ x \in Int /\ -3 * Half <= x /\ x < 3 * Half
  BY RoundTypes
<1>2. Gap = Wrap(x) + walked /\ walked \in Int /\ Wrap(x) \in Int
  BY <1>1, RoundTypes, WrapType, ClockInt DEF Gap
<1> HIDE DEF x
<1>3. Wrap(x) = IF x < -Half THEN x + 2 * Half ELSE IF x >= Half THEN x - 2 * Half ELSE x
  BY <1>1, WrapCases
<1>4. Gap - walked = Wrap(x)
  BY <1>2
<1> QED
  BY <1>3, <1>4 DEF x

\* A timer whose turn it is is on the slot that is walked.
LEMMA TurnSlot ==
    ASSUME TypeOK, NEW t \in Timer, Turn(t) = walked
    PROVE  SlotOf(clock[t]) = SlotOf(last_run)
<1>1. /\ Slots \in Nat \ {0} /\ now \in Int /\ last_run \in Int /\ walked \in Int
      /\ clock[t] \in Int /\ Gap \in Int /\ Lag(t) \in Int
  BY RoundTypes, ClockInt
<1>2. PICK a \in Int : Lag(t) = clock[t] - now + a * Slots
  <2>1. clock[t] - now \in Int
    BY <1>1
  <2> QED
    BY <2>1, WrapTurns DEF Lag
<1>3. PICK b \in Int : Gap - walked = now - last_run + b * Slots
  <2>1. now - last_run \in Int
    BY <1>1
  <2>2. PICK b \in Int : Wrap(now - last_run) = now - last_run + b * Slots
    BY <2>1, WrapTurns
  <2>3. Gap - walked = Wrap(now - last_run)
    <3>1. Wrap(now - last_run) \in Int
      BY <2>1, WrapType, ClockInt
    <3> QED
      BY <1>1, <3>1 DEF Gap
  <2> QED
    BY <2>2, <2>3
<1>4. PICK q \in Int : Gap + Lag(t) = walked + q * Slots
  <2>1. Gap + Lag(t) \in Int
    BY <1>1
  <2> QED
    BY <1>1, <2>1, Divide DEF Turn
<1> DEFINE k == q - a - b
<1>5. clock[t] = last_run + k * Slots
  <2>1. k * Slots = q * Slots - a * Slots - b * Slots
    BY <1>1
  <2>2. a * Slots \in Int /\ b * Slots \in Int /\ q * Slots \in Int
    BY <1>1
  <2> DEFINE x == a * Slots
             y == b * Slots
             z == q * Slots
             g == Gap
             m == Lag(t)
             c == clock[t]
  <2>3. /\ m = c - now + x /\ g - walked = now - last_run + y /\ g + m = walked + z
        /\ x \in Int /\ y \in Int /\ z \in Int /\ g \in Int /\ m \in Int /\ c \in Int
    BY <1>1, <1>2, <1>3, <1>4, <2>2
  <2> HIDE DEF x, y, z, g, m, c
  <2>4. c = last_run + (z - x - y)
    BY <1>1, <2>3
  <2> QED
    BY <2>1, <2>4 DEF x, y, z, c
<1>6. k \in Int
  OBVIOUS
<1> HIDE DEF k
<1> QED
  BY <1>1, <1>5, <1>6, SameSlot

LEMMA RoundPunctual ==
    ASSUME RoundsShort, TypeOK, TypeOK', PunctualInv, Round
    PROVE  PunctualInv'
<1>1. /\ pc = "output" /\ pc' = "input" /\ wide' = wide /\ clock' = clock /\ running' = running
      /\ last_run' = last_run /\ walked' = walked /\ walked = 0 /\ last_run = now
  BY DEF Round, timers, walk, PunctualInv, RoundInv
<1>2. PICK d \in 0 .. MaxStep : now' = Wrap(now + d)
  BY DEF Round
<1>3. /\ Half \in Nat \ {0} /\ Slots \in Nat \ {0} /\ MaxStep \in Nat \ {0} /\ d \in Int /\ 0 <= d /\ d <= MaxStep
      /\ Slots + 2 * MaxStep <= Half + 1 /\ d \in 0 .. Half - 1
      /\ now \in Int /\ -Half <= now /\ now < Half
  BY RoundTypes DEF RoundsShort
<1>4. Gap = 0
  <2>1. now - last_run = 0
    BY <1>1, <1>3
  <2> QED
    BY <1>1, <2>1, WrapZero DEF Gap
<1>5. now' = IF now + d >= Half THEN now + d - 2 * Half ELSE now + d
  BY <1>2, <1>3, WrapCases
<1>6. Gap' = d
  <2> DEFINE x == now' - now
  <2>1. x \in Int /\ -3 * Half <= x /\ x < 3 * Half
    BY <1>3, <1>5
  <2>2. Wrap(x) = IF x < -Half THEN x + 2 * Half ELSE IF x >= Half THEN x - 2 * Half ELSE x
    <3> HIDE DEF x
    <3> QED
      BY <2>1, WrapCases
  <2>3. Wrap(x) = d
    BY <1>3, <1>5, <2>2
  <2>4. Gap' = Wrap(x) + 0
    BY <1>1 DEF Gap, Wrap
  <2> QED
    BY <1>3, <2>3, <2>4
<1>7. RoundInv'
  BY <1>1, <1>3, <1>6 DEF RoundInv, InWalk
<1>8. ASSUME NEW t \in Timer PROVE InTime(t)'
  <2> SUFFICES ASSUME Due(t)' PROVE Turn(t)' >= walked' /\ (Lag(t)' >= -Gap' \/ Left(t)')
    BY DEF InTime
  <2>1. /\ clock[t] \in Clock /\ Lag(t) \in Int /\ -Half <= Lag(t) /\ Lag(t) < Half
        /\ Turn(t) \in Int /\ 0 <= Turn(t) /\ Turn(t) < Slots
    BY RoundTypes
  <2>2. Lag(t)' = Wrap(clock[t] - Wrap(now + d)) /\ Lag(t)' < 0 /\ running[t]
    BY <1>1, <1>2 DEF Lag, Wrap, Due
  <2>3. Lag(t)' = Lag(t) - d
    <3>1. now \in Clock
      BY DEF TypeOK
    <3> QED
      <4> DEFINE a == clock[t]
                 b == now
      <4>1. a \in Clock /\ b \in Clock /\ d \in 0 .. Half - 1 /\ Wrap(a - Wrap(b + d)) < 0
        BY <1>3, <2>1, <2>2, <3>1
      <4>2. Lag(t)' = Wrap(a - Wrap(b + d)) /\ Lag(t) = Wrap(a - b)
        BY <2>2 DEF Lag
      <4> HIDE DEF a, b
      <4>3. Wrap(a - Wrap(b + d)) = Wrap(a - b) - d
        BY <4>1, LaterLag
      <4> QED
        BY <4>2, <4>3
  <2>4. Turn(t)' = Turn(t)
    <3>1. Gap' + Lag(t)' = Gap + Lag(t)
      BY <1>3, <1>4, <1>6, <2>1, <2>3
    <3> QED
      BY <3>1 DEF Turn
  <2>5. Turn(t)' >= walked'
    BY <1>1, <2>1, <2>4
  <2>6. CASE Lag(t) >= 0
    <3>1. Lag(t)' >= -Gap'
      BY <1>3, <1>6, <2>1, <2>3, <2>6
    <3> QED
      BY <2>5, <3>1
  <2>7. CASE Lag(t) < 0
    <3>1. Left(t)
      <4>1. Due(t) /\ ~(Lag(t) >= -Gap)
        BY <1>4, <2>1, <2>2, <2>7 DEF Due
      <4> QED
        BY <4>1 DEF PunctualInv, InTime
    <3>2. /\ ~wide /\ now + Turn(t) < MaxStep + Slots - Half
          /\ Turn(t) - Lag(t) < Slots + MaxStep
      BY <1>3, <1>4, <2>1, <3>1 DEF Left
    <3>3. now' = now + d
      BY <1>3, <1>5, <2>1, <3>2
    <3>4. /\ now' - Gap' >= -Half /\ now' - Gap' + Turn(t)' < MaxStep + Slots - Half
          /\ Turn(t)' - (Gap' + Lag(t)') < Slots + MaxStep
      BY <1>3, <1>6, <2>1, <2>3, <2>4, <3>2, <3>3
    <3>5. Left(t)'
      BY <1>1, <3>2, <3>4 DEF Left
    <3> QED
      BY <2>5, <3>5
  <2> QED
    BY <2>1, <2>6, <2>7
<1> QED
  BY <1>1, <1>7, <1>8 DEF PunctualInv, InWalk

\* A slot is entered: all of it is still to come.
LEMMA WalkSlotPunctual ==
    ASSUME TypeOK, PunctualInv, WalkSlot
    PROVE  PunctualInv'
<1>1. /\ pc = "slot" /\ pc' = "walk" /\ wide' = wide /\ now' = now /\ last_run' = last_run
      /\ walked' = walked /\ clock' = clock /\ running' = running /\ list' = list
      /\ prev' = SlotOf(last_run) /\ Behind
  BY DEF WalkSlot, EnterSlot, timers
<1>2. Gap' = Gap
  BY <1>1 DEF Gap, Wrap
<1>3. RoundInv'
  <2>1. ASSUME ~wide PROVE now - Gap >= -Half
    <3>1. CASE walked > 0
      BY <2>1, <3>1 DEF PunctualInv, RoundInv
    <3>2. CASE walked = 0
      <4>1. last_run <= now
        BY <1>1, <2>1 DEF Behind
      <4>2. Gap \in Int /\ Gap >= 0
        BY RoundTypes DEF PunctualInv, RoundInv
      <4> QED
        BY <3>2, <4>1, <4>2, GapCases, RoundTypes
    <3> QED
      BY <3>1, <3>2, RoundTypes
  <2>2. Gap \in 0 .. MaxStep
    BY DEF PunctualInv, RoundInv
  <2> QED
    BY <1>1, <1>2, <2>1, <2>2 DEF RoundInv
<1>4. ASSUME NEW t \in Timer PROVE InTime(t)'
  <2>1. InTime(t)
    BY DEF PunctualInv
  <2> QED
    BY <1>1, <2>1, SameTimer DEF SameRound
<1>5. \A t \in Timer : ToCome(t)'
  BY <1>1 DEF ToCome, Follows, SlotOf
<1> QED
  BY <1>1, <1>3, <1>4, <1>5 DEF PunctualInv

\* The walk passes no timer that is due.
LEMMA AdvancePunctual ==
    ASSUME WheelInv, WalkInv, PunctualInv, PassTimer \/ Advance
    PROVE  PunctualInv'
<1> DEFINE l == SlotOf(last_run)
<1>1. /\ InWalk /\ pc' = "walk" /\ wide' = wide /\ now' = now /\ last_run' = last_run
      /\ walked' = walked /\ clock' = clock /\ running' = running /\ list' = list
      /\ olsr_get_next_list_entry
  BY DEF PassTimer, Advance, timers, InWalk
<1>2. TypeOK /\ TimersOK /\ l \in Wheel /\ l \in Lists /\ (prev = l \/ OnList(prev, l))
  BY <1>1, ClockInt, SlotType DEF WheelInv, TypeOK, WalkInv, InSlot
<1>3. ~Due(cur)
  BY DEF PassTimer, Advance, PunctualInv, Due, Lag, TIMED_OUT
<1>4. Gap' = Gap
  BY <1>1 DEF Gap, Wrap
<1>5. RoundInv'
  BY <1>1, <1>4 DEF RoundInv, PunctualInv
<1>6. ASSUME NEW t \in Timer PROVE InTime(t)' /\ (Due(t)' <=> Due(t))
  <2>1. InTime(t)
    BY DEF PunctualInv
  <2> QED
    BY <1>1, <2>1, SameTimer DEF SameRound
<1>7. ASSUME NEW t \in Timer PROVE ToCome(t)'
  <2> SUFFICES ASSUME Due(t), SlotOf(clock[t]) = l PROVE prev' = l \/ Before(list[l], prev', t)
    BY <1>1, <1>6 DEF ToCome, Follows, SlotOf, Before
  <2>1. Follows(prev, t, l)
    BY <1>1 DEF PunctualInv, ToCome
  <2>2. OnList(t, l)
    BY <1>2 DEF TimersOK, Due
  <2> HIDE DEF l
  <2>3. CASE NextNode(prev) = cur
    <3>1. prev' = cur /\ t # cur
      BY <1>1, <1>3, <2>3 DEF olsr_get_next_list_entry
    <3> QED
      BY <1>2, <2>1, <2>2, <2>3, <3>1, FollowsNext
  <2>4. CASE NextNode(prev) # cur
    <3>1. prev' = prev
      BY <1>1, <2>4 DEF olsr_get_next_list_entry
    <3> QED
      BY <2>1, <3>1 DEF Follows
  <2> QED
    BY <2>3, <2>4
<1> QED
  BY <1>1, <1>5, <1>6, <1>7 DEF PunctualInv

\* At the end of a slot none of its timers is due.
LEMMA SlotDonePunctual ==
    ASSUME RoundsShort, WheelInv, WalkInv, PunctualInv, SlotDone
    PROVE  PunctualInv'
<1> DEFINE l == SlotOf(last_run)
<1>1. /\ pc = "walk" /\ InWalk /\ pc' = "slot" /\ wide' = wide /\ now' = now
      /\ last_run' = Wrap(last_run + 1)
      /\ walked' = walked + 1 /\ clock' = clock /\ running' = running /\ cur = l
  BY DEF SlotDone, NextSlot, timers, InWalk
<1>2. /\ TypeOK /\ TimersOK /\ l \in Wheel /\ l \in Lists /\ (prev = l \/ OnList(prev, l))
      /\ cur = NextNode(prev) /\ walked < Slots
  BY <1>1, ClockInt, SlotType DEF WheelInv, TypeOK, WalkInv, InSlot
<1>3. ASSUME NEW t \in Timer, Due(t) PROVE SlotOf(clock[t]) # l
  <2> SUFFICES ASSUME SlotOf(clock[t]) = l PROVE FALSE
    OBVIOUS
  <2>1. Follows(prev, t, l)
    BY <1>1, <1>3 DEF PunctualInv, ToCome
  <2>2. OnList(t, l)
    BY <1>2, <1>3 DEF TimersOK, Due
  <2>3. t # l
    BY <1>2, Heads
  <2> HIDE DEF l
  <2> QED
    BY <1>1, <1>2, <2>1, <2>2, <2>3, FollowsNext
<1> HIDE DEF l
<1>4. /\ Half \in Nat \ {0} /\ Slots \in Nat \ {0} /\ MaxStep \in Nat \ {0}
      /\ Slots + 2 * MaxStep <= Half + 1
      /\ now \in Int /\ -Half <= now /\ now < Half
      /\ last_run \in Int /\ -Half <= last_run /\ last_run < Half
      /\ walked \in Int /\ 0 <= walked /\ Gap \in Int /\ 0 <= Gap /\ Gap <= MaxStep
  <2>1. Gap \in 0 .. MaxStep
    BY DEF PunctualInv, RoundInv
  <2>2. MaxStep \in Nat
    BY SchedulerAssumption
  <2> QED
    BY <1>2, <2>1, <2>2, RoundTypes DEF RoundsShort
<1>5. Gap' = Gap
  <2>1. last_run' = IF last_run + 1 >= Half THEN last_run + 1 - 2 * Half ELSE last_run + 1
    BY <1>1, <1>4, WrapCases
  <2> DEFINE x == now - last_run'
  <2>2. x \in Int /\ -3 * Half <= x /\ x < 3 * Half
    BY <1>4, <2>1
  <2>3. Wrap(x) = IF x < -Half THEN x + 2 * Half ELSE IF x >= Half THEN x - 2 * Half ELSE x
    <3> HIDE DEF x
    <3> QED
      BY <2>2, WrapCases
  <2>4. Wrap(x) = Gap - walked - 1
    BY <1>2, <1>4, <2>1, <2>3, GapCases
  <2>5. Gap' = Wrap(x) + (walked + 1)
    BY <1>1 DEF Gap, Wrap
  <2> QED
    BY <1>4, <2>4, <2>5
<1>6. RoundInv'
  BY <1>1, <1>4, <1>5 DEF PunctualInv, RoundInv, InWalk
<1>7. ASSUME NEW t \in Timer PROVE InTime(t)'
  <2>1. Lag(t)' = Lag(t)
    BY <1>1 DEF Lag, Wrap
  <2>2. Turn(t)' = Turn(t) /\ (Due(t)' <=> Due(t))
    BY <1>1, <1>5, <2>1 DEF Turn, Due
  <2>3. Left(t)' <=> Left(t)
    BY <1>1, <1>5, <2>1, <2>2 DEF Left
  <2> SUFFICES ASSUME Due(t) PROVE Turn(t) >= walked + 1 /\ (Lag(t) >= -Gap \/ Left(t))
    BY <1>1, <1>5, <2>1, <2>2, <2>3 DEF InTime
  <2>4. Turn(t) >= walked /\ (Lag(t) >= -Gap \/ Left(t))
    BY DEF PunctualInv, InTime
  <2>5. Turn(t) # walked
    BY <1>2, <1>3, TurnSlot DEF l
  <2>6. Turn(t) \in Int
    BY <1>2, RoundTypes
  <2> QED
    BY <1>4, <2>4, <2>5, <2>6
<1> QED
  BY <1>1, <1>6, <1>7 DEF PunctualInv, InWalk

\* At the end of the walk: what is still due was left by a skipped one.
LEMMA EndWalkPunctual ==
    ASSUME RoundsShort, TypeOK, PunctualInv, EndWalk
    PROVE  PunctualInv'
<1>1. /\ pc = "slot" /\ pc' = "output" /\ wide' = wide /\ now' = now
      /\ last_run' = now /\ walked' = 0 /\ clock' = clock /\ running' = running /\ ~Behind
  BY DEF EndWalk, ResetLastRun, timers
<1>2. /\ Half \in Nat \ {0} /\ Slots \in Nat \ {0} /\ MaxStep \in Nat \ {0}
      /\ Slots + 2 * MaxStep <= Half + 1
      /\ now \in Int /\ -Half <= now /\ now < Half
      /\ last_run \in Int /\ -Half <= last_run /\ last_run < Half
      /\ walked \in Int /\ 0 <= walked /\ Gap \in Int /\ 0 <= Gap /\ Gap <= MaxStep
  <2>1. Gap \in 0 .. MaxStep
    BY DEF PunctualInv, RoundInv
  <2>2. MaxStep \in Nat
    BY SchedulerAssumption
  <2> QED
    BY <2>1, <2>2, RoundTypes DEF RoundsShort
<1>3. Gap' = 0
  <2>1. now - now = 0
    BY <1>2
  <2>2. Gap' = Wrap(now - now) + 0
    BY <1>1 DEF Gap, Wrap
  <2> QED
    BY <2>1, <2>2, WrapZero
<1>4. RoundInv'
  BY <1>1, <1>2, <1>3 DEF RoundInv, InWalk
<1>5. ASSUME NEW t \in Timer PROVE InTime(t)'
  <2>1. Lag(t)' = Lag(t)
    BY <1>1 DEF Lag, Wrap
  <2>2. /\ Lag(t) \in Int /\ -Half <= Lag(t) /\ Lag(t) < Half
        /\ Turn(t) \in Int /\ 0 <= Turn(t) /\ Turn(t) < Slots
    BY RoundTypes
  <2>3. Turn(t)' = Lag(t) % Slots
    BY <1>3, <2>1, <2>2 DEF Turn
  <2> DEFINE r == Lag(t) % Slots
  <2>4. r \in Int /\ 0 <= r /\ r < Slots
    <3>1. r \in 0 .. Slots - 1
      BY <1>2, <2>2, Divide
    <3> QED
      BY <1>2, <3>1
  <2>5. ASSUME Due(t)
        PROVE  /\ ~wide /\ now + r < MaxStep + Slots - Half
               /\ r - Lag(t) < Slots + MaxStep
    <3>1. Turn(t) >= walked /\ (Lag(t) >= -Gap \/ Left(t)) /\ Lag(t) < 0
      BY <2>5 DEF PunctualInv, InTime, Due
    <3>2. walked < Slots
      BY <1>2, <2>2, <3>1
    <3>3. ASSUME Gap < walked PROVE ~(Lag(t) >= -Gap)
      <4> SUFFICES ASSUME Lag(t) >= -Gap PROVE FALSE
        OBVIOUS
      <4>1. Gap + Lag(t) \in Nat
        BY <1>2, <2>2
      <4>2. Turn(t) <= Gap + Lag(t)
        BY <1>2, <4>1, SmallRest DEF Turn
      <4> QED
        BY <1>2, <2>2, <3>1, <3>3, <4>2
    <3>4. ~wide
      <4> SUFFICES ASSUME wide PROVE FALSE
        OBVIOUS
      <4>1. ~(Wrap(now - last_run) >= 0)
        BY <1>1, <3>2 DEF Behind
      <4>2. Gap = Wrap(now - last_run) + walked /\ Wrap(now - last_run) \in Int
        <5>1. now - last_run \in Int
          BY <1>2
        <5> QED
          BY <5>1, WrapType, ClockInt DEF Gap
      <4>3. Gap < walked
        BY <1>2, <4>1, <4>2
      <4> QED
        BY <3>1, <3>3, <4>3 DEF Left
    <3>5. last_run > now
      BY <1>1, <1>2, <3>2, <3>4 DEF Behind
    <3>6. CASE walked > 0
      <4>1. now - Gap >= -Half
        BY <3>4, <3>6 DEF PunctualInv, RoundInv
      <4>2. Gap < walked
        BY <1>2, <3>5, <3>6, <4>1, GapCases
      <4>3. /\ now - Gap + Turn(t) < MaxStep + Slots - Half
            /\ Turn(t) - (Gap + Lag(t)) < Slots + MaxStep
        BY <3>1, <3>3, <4>2 DEF Left
      <4>4. r = Turn(t) - Gap
        <5>1. Gap + Lag(t) \in Int
          BY <1>2, <2>2
        <5>2. PICK k \in Int : Gap + Lag(t) = Turn(t) + k * Slots
          BY <1>2, <5>1, Divide DEF Turn
        <5>3. Lag(t) = (Turn(t) - Gap) + k * Slots
          <6> DEFINE x == k * Slots
          <6>1. x \in Int
            BY <1>2
          <6> HIDE DEF x
          <6>2. Gap + Lag(t) = Turn(t) + x
            BY <5>2 DEF x
          <6>3. Lag(t) = (Turn(t) - Gap) + x
            BY <1>2, <2>2, <6>1, <6>2
          <6> QED
            BY <6>3 DEF x
        <5>4. Turn(t) - Gap \in 0 .. Slots - 1
          BY <1>2, <2>2, <3>1, <4>2
        <5>5. ((Turn(t) - Gap) + k * Slots) % Slots = Turn(t) - Gap
          BY <1>2, <5>4, Reduce
        <5> QED
          BY <5>3, <5>5
      <4> HIDE DEF r
      <4> QED
        BY <1>2, <2>2, <3>4, <4>3, <4>4
    <3>7. CASE walked = 0
      <4>1. now - Gap < -Half
        BY <1>2, <3>5, <3>7, GapCases
      <4>2. Lag(t) >= -Gap
        BY <1>2, <3>1, <4>1 DEF Left
      <4> HIDE DEF r
      <4> QED
        BY <1>2, <2>2, <2>4, <3>4, <4>1, <4>2
    <3> QED
      BY <1>2, <3>6, <3>7
  <2> HIDE DEF r
  <2>6. Turn(t)' = r
    BY <2>3 DEF r
  <2> SUFFICES ASSUME Due(t)' PROVE Turn(t)' >= walked' /\ Left(t)'
    BY DEF InTime
  <2>7. Due(t)
    BY <1>1, <2>1 DEF Due
  <2>8. /\ now' - Gap' >= -Half /\ now' - Gap' + Turn(t)' < MaxStep + Slots - Half
        /\ Turn(t)' - (Gap' + Lag(t)') < Slots + MaxStep
    BY <1>1, <1>2, <1>3, <2>1, <2>2, <2>4, <2>5, <2>6, <2>7
  <2> QED
    BY <1>1, <1>2, <2>4, <2>5, <2>6, <2>7, <2>8 DEF Left
<1> QED
  BY <1>1, <1>4, <1>5 DEF PunctualInv, InWalk

\* A step of a handler or a callback, which works on one timer.
LEMMA TouchPunctual ==
    ASSUME TypeOK, PunctualInv, SameRound, prev' = prev, cur' = cur,
           NEW t \in Timer, TouchesOnly(t), InWalk => t # prev,
           pc' \in {"input", "fired", "advance"},
           pc' = "input" => pc = "input",
           pc' \in {"fired", "advance"} => InWalk,
           pc' = "advance" => cur = t
    PROVE  PunctualInv'
<1>1. wide' = wide /\ now' = now /\ last_run' = last_run /\ walked' = walked
  BY DEF SameRound
<1>2. Gap' = Gap
  BY <1>1 DEF Gap, Wrap
<1>3. RoundInv'
  BY <1>1, <1>2 DEF RoundInv, PunctualInv, InWalk
<1>4. ASSUME NEW u \in Timer
      PROVE  InTime(u)' /\ (Due(u)' => u # t) /\ (InWalk => ToCome(u)')
  <2>1. InTime(u) /\ (InWalk => ToCome(u)) /\ prev \in Node
    BY DEF PunctualInv, TypeOK
  <2> QED
    BY <2>1, Touched
<1>5. (InWalk' => InWalk) /\ (pc' = "advance" => ~Due(cur)')
  <2>1. ~Due(t)'
    BY <1>4
  <2>2. cur = t => (Due(cur)' <=> Due(t)')
    BY DEF Due, Lag, Wrap
  <2> QED
    BY <2>1, <2>2 DEF InWalk
<1> QED
  BY <1>3, <1>4, <1>5 DEF PunctualInv

LEMMA IdlePunctual ==
    ASSUME PunctualInv, SameRound, prev' = prev, cur' = cur, UNCHANGED timers,
           \/ pc' = pc
           \/ pc = "input" /\ pc' = "slot"
           \/ pc = "walk" /\ pc' = "fired"
           \/ pc = "fired" /\ pc' = "advance" /\ ~running[cur]
    PROVE  PunctualInv'
<1>1. /\ wide' = wide /\ now' = now /\ last_run' = last_run /\ walked' = walked
      /\ list' = list /\ clock' = clock /\ running' = running
  BY DEF SameRound, timers
<1>2. Gap' = Gap
  BY <1>1 DEF Gap, Wrap
<1>3. RoundInv'
  BY <1>1, <1>2 DEF RoundInv, PunctualInv, InWalk
<1>4. ASSUME NEW u \in Timer
      PROVE  InTime(u)' /\ (InWalk => ToCome(u)')
  <2>1. InTime(u) /\ (InWalk => ToCome(u))
    BY DEF PunctualInv
  <2>2. (Due(u)' <=> Due(u)) /\ InTime(u)'
    BY <1>1, <2>1, SameTimer
  <2> QED
    BY <1>1, <2>1, <2>2 DEF ToCome, Follows, Before, SlotOf
<1>5. (InWalk' => InWalk) /\ (pc' = "advance" => ~Due(cur)')
  <2>1. Due(cur)' <=> Due(cur)
    BY <1>1 DEF Due, Lag, Wrap
  <2> QED
    BY <2>1 DEF InWalk, PunctualInv, Due
<1> QED
  BY <1>3, <1>4, <1>5 DEF PunctualInv

(* Every step keeps it.                                                    *)
LEMMA NextPunctual ==
    ASSUME StopsPrev = FALSE, RoundsShort, WheelInv, WheelInv', WalkInv, PunctualInv, [Next]_vars
    PROVE  PunctualInv'
<1>1. TypeOK /\ TimersOK /\ TypeOK' /\ (pc \in {"fired", "advance"} => cur \in Timer)
  BY DEF WheelInv
<1>2. ASSUME InWalk, prev \in Timer PROVE running[prev]
  <2>1. SlotOf(last_run) \in Wheel
    BY <1>1, ClockInt, SlotType DEF TypeOK
  <2>2. OnList(prev, SlotOf(last_run))
    BY <1>2, <2>1, Heads DEF WalkInv, InSlot
  <2> QED
    BY <1>1, <1>2, <2>1, <2>2 DEF TimersOK
<1>3. CASE UNCHANGED vars
  BY <1>3, IdlePunctual DEF vars, walk, SameRound
<1>4. CASE Round
  BY <1>1, <1>4, RoundPunctual
<1>5. CASE Handler
  <2>1. SameRound /\ prev' = prev /\ cur' = cur /\ pc = "input" /\ pc' = "input" /\ ~InWalk
    BY <1>5 DEF Handler, SameRound, walk, InWalk
  <2>2. ASSUME NEW t \in Timer, TouchesOnly(t) PROVE PunctualInv'
    BY <1>1, <2>1, <2>2, TouchPunctual
  <2>3. ASSUME NEW rel \in RelTime, NEW p \in BOOLEAN, olsr_start_timer(rel, p) PROVE PunctualInv'
    BY <1>1, <2>2, <2>3, StartTouches
  <2>4. ASSUME NEW t \in Timer, olsr_stop_timer(t) PROVE PunctualInv'
    BY <1>1, <2>2, <2>4, StopTouches
  <2>5. ASSUME NEW t \in Timer, NEW rel \in RelTime, olsr_set_timer(t, rel, period[t] # 0)
        PROVE  PunctualInv'
    <3>1. CASE rel = 0
      BY <2>4, <2>5, <3>1 DEF olsr_set_timer
    <3>2. CASE rel # 0
      BY <1>1, <2>2, <2>5, <3>2, ChangeTouches DEF olsr_set_timer
    <3> QED
      BY <3>1, <3>2
  <2> QED
    BY <1>5, <2>3, <2>4, <2>5 DEF Handler
<1>6. CASE BeginWalk
  BY <1>6, IdlePunctual DEF BeginWalk, walk, SameRound
<1>7. CASE WalkSlot
  BY <1>1, <1>7, WalkSlotPunctual
<1>8. CASE SlotDone
  BY <1>8, SlotDonePunctual
<1>9. CASE PassTimer \/ Advance
  BY <1>9, AdvancePunctual
<1>10. CASE FireTimer
  <2>1. SameRound /\ prev' = prev /\ cur' = cur /\ pc = "walk" /\ pc' = "fired" /\ InWalk
    BY <1>10 DEF FireTimer, SameRound, walk, InWalk
  <2>2. ASSUME NEW t \in Timer, TouchesOnly(t), t # prev PROVE PunctualInv'
    BY <1>1, <2>1, <2>2, TouchPunctual
  <2>3. ASSUME NEW rel \in RelTime, NEW p \in BOOLEAN, olsr_start_timer(rel, p) PROVE PunctualInv'
    <3>1. PICK t \in Timer : ~running[t] /\ TouchesOnly(t)
      BY <1>1, <2>3, StartTouches
    <3> QED
      BY <1>2, <2>1, <2>2, <3>1
  <2>4. ASSUME NEW t \in Timer, t # prev, olsr_stop_timer(t) PROVE PunctualInv'
    BY <1>1, <2>2, <2>4, StopTouches
  <2>5. CASE UNCHANGED timers
    BY <2>1, <2>5, IdlePunctual
  <2> QED
    BY <1>10, <2>3, <2>4, <2>5 DEF FireTimer
<1>11. CASE AfterCallback
  <2>1. /\ SameRound /\ prev' = prev /\ cur' = cur /\ pc = "fired" /\ pc' = "advance" /\ InWalk
        /\ cur \in Timer /\ cur # prev /\ period[cur] \in RelTime \cup {0}
    BY <1>1, <1>11 DEF AfterCallback, SameRound, walk, InWalk, WalkInv, TimersOK
  <2>2. ASSUME TouchesOnly(cur) PROVE PunctualInv'
    BY <1>1, <2>1, <2>2, TouchPunctual
  <2>3. CASE olsr_change_timer(cur, period[cur], TRUE)
    BY <1>1, <2>1, <2>2, <2>3, ChangeTouches
  <2>4. CASE olsr_stop_timer(cur)
    BY <1>1, <2>1, <2>2, <2>4, StopTouches
  <2>5. CASE ~running[cur] /\ UNCHANGED timers
    BY <2>1, <2>5, IdlePunctual
  <2> QED
    BY <1>11, <2>3, <2>4, <2>5 DEF AfterCallback
<1>12. CASE EndWalk
  BY <1>1, <1>12, EndWalkPunctual
<1> QED
  BY <1>3, <1>4, <1>5, <1>6, <1>7, <1>8, <1>9, <1>10, <1>11, <1>12 DEF Next, WalkStep

LEMMA InitPunctual ==
    ASSUME Init
    PROVE  PunctualInv
<1>1. TypeOK
  BY InitWheel DEF WheelInv
<1>2. Gap = 0
  <2>1. now - last_run = 0 /\ walked = 0
    BY <1>1, RoundTypes DEF Init
  <2> QED
    BY <2>1, WrapZero DEF Gap
<1>3. RoundInv
  BY <1>2, SchedulerAssumption DEF RoundInv, Init, InWalk
<1>4. \A t \in Timer : InTime(t)
  BY DEF Init, InTime, Due
<1> QED
  BY <1>3, <1>4 DEF PunctualInv, Init, InWalk

(* No walk of the wheel leaves a timer that is due behind where clock_t    *)
(* does not wrap.  Where the comparison last_run <= now_times fails        *)
(* because it wrapped, a timer is never later than one turn of the wheel   *)
(* and one round (scheduler.c olsr_walk_timers).                           *)
THEOREM TimersPunctual == ASSUME StopsPrev = FALSE, RoundsShort PROVE Spec => []Punctual
<1> DEFINE Inv == WheelInv /\ WalkInv /\ PunctualInv
<1>1. Init => Inv
  BY InitWheel, InitPunctual DEF Init, WalkInv, InWalk
<1>2. Inv /\ [Next]_vars => Inv'
  BY NextWheel, NextWalk, NextPunctual
<1>3. Inv => Punctual
  <2> SUFFICES ASSUME Inv, pc = "output", NEW t \in Timer, running[t]
               PROVE  IF wide THEN ~TIMED_OUT(t) ELSE Wrap(clock[t] - now) >= -(Slots + MaxStep)
    BY DEF Punctual
  <2>1. TypeOK /\ InTime(t) /\ RoundInv
    BY DEF WheelInv, PunctualInv
  <2>2. /\ Slots \in Nat \ {0} /\ MaxStep \in Nat \ {0} /\ now \in Int
        /\ Lag(t) \in Int /\ Turn(t) \in Int /\ 0 <= Turn(t)
    BY <2>1, RoundTypes
  <2>3. Gap = 0
    <3>1. now - last_run = 0 /\ walked = 0
      BY <2>1, <2>2 DEF RoundInv
    <3> QED
      BY <3>1, WrapZero DEF Gap
  <2>4. CASE Lag(t) >= 0
    BY <2>2, <2>4 DEF TIMED_OUT, Lag
  <2>5. CASE Lag(t) < 0
    <3>1. Left(t)
      BY <2>1, <2>2, <2>3, <2>5 DEF InTime, Due
    <3>2. ~wide /\ Turn(t) - Lag(t) < Slots + MaxStep
      BY <2>2, <2>3, <3>1 DEF Left
    <3> QED
      BY <2>2, <3>2 DEF Lag
  <2> QED
    BY <2>2, <2>4, <2>5
<1> QED
  BY <1>1, <1>2, <1>3, PTL DEF Spec

=============================================================================
