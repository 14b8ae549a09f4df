------------------------- MODULE NeighbourhoodProofs ------------------------
(***************************************************************************)
(* Proofs about the local tables of olsrd: TablesSound and RelaysCover are *)
(* invariants and every step is ChangesSignalled, for any neighbours,      *)
(* interfaces, costs and messages.                                         *)
(*                                                                         *)
(* A handler is a composition of functions of the tables, so a lemma       *)
(* "...Fields" says what each function does with each table, a lemma       *)
(* "...OK" or "...Hops" that it keeps the parts of TablesSound, and a      *)
(* lemma "...Step" puts them together for an action.                       *)
(***************************************************************************)
EXTENDS Neighbourhood, TLAPS, FiniteSetTheorems, NaturalsInduction, WellFoundedInduction

-----------------------------------------------------------------------------
(* What the operations do with each table.                                 *)

SameLinks(s, u) == u.link = s.link /\ u.list = s.list /\ u.linkcount = s.linkcount
SameNbrs(s, u) == u.status = s.status /\ u.will = s.will /\ u.mpr = s.mpr
SameHops(s, u) == u.walker = s.walker /\ u.nbr2 = s.nbr2 /\ u.ptr = s.ptr /\ u.two = s.two
SameRest(s, u) == u.mprs = s.mprs /\ u.link_changes = s.link_changes

WalkerTable == [Pair -> WalkerEntry \cup {None}]
Nbr2Table == [Pair -> {None, "timed", "untimed"}]

LEMMA WithoutType ==
    ASSUME NEW P
    PROVE  /\ \A f \in WalkerTable : Without(f, P) \in WalkerTable
           /\ \A f \in Nbr2Table : Without(f, P) \in Nbr2Table
BY DEF Without, WalkerTable, Nbr2Table

(* An update of the two-hop tables.                                        *)
WithHops(s, w, d, q, x, c) ==
    [s EXCEPT !.walker = w, !.nbr2 = d, !.ptr = q, !.two = x, !.changed = c]

LEMMA HopUpdate ==
    ASSUME NEW s \in Tables, NEW w \in WalkerTable, NEW d \in Nbr2Table,
           NEW q \in [Addr -> Int], NEW x \in SUBSET Addr, NEW c \in BOOLEAN, NEW u,
           u = WithHops(s, w, d, q, x, c)
    PROVE  /\ u \in Tables
           /\ SameLinks(s, u) /\ SameNbrs(s, u) /\ SameRest(s, u)
           /\ u.walker = w /\ u.nbr2 = d /\ u.ptr = q /\ u.two = x /\ u.changed = c
<1>1. u \in Tables
  BY DEF WithHops, Tables, WalkerTable, Nbr2Table
<1>2. SameLinks(s, u) /\ SameNbrs(s, u) /\ SameRest(s, u)
  BY DEF WithHops, Tables, SameLinks, SameNbrs, SameRest
<1>3. u.walker = w /\ u.nbr2 = d /\ u.ptr = q /\ u.two = x
  BY DEF WithHops, Tables
<1>4. u.changed = c
  BY DEF WithHops, Tables
<1>5. QED
  BY <1>1, <1>2, <1>3, <1>4

LEMMA HopFields ==
    ASSUME NEW s \in Tables
    PROVE  /\ s.walker \in WalkerTable /\ s.nbr2 \in Nbr2Table
           /\ s.ptr \in [Addr -> Int] /\ s.two \in SUBSET Addr /\ s.changed \in BOOLEAN
BY DEF Tables, WalkerTable, Nbr2Table

LEMMA EndsType ==
    ASSUME NEW P \in SUBSET Pair
    PROVE  Ends(P) \subseteq Addr
BY DEF Ends, Pair

LEMMA UnlinkFields ==
    ASSUME NEW s \in Tables, NEW P \in SUBSET Pair, NEW u, u = Unlink(s, P)
    PROVE  /\ u \in Tables
           /\ SameLinks(s, u) /\ SameNbrs(s, u) /\ SameRest(s, u)
           /\ u.walker = Without(s.walker, P)
           /\ u.nbr2 = Without(s.nbr2, P)
           /\ \A t \in Addr : u.ptr[t] = IF t \in Ends(P) THEN s.ptr[t] - 1 ELSE s.ptr[t]
           /\ u.two = s.two \ {t \in Ends(P) : u.ptr[t] < 1}
           /\ u.changed = (s.changed \/ P # {})
<1> DEFINE w == Without(s.walker, P)
           d == Without(s.nbr2, P)
           q == [t \in Addr |-> IF t \in Ends(P) THEN s.ptr[t] - 1 ELSE s.ptr[t]]
           x == s.two \ {t \in Ends(P) : q[t] < 1}
           c == (s.changed \/ P # {})
           v == [s EXCEPT !.ptr = q, !.walker = w]
<1>1. w \in WalkerTable /\ d \in Nbr2Table
  BY HopFields, WithoutType
<1>2. q \in [Addr -> Int] /\ x \in SUBSET Addr /\ c \in BOOLEAN
  BY HopFields
<1>3. /\ v.nbr2 = s.nbr2 /\ v.ptr = q /\ v.two = s.two /\ v.changed = s.changed
  BY DEF Tables
<1>4. u = olsr_del_nbr2_list(v, P)
  BY DEF Unlink
<1> HIDE DEF w, d, q
<1>5. u = [v EXCEPT !.nbr2 = d, !.changed = c, !.two = x]
  BY <1>3, <1>4 DEF olsr_del_nbr2_list, d
<1> HIDE DEF x, c
<1>6. u = WithHops(s, w, d, q, x, c)
  BY <1>5 DEF WithHops, Tables
<1>7. /\ u \in Tables
      /\ SameLinks(s, u) /\ SameNbrs(s, u) /\ SameRest(s, u)
      /\ u.walker = w /\ u.nbr2 = d /\ u.ptr = q /\ u.two = x /\ u.changed = c
  BY <1>1, <1>2, <1>6, HopUpdate
<1>8. QED
  BY <1>7 DEF w, d, q, x, c

LEMMA DeleteTwoHopFields ==
    ASSUME NEW s \in Tables, NEW t \in Addr, NEW u, u = olsr_delete_two_hop_neighbor_table(s, t),
           NEW P, P = {p \in Pair : p[2] = t /\ s.walker[p] # None}
    PROVE  /\ u \in Tables
           /\ SameLinks(s, u) /\ SameNbrs(s, u) /\ SameRest(s, u)
           /\ u.walker = Without(s.walker, P)
           /\ u.nbr2 = Without(s.nbr2, P)
           /\ u.ptr = [s.ptr EXCEPT ![t] = 0]
           /\ u.two = s.two \ {t}
           /\ u.changed = (s.changed \/ P # {})
<1> DEFINE w == Without(s.walker, P)
           d == Without(s.nbr2, P)
           q == [s.ptr EXCEPT ![t] = 0]
           x == s.two \ {t}
           c == (s.changed \/ P # {})
<1>1. w \in WalkerTable /\ d \in Nbr2Table
  BY HopFields, WithoutType
<1>2. q \in [Addr -> Int] /\ x \in SUBSET Addr /\ c \in BOOLEAN
  BY HopFields
<1>3. u = WithHops(s, w, d, q, x, c)
  BY DEF WithHops, olsr_delete_two_hop_neighbor_table
<1> HIDE DEF w, d, q, x, c
<1>4. /\ u \in Tables
      /\ SameLinks(s, u) /\ SameNbrs(s, u) /\ SameRest(s, u)
      /\ u.walker = w /\ u.nbr2 = d /\ u.ptr = q /\ u.two = x /\ u.changed = c
  BY <1>1, <1>2, <1>3, HopUpdate
<1>5. QED
  BY <1>4 DEF w, d, q, x, c

HeardWalker(s, P, New) ==
    [p \in Pair |-> IF p \in New THEN [cost |-> Broken, saved |-> Broken]
                    ELSE IF p \in P THEN [s.walker[p] EXCEPT !.cost = Broken] ELSE s.walker[p]]
HeardNbr2(s, P, New) ==
    [p \in Pair |-> IF p \in New THEN "untimed" ELSE IF p \in P THEN "timed" ELSE s.nbr2[p]]
HeardPtr(s, New) == [t \in Addr |-> IF t \in Ends(New) THEN s.ptr[t] + 1 ELSE s.ptr[t]]

LEMMA HeardFields ==
    ASSUME NEW s \in Tables, NEW P \in SUBSET Pair, NEW u, u = HeardTwoHops(s, P),
           \A p \in P : s.nbr2[p] # None => s.walker[p] # None,
           NEW New, New = {p \in P : s.nbr2[p] = None}
    PROVE  /\ u \in Tables
           /\ SameLinks(s, u) /\ SameNbrs(s, u) /\ SameRest(s, u)
           /\ u.walker = HeardWalker(s, P, New)
           /\ u.nbr2 = HeardNbr2(s, P, New)
           /\ u.ptr = HeardPtr(s, New)
           /\ u.two = s.two \cup Ends(New)
           /\ u.changed = (s.changed \/ New # {})
<1> DEFINE w == [p \in Pair |->
                 IF p \in New THEN [cost |-> Broken, saved |-> Broken]
                 ELSE IF p \in P THEN [s.walker[p] EXCEPT !.cost = Broken] ELSE s.walker[p]]
           d == [p \in Pair |->
                 IF p \in New THEN "untimed" ELSE IF p \in P THEN "timed" ELSE s.nbr2[p]]
           q == [t \in Addr |-> IF t \in Ends(New) THEN s.ptr[t] + 1 ELSE s.ptr[t]]
           x == s.two \cup Ends(New)
           c == (s.changed \/ New # {})
           wn == [p \in Pair |-> IF p \in New THEN [cost |-> Broken, saved |-> Broken] ELSE s.walker[p]]
           dn == [p \in Pair |-> IF p \in New THEN "untimed" ELSE s.nbr2[p]]
           v1 == [s EXCEPT !.two = x]
           v2 == [v1 EXCEPT !.walker = wn, !.nbr2 = dn, !.ptr = q]
<1>1. w \in WalkerTable
  <2>1. Broken \in Cost
    BY NeighbourhoodAssumption DEF Cost
  <2>2. ASSUME NEW p \in Pair PROVE w[p] \in WalkerEntry \cup {None}
    <3>1. CASE p \in New
      BY <2>1, <3>1 DEF WalkerEntry
    <3>2. CASE p \in P \ New
      <4>1. s.walker[p] # None
        BY <3>2
      <4>2. s.walker[p] \in WalkerEntry
        BY <4>1, HopFields DEF WalkerTable
      <4>3. w[p] = [s.walker[p] EXCEPT !.cost = Broken]
        BY <3>2
      <4>4. QED
        BY <4>2, <4>3, <2>1 DEF WalkerEntry
    <3>3. CASE p \notin P
      BY <3>3, HopFields DEF WalkerTable
    <3>4. QED
      BY <3>1, <3>2, <3>3
  <2>3. QED
    BY <2>2 DEF WalkerTable
<1>2. d \in Nbr2Table
  BY HopFields DEF Nbr2Table
<1>3. q \in [Addr -> Int] /\ x \in SUBSET Addr /\ c \in BOOLEAN
  BY HopFields, EndsType
<1>4. u = [v2 EXCEPT !.nbr2 = [p \in Pair |-> IF p \in P \ New THEN "timed" ELSE v2.nbr2[p]],
                     !.walker = [p \in Pair |-> IF p \in P \ New THEN [v2.walker[p] EXCEPT !.cost = Broken]
                                                ELSE v2.walker[p]],
                     !.changed = v2.changed \/ New # {}]
  <2>1. v1.walker = s.walker /\ v1.nbr2 = s.nbr2 /\ v1.ptr = s.ptr
    BY DEF Tables
  <2>2. v2 = linking_this_2_entries(v1, New)
    BY <2>1 DEF linking_this_2_entries
  <2>3. v1 = [s EXCEPT !.two = s.two \cup Ends(New)]
    OBVIOUS
  <2> HIDE DEF v1, v2
  <2>4. QED
    BY <2>2, <2>3 DEF HeardTwoHops
<1>5. v2.nbr2 = dn /\ v2.walker = wn /\ v2.changed = s.changed
  <2> HIDE DEF dn, wn, q, x
  <2> QED
    BY DEF Tables
<1>6. [p \in Pair |-> IF p \in P \ New THEN "timed" ELSE dn[p]] = d
  OBVIOUS
<1>7. [p \in Pair |-> IF p \in P \ New THEN [wn[p] EXCEPT !.cost = Broken] ELSE wn[p]] = w
  OBVIOUS
<1> HIDE DEF wn, dn, q, x
<1>8. u = [v2 EXCEPT !.nbr2 = d, !.walker = w, !.changed = c]
  <2> HIDE DEF v2
  <2> DEFINE f == [p \in Pair |-> IF p \in P \ New THEN "timed" ELSE dn[p]]
             g == [p \in Pair |-> IF p \in P \ New THEN [wn[p] EXCEPT !.cost = Broken] ELSE wn[p]]
  <2>1. u = [v2 EXCEPT !.nbr2 = f, !.walker = g, !.changed = s.changed \/ New # {}]
    BY <1>4, <1>5
  <2>2. f = d /\ g = w
    BY <1>6, <1>7
  <2> HIDE DEF f, g
  <2>3. QED
    BY <2>1, <2>2
<1> HIDE DEF w, d, c
<1>9. u = WithHops(s, w, d, q, x, c)
  BY <1>8 DEF WithHops, Tables
<1>10. /\ u \in Tables
       /\ SameLinks(s, u) /\ SameNbrs(s, u) /\ SameRest(s, u)
       /\ u.walker = w /\ u.nbr2 = d /\ u.ptr = q /\ u.two = x /\ u.changed = c
  BY <1>1, <1>2, <1>3, <1>9, HopUpdate
<1>11. QED
  BY <1>10 DEF w, d, q, x, c, HeardWalker, HeardNbr2, HeardPtr

LEMMA LeastOfNat ==
    ASSUME NEW S \in SUBSET Nat, S # {}
    PROVE  Min(S) \in S /\ \A j \in S : Min(S) <= j
<1> DEFINE Lt == {p \in Nat \X Nat : p[1] < p[2]}
<1>1. OpToRel(<, Nat) = Lt
  BY Zenon DEF OpToRel
<1>2. IsWellFoundedOn(Lt, Nat)
  BY <1>1, NatLessThanWellFounded
<1> HIDE DEF Lt
<1>3. PICK i \in S : \A j \in S : ~(<<j, i>> \in Lt)
  BY <1>2, WFMin
<1>4. \A j \in S : i <= j
  <2> SUFFICES ASSUME NEW j \in S PROVE i <= j
    OBVIOUS
  <2>1. i \in Nat /\ j \in Nat
    OBVIOUS
  <2>2. j < i => <<j, i>> \in Lt
    BY <2>1 DEF Lt
  <2>3. QED
    BY <2>1, <2>2, <1>3
<1>5. QED
  BY <1>4 DEF Min

(* The list of links holds every link once.                                *)
ListOK(s) ==
    /\ \A l \in Link : s.link[l] # None <=> \E i \in DOMAIN s.list : s.list[i] = l
    /\ \A i, j \in DOMAIN s.list : s.list[i] = s.list[j] => i = j

LEMMA ListFields ==
    ASSUME NEW s \in Tables, ListOK(s)
    PROVE  /\ s.list \in Seq(Link) /\ DOMAIN s.list = 1 .. Len(s.list) /\ Len(s.list) \in Nat
           /\ \A i \in DOMAIN s.list : /\ s.list[i] \in Link /\ s.link[s.list[i]] \in LinkEntry
                                       /\ s.link[s.list[i]].cost \in Cost
<1>1. s.list \in Seq(Link) /\ s.link \in [Link -> LinkEntry \cup {None}]
  BY DEF Tables
<1>2. DOMAIN s.list = 1 .. Len(s.list) /\ Len(s.list) \in Nat
  BY <1>1
<1>3. \A i \in DOMAIN s.list : s.list[i] \in Link
  BY <1>1
<1>4. \A i \in DOMAIN s.list : s.link[s.list[i]] \in LinkEntry
  BY <1>1, <1>3 DEF ListOK
<1>5. \A i \in DOMAIN s.list : s.link[s.list[i]].cost \in Cost
  BY <1>4 DEF LinkEntry
<1>6. QED
  BY <1>1, <1>2, <1>3, <1>4, <1>5

(* A neighbour's best link is usable exactly if one of its links is: the   *)
(* first usable one in the list is better than those before it.            *)
LEMMA BestCost ==
    ASSUME NEW s \in Tables, ListOK(s), NEW n
    PROVE  /\ get_best_link_to_neighbor(s, n) \in Cost
           /\ get_best_link_to_neighbor(s, n) < Broken <=>
                 \E l \in Link : l[1] = n /\ s.link[l] # None /\ s.link[l].cost < Broken
           /\ \/ get_best_link_to_neighbor(s, n) = Broken
              \/ \E l \in LinksOf(s, n) : get_best_link_to_neighbor(s, n) = s.link[l].cost
<1> DEFINE cost(i) == s.link[s.list[i]].cost
           I == Improving(s, n)
           good == {i \in I : SymLink(s, s.list[i])}
           some == IF good # {} THEN good ELSE I
           S == {cost(i) : i \in some} \cup {Broken}
           best == get_best_link_to_neighbor(s, n)
<1>1. Broken \in Cost /\ Cost \in SUBSET Nat /\ \A c \in Cost : c <= Broken
  BY NeighbourhoodAssumption DEF Cost
<1>2. /\ DOMAIN s.list = 1 .. Len(s.list) /\ Len(s.list) \in Nat
      /\ \A i \in DOMAIN s.list : s.list[i] \in Link /\ s.link[s.list[i]] \in LinkEntry /\ cost(i) \in Cost
  BY ListFields
<1>3. \A i \in I : i \in DOMAIN s.list /\ s.list[i][1] = n /\ cost(i) < Broken
  BY DEF Improving
<1>4. some \subseteq I /\ (I # {} => some # {})
  OBVIOUS
<1>5. best = Min(S)
  BY DEF get_best_link_to_neighbor
<1> HIDE DEF some, I, best
<1>6. S \in SUBSET Cost /\ S # {}
  BY <1>1, <1>2, <1>3, <1>4
<1>7. Min(S) \in S /\ \A c \in S : Min(S) <= c
  BY <1>1, <1>6, LeastOfNat
<1>8. best \in Cost
  BY <1>5, <1>6, <1>7
<1>9. ASSUME best < Broken
      PROVE  \E l \in Link : l[1] = n /\ s.link[l] # None /\ s.link[l].cost < Broken
  <2>1. PICK i \in some : TRUE
    <3>1. best \in S
      BY <1>5, <1>7, Zenon
    <3>2. best # Broken
      BY <1>1, <1>8, <1>9
    <3>3. QED
      BY <3>1, <3>2, Zenon
  <2>2. i \in DOMAIN s.list /\ s.list[i][1] = n /\ cost(i) < Broken
    BY <1>3, <1>4, <2>1
  <2>3. s.list[i] \in Link /\ s.link[s.list[i]] # None
    BY <1>2, <2>2, NoneAssumption
  <2>4. QED
    BY <2>2, <2>3
<1>11. ASSUME best # Broken PROVE \E l \in LinksOf(s, n) : best = s.link[l].cost
  <2>1. best \in S
    BY <1>5, <1>7, Zenon
  <2>2. PICK i \in some : best = cost(i)
    BY <1>11, <2>1, Zenon
  <2>3. s.list[i] \in Link /\ s.link[s.list[i]] # None /\ s.list[i][1] = n
    BY <1>2, <1>3, <1>4, NoneAssumption
  <2>4. s.list[i] \in LinksOf(s, n)
    BY <2>3 DEF LinksOf
  <2>5. QED
    BY <2>2, <2>4
<1>10. ASSUME NEW l \in Link, l[1] = n, s.link[l] # None, s.link[l].cost < Broken
       PROVE  best < Broken
  <2> DEFINE U == {i \in DOMAIN s.list : s.list[i][1] = n /\ cost(i) < Broken}
  <2>1. PICK k \in DOMAIN s.list : s.list[k] = l
    BY <1>10 DEF ListOK
  <2>2. k \in U /\ U \in SUBSET Nat
    BY <1>2, <1>10, <2>1
  <2>3. Min(U) \in U /\ \A j \in U : Min(U) <= j
    <3> HIDE DEF U
    <3>1. QED
      BY <2>2, LeastOfNat
  <2>4. PICK i \in U : \A j \in U : i <= j
    BY <2>3
  <2>5. ASSUME NEW j \in 1 .. i - 1, s.list[j][1] = n PROVE cost(i) < cost(j)
    <3>1. j \in DOMAIN s.list /\ i \in DOMAIN s.list /\ cost(i) < Broken
      BY <1>2, <2>4
    <3>2. j \notin U
      BY <1>2, <2>4, <2>5, <3>1
    <3>3. ~(cost(j) < Broken)
      BY <2>5, <3>1, <3>2
    <3>4. cost(i) \in Nat /\ cost(j) \in Nat /\ Broken \in Nat
      BY <1>1, <1>2, <3>1
    <3> HIDE DEF cost
    <3>5. QED
      BY <3>1, <3>3, <3>4
  <2>6. i \in I
    BY <2>4, <2>5 DEF I, Improving
  <2>7. PICK m \in some : TRUE
    BY <1>4, <2>6
  <2>8. m \in I /\ m \in DOMAIN s.list /\ cost(m) < Broken /\ cost(m) \in Cost
    BY <1>2, <1>3, <1>4
  <2>9. Min(S) <= cost(m)
    BY <1>7
  <2>10. cost(m) \in Nat /\ Broken \in Nat /\ best \in Nat /\ best <= cost(m)
    BY <1>1, <1>5, <1>8, <2>8, <2>9
  <2> HIDE DEF cost, S
  <2>11. QED
    BY <2>8, <2>10
<1>12. QED
  BY <1>8, <1>9, <1>10, <1>11 DEF best

(* The paths of a message.                                                 *)
Paths(s, P, h) == \A p \in P : s.walker[p] # None /\ h.nbrs[p[2]] \in Nat

LEMMA PathFields ==
    ASSUME NEW s \in Tables, ListOK(s), NEW P \in SUBSET Pair, NEW h, Paths(s, P, h),
           NEW u, u = PathCosts(s, P, h)
    PROVE  /\ u \in Tables
           /\ SameLinks(s, u) /\ SameNbrs(s, u) /\ SameRest(s, u)
           /\ u.nbr2 = s.nbr2 /\ u.ptr = s.ptr /\ u.two = s.two
           /\ \A p \in Pair : u.walker[p] = None <=> s.walker[p] = None
           /\ s.changed => u.changed
<1> DEFINE new(p) == get_best_link_to_neighbor(s, p[1]) + h.nbrs[p[2]]
           Works == {p \in P : get_best_link_to_neighbor(s, p[1]) < Broken /\ new(p) < Broken}
           Relevant == {p \in Works : olsr_is_relevant_costchange(new(p), s.walker[p].saved)}
           w == [p \in Pair |->
                   IF p \in Works
                   THEN [cost |-> new(p), saved |-> IF p \in Relevant THEN new(p) ELSE s.walker[p].saved]
                   ELSE s.walker[p]]
           c == (s.changed \/ Relevant # {})
<1>1. ASSUME NEW p \in Pair, p \in Works PROVE w[p] \in WalkerEntry
  <2>1. s.walker[p] \in WalkerEntry
    BY <1>1, HopFields DEF WalkerTable, Paths
  <2>2. s.walker[p].saved \in Cost
    BY <2>1 DEF WalkerEntry
  <2>3. get_best_link_to_neighbor(s, p[1]) \in Cost /\ h.nbrs[p[2]] \in Nat
    BY <1>1, BestCost DEF Paths
  <2>4. new(p) \in Cost
    BY <1>1, <2>3, NeighbourhoodAssumption DEF Cost
  <2> HIDE DEF new, Relevant
  <2>5. w[p] = [cost |-> new(p), saved |-> IF p \in Relevant THEN new(p) ELSE s.walker[p].saved]
    BY <1>1
  <2>6. QED
    BY <2>2, <2>4, <2>5 DEF WalkerEntry
<1>2. \A p \in Pair : p \notin Works => w[p] = s.walker[p]
  OBVIOUS
<1>3. Works \subseteq P
  OBVIOUS
<1>4. u = [s EXCEPT !.walker = w, !.changed = c]
  BY DEF PathCosts
<1>5. DOMAIN w = Pair /\ w = [p \in Pair |-> w[p]]
  OBVIOUS
<1> HIDE DEF w, Works, Relevant
<1>6. w \in WalkerTable
  BY <1>1, <1>2, <1>5, HopFields DEF WalkerTable
<1>7. c \in BOOLEAN /\ (s.changed => c)
  OBVIOUS
<1> HIDE DEF c
<1>8. u = WithHops(s, w, s.nbr2, s.ptr, s.two, c)
  BY <1>4 DEF WithHops, Tables
<1>9. /\ u \in Tables
      /\ SameLinks(s, u) /\ SameNbrs(s, u) /\ SameRest(s, u)
      /\ u.walker = w /\ u.nbr2 = s.nbr2 /\ u.ptr = s.ptr /\ u.two = s.two /\ u.changed = c
  BY <1>6, <1>7, <1>8, HopFields, HopUpdate
<1>10. \A p \in Pair : w[p] = None <=> s.walker[p] = None
  BY <1>1, <1>2, <1>3, NoneAssumption DEF Paths
<1>11. QED
  BY <1>7, <1>9, <1>10

-----------------------------------------------------------------------------
(* The links.                                                              *)

(* A new table of links, of their numbers, a new list or new states of the *)
(* neighbours leave well-typed tables.                                     *)
LEMMA LinkUpdate ==
    ASSUME NEW w \in Tables, NEW k \in [Link -> LinkEntry \cup {None}]
    PROVE  [w EXCEPT !.link = k] \in Tables
BY DEF Tables

LEMMA CountUpdate ==
    ASSUME NEW w \in Tables, NEW c \in [Nbr -> Int]
    PROVE  [w EXCEPT !.linkcount = c] \in Tables
BY DEF Tables

LEMMA ListUpdate ==
    ASSUME NEW w \in Tables, NEW q \in Seq(Link)
    PROVE  [w EXCEPT !.list = q] \in Tables
BY DEF Tables

LEMMA StatusUpdate ==
    ASSUME NEW w \in Tables, NEW z \in [Nbr -> {None, "SYM", "NOT_SYM"}]
    PROVE  [w EXCEPT !.status = z] \in Tables
BY DEF Tables

LEMMA LinkFields ==
    ASSUME NEW s \in Tables
    PROVE  /\ s.link \in [Link -> LinkEntry \cup {None}]
           /\ s.list \in Seq(Link) /\ s.linkcount \in [Nbr -> Int] /\ s.status \in [Nbr -> {None, "SYM", "NOT_SYM"}]
           /\ s.will \in [Nbr -> Willingness] /\ s.mpr \in SUBSET Nbr /\ s.mprs \in SUBSET Nbr
           /\ s.changed \in BOOLEAN /\ s.link_changes \in BOOLEAN
BY DEF Tables

LEMMA EntryUpdate ==
    ASSUME NEW f \in [Link -> LinkEntry \cup {None}], NEW l \in Link, f[l] # None
    PROVE  /\ f[l] \in LinkEntry
           /\ \A c \in Cost : [f[l] EXCEPT !.cost = c] \in LinkEntry
           /\ \A b \in BOOLEAN : [f[l] EXCEPT !.sym = b] \in LinkEntry
           /\ \A b \in BOOLEAN, m \in LinkStatus : [f[l] EXCEPT !.prev = m, !.sym = b] \in LinkEntry
<1>1. f[l] \in LinkEntry
  OBVIOUS
<1>2. QED
  BY <1>1 DEF LinkEntry

LEMMA LossFields ==
    ASSUME NEW s \in Tables, NEW l \in Link, s.link[l] # None, NEW c \in Cost,
           NEW u, u = olsr_update_packet_loss_worker(s, l, c)
    PROVE  /\ u \in Tables
           /\ SameHops(s, u) /\ SameNbrs(s, u)
           /\ u.linkcount = s.linkcount /\ u.list = s.list /\ u.mprs = s.mprs
           /\ \A k \in Link \ {l} : u.link[k] = s.link[k]
           /\ u.link[l] \in LinkEntry
           /\ u.link[l].sym = s.link[l].sym
           /\ u.link[l].cost = c
           /\ \/ u = s
              \/ u.changed /\ u.link_changes
<1>0. s.link[l] \in LinkEntry
  BY LinkFields, EntryUpdate
<1>1. CASE c = s.link[l].cost
  <2>1. u = s
    BY <1>1 DEF olsr_update_packet_loss_worker, olsr_is_relevant_costchange
  <2>2. QED
    BY <1>0, <1>1, <2>1 DEF SameHops, SameNbrs
<1>2. CASE c # s.link[l].cost
  <2> DEFINE e == [s.link[l] EXCEPT !.cost = c]
             k == [s.link EXCEPT ![l] = e]
  <2>1. u = [s EXCEPT !.link = k, !.changed = TRUE, !.link_changes = TRUE]
    BY <1>2 DEF olsr_update_packet_loss_worker, olsr_is_relevant_costchange, Tables
  <2>2. e \in LinkEntry
    BY LinkFields, EntryUpdate
  <2>3. e.sym = s.link[l].sym /\ e.cost = c
    BY <1>0 DEF LinkEntry
  <2> HIDE DEF e
  <2>4. k \in [Link -> LinkEntry \cup {None}] /\ k[l] = e /\ \A j \in Link \ {l} : k[j] = s.link[j]
    BY <2>2, LinkFields
  <2> HIDE DEF k
  <2>5. u \in Tables
    BY <2>1, <2>4 DEF Tables
  <2>6. u.link = k /\ u.linkcount = s.linkcount /\ u.list = s.list /\ u.mprs = s.mprs
    BY <2>1 DEF Tables
  <2>7. SameHops(s, u) /\ SameNbrs(s, u)
    BY <2>1 DEF Tables, SameHops, SameNbrs
  <2>8. u.changed /\ u.link_changes
    BY <2>1 DEF Tables
  <2>9. QED
    BY <2>2, <2>3, <2>4, <2>5, <2>6, <2>7, <2>8
<1>3. QED
  BY <1>1, <1>2

LEMMA AddFields ==
    ASSUME NEW s \in Tables, NEW l \in Link, NEW u, u = add_link_entry(s, l), s.link[l] = None
    PROVE  /\ u \in Tables
           /\ SameHops(s, u) /\ SameRest(s, u)
           /\ u.will = s.will /\ u.mpr = s.mpr /\ u.changed = s.changed
           /\ \A k \in Link \ {l} : u.link[k] = s.link[k]
           /\ u.link[l] \in LinkEntry
           /\ ~u.link[l].sym
           /\ u.link[l].cost = Broken
           /\ u.list = Append(s.list, l)
           /\ u.linkcount[l[1]] = s.linkcount[l[1]] + 1
           /\ \A n \in Nbr \ {l[1]} : u.linkcount[n] = s.linkcount[n] /\ u.status[n] = s.status[n]
           /\ u.status[l[1]] = IF s.status[l[1]] = None THEN "NOT_SYM" ELSE s.status[l[1]]
<1> DEFINE e == [sym |-> FALSE, prev |-> "ASYM_LINK", cost |-> Broken]
           k == [s.link EXCEPT ![l] = e]
           q == Append(s.list, l)
           c == [s.linkcount EXCEPT ![l[1]] = @ + 1]
           z == [s.status EXCEPT ![l[1]] = IF @ = None THEN "NOT_SYM" ELSE @]
<1>1. u = [s EXCEPT !.link = k, !.list = q, !.linkcount = c, !.status = z]
  BY DEF add_link_entry, Tables
<1>2. e \in LinkEntry
  BY NeighbourhoodAssumption DEF LinkEntry, LinkStatus, Cost
<1>3. ~e.sym /\ e.cost = Broken
  OBVIOUS
<1>4. l[1] \in Nbr
  BY DEF Link
<1>5. /\ c \in [Nbr -> Int] /\ z \in [Nbr -> {None, "SYM", "NOT_SYM"}]
      /\ c[l[1]] = s.linkcount[l[1]] + 1
      /\ \A n \in Nbr \ {l[1]} : c[n] = s.linkcount[n] /\ z[n] = s.status[n]
      /\ z[l[1]] = IF s.status[l[1]] = None THEN "NOT_SYM" ELSE s.status[l[1]]
  BY <1>4, LinkFields
<1> HIDE DEF e
<1>6. /\ k \in [Link -> LinkEntry \cup {None}] /\ k[l] = e /\ \A j \in Link \ {l} : k[j] = s.link[j]
      /\ q \in Seq(Link) /\ q = Append(s.list, l)
  BY <1>2, LinkFields
<1> HIDE DEF k, c, z, q
<1>7. u \in Tables
  <2> DEFINE v == [s EXCEPT !.link = k, !.list = q]
  <2>1. v \in Tables
    BY <1>6 DEF Tables
  <2> DEFINE w == [v EXCEPT !.linkcount = c]
  <2>2. u = [w EXCEPT !.status = z]
    BY <1>1 DEF Tables
  <2> HIDE DEF v
  <2>3. w \in Tables
    BY <1>5, <2>1, CountUpdate
  <2> HIDE DEF w
  <2>4. z \in [Nbr -> {None, "SYM", "NOT_SYM"}]
    BY <1>5
  <2>5. QED
    BY <2>2, <2>3, <2>4, StatusUpdate
<1>8. u.link = k /\ u.list = q /\ u.linkcount = c /\ u.status = z /\ u.will = s.will /\ u.mpr = s.mpr
  BY <1>1 DEF Tables
<1>9. SameHops(s, u) /\ SameRest(s, u)
  BY <1>1 DEF Tables, SameHops, SameRest
<1>10. u.changed = s.changed
  BY <1>1 DEF Tables
<1>11. QED
  BY <1>2, <1>3, <1>5, <1>6, <1>7, <1>8, <1>9, <1>10

(* A link entry with another view of the link.                             *)
Viewed(s, l, m, b) == [s EXCEPT !.link[l].prev = m, !.link[l].sym = b]

LEMMA SymFields ==
    ASSUME NEW s \in Tables, NEW l \in Link, s.link[l] # None, NEW m \in LinkStatus, NEW b \in BOOLEAN,
           NEW u, u = Viewed(s, l, m, b)
    PROVE  /\ u \in Tables
           /\ SameHops(s, u) /\ SameNbrs(s, u) /\ SameRest(s, u)
           /\ u.linkcount = s.linkcount /\ u.list = s.list /\ u.changed = s.changed
           /\ \A k \in Link \ {l} : u.link[k] = s.link[k]
           /\ u.link[l] \in LinkEntry
           /\ u.link[l].sym = b
           /\ u.link[l].cost = s.link[l].cost
<1> DEFINE e == [s.link[l] EXCEPT !.prev = m, !.sym = b]
           k == [s.link EXCEPT ![l] = e]
<1>0. s.link[l] \in LinkEntry
  BY LinkFields, EntryUpdate
<1>1. u = [s EXCEPT !.link = k]
  BY DEF Viewed, Tables
<1>2. e \in LinkEntry
  BY LinkFields, EntryUpdate
<1>3. e.sym = b /\ e.cost = s.link[l].cost
  BY <1>0 DEF LinkEntry
<1> HIDE DEF e
<1>4. k \in [Link -> LinkEntry \cup {None}] /\ k[l] = e /\ \A j \in Link \ {l} : k[j] = s.link[j]
  BY <1>2, LinkFields
<1> HIDE DEF k
<1>5. u \in Tables
  BY <1>1, <1>4 DEF Tables
<1>6. u.link = k /\ u.linkcount = s.linkcount /\ u.list = s.list
  BY <1>1 DEF Tables
<1>7. SameHops(s, u) /\ SameNbrs(s, u) /\ SameRest(s, u)
  BY <1>1 DEF Tables, SameHops, SameNbrs, SameRest
<1>8. u.changed = s.changed
  BY <1>1 DEF Tables
<1>9. QED
  BY <1>2, <1>3, <1>4, <1>5, <1>6, <1>7, <1>8

(* The tables after a neighbour that becomes symmetric ceased to be a      *)
(* two-hop neighbour.                                                      *)
Promoted(s, n, sym) ==
    IF sym /\ s.status[n] = "NOT_SYM" /\ n \in s.two
    THEN olsr_delete_two_hop_neighbor_table(s, n) ELSE s
NewStatus(sym) == IF sym THEN "SYM" ELSE "NOT_SYM"

LEMMA StatusFields ==
    ASSUME NEW s \in Tables, NEW n \in Nbr, NEW sym \in BOOLEAN,
           NEW u, u = update_neighbor_status(s, n, sym), NEW v, v = Promoted(s, n, sym),
           NEW new, new = NewStatus(sym)
    PROVE  \/ u = s /\ s.status[n] = new
           \/ /\ s.status[n] # new
              /\ u \in Tables /\ v \in Tables
              /\ SameLinks(s, u) /\ SameHops(v, u)
              /\ u.will = s.will /\ u.mpr = s.mpr /\ u.mprs = s.mprs
              /\ u.status[n] = new /\ \A k \in Nbr \ {n} : u.status[k] = s.status[k]
              /\ u.changed /\ u.link_changes
<1>1. v \in Tables /\ SameLinks(s, v) /\ SameNbrs(s, v) /\ SameRest(s, v)
  <2>1. CASE sym /\ s.status[n] = "NOT_SYM" /\ n \in s.two
    <3>1. n \in Addr
      BY DEF Addr
    <3>2. v = olsr_delete_two_hop_neighbor_table(s, n)
      BY <2>1 DEF Promoted
    <3>3. QED
      BY <3>1, <3>2, DeleteTwoHopFields
  <2>2. CASE ~(sym /\ s.status[n] = "NOT_SYM" /\ n \in s.two)
    BY <2>2 DEF SameLinks, SameNbrs, SameRest, Promoted
  <2>3. QED
    BY <2>1, <2>2
<1>2. CASE s.status[n] = new
  BY <1>2 DEF update_neighbor_status, NewStatus
<1>3. CASE s.status[n] # new
  <2> DEFINE z == [v.status EXCEPT ![n] = new]
  <2>1. u = [v EXCEPT !.status = z, !.changed = TRUE, !.link_changes = TRUE]
    BY <1>3, <1>1 DEF update_neighbor_status, Promoted, NewStatus, Tables
  <2>2. z \in [Nbr -> {None, "SYM", "NOT_SYM"}] /\ z[n] = new /\ \A k \in Nbr \ {n} : z[k] = s.status[k]
    BY <1>1, LinkFields DEF SameNbrs, NewStatus
  <2> HIDE DEF z
  <2>3. u \in Tables
    <3>1. z \in [Nbr -> {None, "SYM", "NOT_SYM"}]
      BY <2>2
    <3>2. v \in Tables
      BY <1>1
    <3> DEFINE w == [v EXCEPT !.status = z]
    <3>3. w \in Tables
      BY <3>1, <3>2, StatusUpdate
    <3>4. u = [w EXCEPT !.changed = TRUE, !.link_changes = TRUE]
      BY <3>2, <2>1 DEF Tables
    <3> HIDE DEF w
    <3>5. QED
      BY <3>3, <3>4 DEF Tables
  <2>4. /\ u.link = v.link /\ u.list = v.list /\ u.linkcount = v.linkcount /\ u.status = z /\ u.will = v.will
        /\ u.mpr = v.mpr /\ u.mprs = v.mprs
    BY <1>1, <2>1 DEF Tables
  <2>5. SameHops(v, u)
    BY <1>1, <2>1 DEF Tables, SameHops
  <2>6. u.changed /\ u.link_changes
    BY <1>1, <2>1 DEF Tables
  <2>7. QED
    BY <1>1, <1>3, <2>2, <2>3, <2>4, <2>5, <2>6 DEF SameLinks, SameNbrs, SameRest
<1>4. QED
  BY <1>2, <1>3

LEMMA DeleteNbrFields ==
    ASSUME NEW s \in Tables, NEW n \in Nbr, NEW u, u = olsr_delete_neighbor_table(s, n),
           NEW v, v = Unlink(s, EntriesOf(s, n))
    PROVE  /\ u \in Tables /\ v \in Tables
           /\ SameLinks(s, u) /\ SameHops(v, u) /\ SameRest(s, u)
           /\ u.status = [s.status EXCEPT ![n] = None]
           /\ u.mpr = s.mpr \ {n}
           /\ u.changed
<1> DEFINE z == [v.status EXCEPT ![n] = None]
           y == [v.will EXCEPT ![n] = "WILL_NEVER"]
<1>1. v \in Tables /\ SameLinks(s, v) /\ SameNbrs(s, v) /\ SameRest(s, v)
  <2>1. EntriesOf(s, n) \in SUBSET Pair
    BY DEF EntriesOf
  <2>2. QED
    BY <2>1, UnlinkFields
<1>2. u = [v EXCEPT !.status = z, !.will = y, !.mpr = v.mpr \ {n}, !.changed = TRUE]
  BY <1>1 DEF olsr_delete_neighbor_table, Tables
<1>3. /\ z \in [Nbr -> {None, "SYM", "NOT_SYM"}] /\ z = [s.status EXCEPT ![n] = None]
      /\ y \in [Nbr -> Willingness]
  BY <1>1, LinkFields DEF SameNbrs, Willingness
<1> HIDE DEF z, y
<1>4. u \in Tables
  <2>1. z \in [Nbr -> {None, "SYM", "NOT_SYM"}] /\ y \in [Nbr -> Willingness]
    BY <1>3
  <2>2. v \in Tables
    BY <1>1
  <2> DEFINE x == v.mpr \ {n}
  <2>3. x \in SUBSET Nbr
    BY <2>2, LinkFields
  <2>4. u = [v EXCEPT !.status = z, !.will = y, !.mpr = x, !.changed = TRUE]
    BY <1>2
  <2> HIDE DEF x
  <2> DEFINE v1 == [v EXCEPT !.status = z, !.will = y]
  <2>5. v1 \in Tables
    BY <2>1, <2>2 DEF Tables
  <2>6. u = [v1 EXCEPT !.mpr = x, !.changed = TRUE]
    BY <2>2, <2>4 DEF Tables
  <2> HIDE DEF v1
  <2> DEFINE v2 == [v1 EXCEPT !.mpr = x]
  <2>7. v2 \in Tables
    BY <2>3, <2>5 DEF Tables
  <2>8. u = [v2 EXCEPT !.changed = TRUE]
    BY <2>5, <2>6 DEF Tables
  <2> HIDE DEF v2
  <2>9. QED
    BY <2>7, <2>8 DEF Tables
<1>5. /\ u.link = v.link /\ u.list = v.list /\ u.linkcount = v.linkcount /\ u.status = z
      /\ u.mpr = v.mpr \ {n}
  BY <1>1, <1>2 DEF Tables
<1>6. SameHops(v, u) /\ SameRest(v, u)
  BY <1>1, <1>2 DEF Tables, SameHops, SameRest
<1>7. u.changed
  BY <1>1, <1>2 DEF Tables
<1>8. QED
  BY <1>1, <1>3, <1>4, <1>5, <1>6, <1>7 DEF SameLinks, SameNbrs, SameRest

(* A list without one of its entries.                                      *)
Different(q) == \A j, m \in DOMAIN q : q[j] = q[m] => j = m

Closed(q, i, r) ==
    /\ r \in Seq(Link) /\ DOMAIN r = 1 .. Len(q) - 1
    /\ \A j \in 1 .. Len(q) - 1 : /\ j < i => r[j] = q[j]
                                  /\ ~(j < i) => r[j] = q[j + 1]

Listed(q, l) == \E j \in DOMAIN q : q[j] = l

LEMMA ClosedAt ==
    ASSUME NEW q \in Seq(Link), NEW i \in DOMAIN q, NEW r, Closed(q, i, r), NEW j \in DOMAIN r
    PROVE  /\ i \in Nat /\ j \in Nat /\ j \in DOMAIN q /\ j + 1 \in DOMAIN q
           /\ j < i => r[j] = q[j]
           /\ ~(j < i) => r[j] = q[j + 1]
<1>1. DOMAIN q = 1 .. Len(q) /\ Len(q) \in Nat /\ i \in 1 .. Len(q)
  OBVIOUS
<1>2. j \in 1 .. Len(q) - 1
  BY DEF Closed
<1>3. (j < i => r[j] = q[j]) /\ (~(j < i) => r[j] = q[j + 1])
  BY <1>2 DEF Closed
<1>4. i \in Nat /\ j \in Nat /\ j \in 1 .. Len(q) /\ j + 1 \in 1 .. Len(q)
  BY <1>1, <1>2
<1>5. QED
  BY <1>1, <1>3, <1>4

LEMMA ClosedDifferent ==
    ASSUME NEW q \in Seq(Link), NEW i \in DOMAIN q, Different(q), NEW r, Closed(q, i, r)
    PROVE  Different(r) /\ ~Listed(r, q[i])
<1> DEFINE At(j) == IF j < i THEN j ELSE j + 1
<1>1. ASSUME NEW j \in DOMAIN r
      PROVE  At(j) \in DOMAIN q /\ r[j] = q[At(j)] /\ j \in Nat /\ i \in Nat /\ At(j) # i
  BY ClosedAt
<1>2. ASSUME NEW j \in DOMAIN r, NEW m \in DOMAIN r, r[j] = r[m] PROVE j = m
  <2>1. At(j) \in DOMAIN q /\ At(m) \in DOMAIN q /\ q[At(j)] = q[At(m)]
    BY <1>1, <1>2
  <2>2. At(j) = At(m)
    <3> HIDE DEF At
    <3>1. QED
      BY <2>1 DEF Different
  <2>3. j \in Nat /\ m \in Nat /\ i \in Nat
    BY <1>1
  <2>4. QED
    BY <2>2, <2>3
<1>3. ASSUME NEW j \in DOMAIN r PROVE r[j] # q[i]
  <2>1. At(j) \in DOMAIN q /\ r[j] = q[At(j)] /\ At(j) # i
    BY <1>1
  <2> HIDE DEF At
  <2>2. QED
    BY <2>1 DEF Different
<1>4. QED
  BY <1>2, <1>3 DEF Different, Listed

LEMMA ClosedListed ==
    ASSUME NEW q \in Seq(Link), NEW i \in DOMAIN q, NEW r, Closed(q, i, r), NEW l, l # q[i]
    PROVE  Listed(r, l) <=> Listed(q, l)
<1>1. ASSUME NEW j \in DOMAIN r, r[j] = l PROVE Listed(q, l)
  <2>1. j \in DOMAIN q /\ j + 1 \in DOMAIN q /\ (r[j] = q[j] \/ r[j] = q[j + 1])
    BY ClosedAt
  <2>2. QED
    BY <1>1, <2>1 DEF Listed
<1>2. ASSUME NEW j \in DOMAIN q, q[j] = l PROVE Listed(r, l)
  <2>1. /\ j \in 1 .. Len(q) /\ i \in 1 .. Len(q) /\ Len(q) \in Nat /\ j # i
        /\ DOMAIN r = 1 .. Len(q) - 1
    BY <1>2 DEF Closed
  <2>2. CASE j < i
    <3>1. j \in DOMAIN r
      BY <2>1, <2>2
    <3>2. r[j] = q[j]
      BY <2>2, <3>1, ClosedAt
    <3>3. QED
      BY <1>2, <3>1, <3>2 DEF Listed
  <2>3. CASE j > i
    <3>1. j - 1 \in DOMAIN r /\ ~(j - 1 < i) /\ (j - 1) + 1 = j
      BY <2>1, <2>3
    <3>2. r[j - 1] = q[(j - 1) + 1]
      BY <3>1, ClosedAt
    <3>3. QED
      BY <1>2, <3>1, <3>2 DEF Listed
  <2>4. QED
    BY <2>1, <2>2, <2>3
<1>3. QED
  BY <1>1, <1>2 DEF Listed

LEMMA UnlistedFields ==
    ASSUME NEW q \in Seq(Link), NEW i \in DOMAIN q, Different(q), NEW r, r = Unlisted(q, q[i])
    PROVE  Closed(q, i, r)
<1> DEFINE l == q[i]
           z == [j \in 1 .. Len(q) - 1 |-> IF j < i THEN q[j] ELSE q[j + 1]]
<1>1. DOMAIN q = 1 .. Len(q) /\ Len(q) \in Nat /\ i \in 1 .. Len(q) /\ \A j \in 1 .. Len(q) : q[j] \in Link
  OBVIOUS
<1>2. i = CHOOSE k \in DOMAIN q : q[k] = l
  BY DEF Different
<1>3. r = z
  BY <1>2 DEF Unlisted
<1>4. ASSUME NEW j \in 1 .. Len(q) - 1 PROVE z[j] \in Link /\ z[j] = IF j < i THEN q[j] ELSE q[j + 1]
  <2>1. j \in 1 .. Len(q) /\ j + 1 \in 1 .. Len(q)
    BY <1>1
  <2>2. QED
    BY <1>1, <2>1
<1>5. DOMAIN z = 1 .. Len(q) - 1 /\ Len(q) - 1 \in Nat /\ z = [j \in 1 .. Len(q) - 1 |-> z[j]]
  BY <1>1
<1> HIDE DEF z
<1>6. z \in [1 .. Len(q) - 1 -> Link]
  BY <1>4, <1>5
<1>7. z \in Seq(Link)
  BY <1>5, <1>6
<1>8. QED
  BY <1>3, <1>4, <1>5, <1>7 DEF Closed

LEMMA DeleteLinkFields ==
    ASSUME NEW s \in Tables, NEW l \in Link, ListOK(s), s.link[l] # None,
           NEW u, u = olsr_delete_link_entry(s, l),
           NEW v, v = IF s.linkcount[l[1]] = 1 THEN olsr_delete_neighbor_table(s, l[1]) ELSE s
    PROVE  /\ u \in Tables /\ v \in Tables
           /\ SameHops(v, u) /\ SameNbrs(v, u)
           /\ u.link = [s.link EXCEPT ![l] = None]
           /\ u.list = Unlisted(s.list, l) /\ ListOK(u)
           /\ u.linkcount = [s.linkcount EXCEPT ![l[1]] = @ - 1]
           /\ u.changed
<1> DEFINE k == [v.link EXCEPT ![l] = None]
           q == Unlisted(v.list, l)
           c == [v.linkcount EXCEPT ![l[1]] = @ - 1]
<1>1. l[1] \in Nbr
  BY DEF Link
<1>2. v \in Tables /\ SameLinks(s, v)
  <2>1. CASE s.linkcount[l[1]] = 1
    <3>1. v = olsr_delete_neighbor_table(s, l[1])
      BY <2>1
    <3>2. QED
      BY <1>1, <3>1, DeleteNbrFields
  <2>2. CASE s.linkcount[l[1]] # 1
    BY <2>2 DEF SameLinks
  <2>3. QED
    BY <2>1, <2>2
<1>3. u = [v EXCEPT !.linkcount = c, !.link = k, !.list = q, !.changed = TRUE]
  BY <1>2 DEF olsr_delete_link_entry, Tables
<1>4. /\ k \in [Link -> LinkEntry \cup {None}] /\ k = [s.link EXCEPT ![l] = None]
      /\ c \in [Nbr -> Int] /\ c = [s.linkcount EXCEPT ![l[1]] = @ - 1]
  <2>1. v.link = s.link /\ v.linkcount = s.linkcount
    BY <1>2 DEF SameLinks
  <2>2. s.link \in [Link -> LinkEntry \cup {None}] /\ s.linkcount \in [Nbr -> Int]
    BY LinkFields
  <2>3. k = [s.link EXCEPT ![l] = None] /\ c = [s.linkcount EXCEPT ![l[1]] = @ - 1]
    BY <2>1
  <2> HIDE DEF k, c
  <2>4. QED
    BY <1>1, <2>2, <2>3
<1>10. PICK i \in DOMAIN s.list : s.list[i] = l
  BY DEF ListOK
<1>11. q \in Seq(Link) /\ q = Unlisted(s.list, l) /\ Closed(s.list, i, q)
  <2>1. q = Unlisted(s.list, s.list[i])
    BY <1>2, <1>10 DEF SameLinks
  <2> HIDE DEF q
  <2>2. s.list \in Seq(Link) /\ Different(s.list)
    BY ListFields DEF ListOK, Different
  <2>3. Closed(s.list, i, q)
    BY <2>1, <2>2, UnlistedFields
  <2>4. QED
    BY <1>10, <2>1, <2>3 DEF Closed
<1> HIDE DEF k, c, q
<1>5. u \in Tables
  <2>1. /\ v \in Tables /\ k \in [Link -> LinkEntry \cup {None}] /\ c \in [Nbr -> Int]
        /\ q \in Seq(Link)
    BY <1>2, <1>4, <1>11
  <2> DEFINE w == [v EXCEPT !.list = q]
             x == [w EXCEPT !.linkcount = c]
             y == [x EXCEPT !.link = k]
  <2>2. w \in Tables
    BY <2>1, ListUpdate
  <2>3. u = [y EXCEPT !.changed = TRUE]
    BY <1>3, <2>1 DEF Tables
  <2> HIDE DEF w
  <2>4. x \in Tables
    BY <2>1, <2>2, CountUpdate
  <2> HIDE DEF x
  <2>5. y \in Tables
    BY <2>1, <2>4, LinkUpdate
  <2> HIDE DEF y
  <2>6. QED
    BY <2>3, <2>5 DEF Tables
<1>6. u.link = k /\ u.linkcount = c /\ u.list = q
  BY <1>2, <1>3 DEF Tables
<1>7. SameHops(v, u) /\ SameNbrs(v, u)
  BY <1>2, <1>3 DEF Tables, SameHops, SameNbrs
<1>8. u.changed
  BY <1>2, <1>3 DEF Tables
<1>12. ListOK(u)
  <2>1. Different(s.list) /\ s.list \in Seq(Link) /\ Closed(s.list, i, u.list)
    BY <1>6, <1>11, ListFields DEF ListOK, Different
  <2>2. u.link[l] = None /\ \A m \in Link \ {l} : u.link[m] = s.link[m]
    BY <1>4, <1>6, LinkFields
  <2>3. Different(u.list) /\ ~Listed(u.list, l)
    BY <1>10, <2>1, ClosedDifferent
  <2>4. ASSUME NEW m \in Link PROVE u.link[m] # None <=> Listed(u.list, m)
    <3>1. CASE m = l
      BY <2>2, <2>3, <3>1
    <3>2. CASE m # l
      <4>1. Listed(u.list, m) <=> Listed(s.list, m)
        BY <1>10, <2>1, <3>2, ClosedListed
      <4>2. s.link[m] # None <=> Listed(s.list, m)
        BY DEF ListOK, Listed
      <4>3. QED
        BY <2>2, <3>2, <4>1, <4>2
    <3>3. QED
      BY <3>1, <3>2
  <2>5. QED
    BY <2>3, <2>4 DEF ListOK, Different, Listed
<1>9. QED
  BY <1>2, <1>4, <1>5, <1>6, <1>7, <1>8, <1>11, <1>12

-----------------------------------------------------------------------------
(* The parts of TablesSound, as predicates of the tables: they also hold   *)
(* of most of the tables between the steps of a handler.                   *)

SymOK(s) == \A l \in Link : SymLink(s, l) => s.status[l[1]] = "SYM"

CountsOK(s) ==
    \A n \in Nbr : /\ s.linkcount[n] = Cardinality(LinksOf(s, n))
                   /\ s.status[n] = None <=> s.linkcount[n] = 0

LinksOK(s) == ListOK(s) /\ CountsOK(s)

EntriesOK(s) ==
    \A p \in Pair : /\ s.walker[p] = None <=> s.nbr2[p] = None
                    /\ s.nbr2[p] # None => s.status[p[1]] # None /\ p[2] \in s.two

CountersOK(s) ==
    \A t \in Addr : /\ s.ptr[t] = Cardinality(Walkers(s, t))
                    /\ t \in s.two => s.ptr[t] > 0

HopsOK(s) == EntriesOK(s) /\ CountersOK(s)

LEMMA PairParts ==
    /\ \A p \in Pair : p = <<p[1], p[2]>> /\ p[1] \in Nbr /\ p[2] \in Addr /\ p[1] # p[2]
    /\ \A n \in Nbr, t \in Addr : <<n, t>> \in Pair <=> n # t
BY DEF Pair

LEMMA WalkersFinite ==
    ASSUME NEW s, NEW t
    PROVE  /\ Walkers(s, t) \in SUBSET Nbr /\ IsFiniteSet(Walkers(s, t))
           /\ Cardinality(Walkers(s, t)) \in 0 .. Cardinality(Nbr)
           /\ (Walkers(s, t) # {}) => Cardinality(Walkers(s, t)) > 0
<1>1. Walkers(s, t) \in SUBSET Nbr /\ IsFiniteSet(Nbr)
  BY NeighbourhoodAssumption DEF Walkers
<1>2. IsFiniteSet(Walkers(s, t)) /\ Cardinality(Walkers(s, t)) <= Cardinality(Nbr)
  BY <1>1, FS_Subset
<1>3. Cardinality(Walkers(s, t)) \in Nat /\ Cardinality(Nbr) \in Nat
  BY <1>1, <1>2, FS_CardinalityType
<1>4. Cardinality(Walkers(s, t)) = 0 <=> Walkers(s, t) = {}
  BY <1>2, FS_EmptySet
<1>5. QED
  BY <1>1, <1>2, <1>3, <1>4

LEMMA LinksFinite ==
    ASSUME NEW s, NEW n \in Nbr
    PROVE  /\ IsFiniteSet(LinksOf(s, n))
           /\ Cardinality(LinksOf(s, n)) \in 0 .. Cardinality(Iface)
           /\ Cardinality(LinksOf(s, n)) = 0 <=> LinksOf(s, n) = {}
<1>1. LinksOf(s, n) \in SUBSET ({n} \X Iface)
  BY DEF LinksOf, Link
<1>2. IsFiniteSet({n}) /\ Cardinality({n}) = 1 /\ IsFiniteSet(Iface)
  BY NeighbourhoodAssumption, FS_Singleton
<1>3. Cardinality(Iface) \in Nat
  BY <1>2, FS_CardinalityType
<1>4. IsFiniteSet({n} \X Iface) /\ Cardinality({n} \X Iface) = 1 * Cardinality(Iface)
  BY <1>2, FS_Product
<1>5. IsFiniteSet(LinksOf(s, n)) /\ Cardinality(LinksOf(s, n)) <= Cardinality({n} \X Iface)
  BY <1>1, <1>4, FS_Subset
<1>6. Cardinality(LinksOf(s, n)) \in Nat
  BY <1>5, FS_CardinalityType
<1>7. Cardinality(LinksOf(s, n)) = 0 <=> LinksOf(s, n) = {}
  BY <1>5, FS_EmptySet
<1>8. QED
  BY <1>3, <1>4, <1>5, <1>6, <1>7

(* What does not touch the two-hop tables and ends no neighbour.           *)
LEMMA HopsFrame ==
    ASSUME NEW s, NEW u, HopsOK(s), u.nbr2 = s.nbr2, u.ptr = s.ptr, u.two = s.two,
           \A p \in Pair : u.walker[p] = None <=> s.walker[p] = None,
           \A n \in Nbr : u.status[n] = None => s.status[n] = None
    PROVE  HopsOK(u)
<1>1. EntriesOK(u)
  BY PairParts DEF HopsOK, EntriesOK
<1>2. \A t : Walkers(u, t) = Walkers(s, t)
  BY DEF Walkers
<1>3. CountersOK(u)
  BY <1>2 DEF HopsOK, CountersOK
<1>4. QED
  BY <1>1, <1>3 DEF HopsOK

(* What keeps the set of links and the neighbours.                         *)
LEMMA LinksFrame ==
    ASSUME NEW s, NEW u, LinksOK(s), u.linkcount = s.linkcount, u.list = s.list,
           \A l \in Link : u.link[l] = None <=> s.link[l] = None,
           \A n \in Nbr : u.status[n] = None <=> s.status[n] = None
    PROVE  LinksOK(u)
<1>1. \A n : LinksOf(u, n) = LinksOf(s, n)
  BY DEF LinksOf
<1>2. ListOK(u)
  BY DEF LinksOK, ListOK
<1>3. QED
  BY <1>1, <1>2 DEF LinksOK, CountsOK

LEMMA UnlinkHops ==
    ASSUME NEW s \in Tables, NEW n \in Nbr, NEW P \in SUBSET EntriesOf(s, n), HopsOK(s),
           NEW u, u = Unlink(s, P)
    PROVE  HopsOK(u)
<1>1. P \in SUBSET Pair
  BY DEF EntriesOf
<1>2. /\ SameNbrs(s, u)
      /\ u.walker = Without(s.walker, P) /\ u.nbr2 = Without(s.nbr2, P)
      /\ \A t \in Addr : u.ptr[t] = IF t \in Ends(P) THEN s.ptr[t] - 1 ELSE s.ptr[t]
      /\ u.two = s.two \ {t \in Ends(P) : u.ptr[t] < 1}
  BY <1>1, UnlinkFields
<1>3. \A t \in Addr : t \in Ends(P) <=> <<n, t>> \in P
  BY <1>1, PairParts DEF Ends, EntriesOf
<1>4. \A p \in Pair : /\ u.walker[p] = IF p \in P THEN None ELSE s.walker[p]
                      /\ u.nbr2[p] = IF p \in P THEN None ELSE s.nbr2[p]
  BY <1>2 DEF Without
<1>5. ASSUME NEW t \in Addr, t \in Ends(P)
      PROVE  n \in Walkers(s, t) /\ Walkers(u, t) = Walkers(s, t) \ {n}
  <2>1. <<n, t>> \in P /\ <<n, t>> \in Pair
    BY <1>1, <1>3, <1>5
  <2>2. s.walker[<<n, t>>] # None
    BY <2>1 DEF HopsOK, EntriesOK, EntriesOf
  <2>3. \A k \in Nbr : <<k, t>> \in P => k = n
    BY <1>1, PairParts DEF EntriesOf
  <2>4. QED
    BY <1>4, <2>1, <2>2, <2>3 DEF Walkers
<1>6. ASSUME NEW t \in Addr, t \notin Ends(P)
      PROVE  Walkers(u, t) = Walkers(s, t)
  <2>1. \A k \in Nbr : <<k, t>> \notin P
    BY <1>6 DEF Ends
  <2>2. QED
    BY <1>4, <2>1 DEF Walkers
<1>7. \A t \in Addr : u.ptr[t] = Cardinality(Walkers(u, t))
  <2> SUFFICES ASSUME NEW t \in Addr PROVE u.ptr[t] = Cardinality(Walkers(u, t))
    OBVIOUS
  <2>1. s.ptr[t] = Cardinality(Walkers(s, t)) /\ IsFiniteSet(Walkers(s, t))
    BY WalkersFinite DEF HopsOK, CountersOK
  <2>2. CASE t \in Ends(P)
    <3>1. Cardinality(Walkers(s, t) \ {n}) = Cardinality(Walkers(s, t)) - 1
      BY <1>5, <2>1, <2>2, FS_RemoveElement
    <3>2. QED
      BY <1>2, <1>5, <2>1, <2>2, <3>1
  <2>3. CASE t \notin Ends(P)
    BY <1>2, <1>6, <2>1, <2>3
  <2>4. QED
    BY <2>2, <2>3
<1>8. ASSUME NEW t \in Addr, t \in u.two PROVE u.ptr[t] > 0
  <2>1. t \in s.two /\ s.ptr[t] > 0
    BY <1>2, <1>8 DEF HopsOK, CountersOK
  <2>2. u.ptr[t] \in Int
    BY <1>7, WalkersFinite
  <2>3. QED
    BY <1>2, <1>8, <2>1, <2>2
<1>9. ASSUME NEW p \in Pair
      PROVE  /\ u.walker[p] = None <=> u.nbr2[p] = None
             /\ u.nbr2[p] # None => u.status[p[1]] # None /\ p[2] \in u.two
  <2>1. u.walker[p] = None <=> u.nbr2[p] = None
    BY <1>4 DEF HopsOK, EntriesOK
  <2>2. ASSUME u.nbr2[p] # None PROVE u.status[p[1]] # None /\ p[2] \in u.two
    <3>1. s.nbr2[p] # None /\ p \notin P
      BY <1>4, <2>2
    <3>2. s.status[p[1]] # None /\ p[2] \in s.two
      BY <3>1 DEF HopsOK, EntriesOK
    <3>3. p[1] \in Walkers(u, p[2])
      <4>1. u.walker[p] # None
        BY <2>1, <2>2
      <4>2. QED
        BY <4>1, PairParts DEF Walkers
    <3>4. u.ptr[p[2]] > 0
      BY <1>7, <3>3, WalkersFinite, PairParts
    <3>5. ~(u.ptr[p[2]] < 1)
      BY <3>4, <1>7, WalkersFinite, PairParts
    <3>6. QED
      BY <1>2, <3>2, <3>5 DEF SameNbrs
  <2>3. QED
    BY <2>1, <2>2
<1>10. QED
  BY <1>7, <1>8, <1>9 DEF HopsOK, EntriesOK, CountersOK

LEMMA DeleteTwoHopHops ==
    ASSUME NEW s \in Tables, NEW t \in Addr, HopsOK(s), NEW u, u = olsr_delete_two_hop_neighbor_table(s, t)
    PROVE  HopsOK(u)
<1>0. PICK P : P = {p \in Pair : p[2] = t /\ s.walker[p] # None}
  OBVIOUS
<1>1. /\ SameNbrs(s, u)
      /\ u.walker = Without(s.walker, P) /\ u.nbr2 = Without(s.nbr2, P)
      /\ u.ptr = [s.ptr EXCEPT ![t] = 0] /\ u.two = s.two \ {t}
  BY <1>0, DeleteTwoHopFields, ZenonT(20)
<1>2. \A p \in Pair : /\ u.walker[p] = IF p \in P THEN None ELSE s.walker[p]
                      /\ u.nbr2[p] = IF p \in P THEN None ELSE s.nbr2[p]
  BY <1>1 DEF Without
<1>3. EntriesOK(u)
  <2> SUFFICES ASSUME NEW p \in Pair
               PROVE  /\ u.walker[p] = None <=> u.nbr2[p] = None
                      /\ u.nbr2[p] # None => u.status[p[1]] # None /\ p[2] \in u.two
    BY DEF EntriesOK
  <2>1. /\ s.walker[p] = None <=> s.nbr2[p] = None
        /\ s.nbr2[p] # None => s.status[p[1]] # None /\ p[2] \in s.two
    BY DEF HopsOK, EntriesOK
  <2>2. CASE p \in P
    BY <1>2, <2>2
  <2>3. CASE p \notin P
    <3>1. p[2] # t \/ s.nbr2[p] = None
      BY <1>0, <2>1, <2>3
    <3>2. u.walker[p] = s.walker[p] /\ u.nbr2[p] = s.nbr2[p]
      BY <1>2, <2>3
    <3>3. QED
      BY <1>1, <2>1, <3>1, <3>2 DEF SameNbrs
  <2>4. QED
    BY <2>2, <2>3
<1>4. Walkers(u, t) = {}
  BY <1>0, <1>2, PairParts DEF Walkers
<1>5. \A k \in Addr \ {t} : Walkers(u, k) = Walkers(s, k)
  <2> SUFFICES ASSUME NEW k \in Addr \ {t} PROVE Walkers(u, k) = Walkers(s, k)
    OBVIOUS
  <2>1. \A j \in Nbr : <<j, k>> \notin P
    BY <1>0
  <2>2. QED
    BY <1>2, <2>1 DEF Walkers
<1>6. u.ptr[t] = 0 /\ \A k \in Addr \ {t} : u.ptr[k] = s.ptr[k]
  BY <1>1, HopFields
<1>7. Cardinality({}) = 0
  BY FS_EmptySet
<1>8. CountersOK(u)
  <2> SUFFICES ASSUME NEW k \in Addr
               PROVE  u.ptr[k] = Cardinality(Walkers(u, k)) /\ (k \in u.two => u.ptr[k] > 0)
    BY DEF CountersOK
  <2>1. s.ptr[k] = Cardinality(Walkers(s, k)) /\ (k \in s.two => s.ptr[k] > 0)
    BY DEF HopsOK, CountersOK
  <2>2. CASE k = t
    BY <1>1, <1>4, <1>6, <1>7, <2>2
  <2>3. CASE k # t
    BY <1>1, <1>5, <1>6, <2>1, <2>3
  <2>4. QED
    BY <2>2, <2>3
<1>9. QED
  BY <1>3, <1>8 DEF HopsOK

(* The two passes over the neighbours of a neighbour.                      *)
GoodHello(n, h) ==
    /\ h.me \in LinkStatus /\ h.will \in Willingness /\ h.mpr \in BOOLEAN
    /\ DOMAIN h.nbrs \subseteq Addr \ {n}
    /\ \A t \in DOMAIN h.nbrs : h.nbrs[t] \in Nat

LEMMA HeardHops ==
    ASSUME NEW s \in Tables, NEW n \in Nbr, NEW P \in SUBSET Pair, \A p \in P : p[1] = n,
           HopsOK(s), s.status[n] # None, NEW u, u = HeardTwoHops(s, P)
    PROVE  /\ u \in Tables
           /\ SameLinks(s, u) /\ SameNbrs(s, u) /\ SameRest(s, u)
           /\ HopsOK(u)
           /\ \A p \in P : u.walker[p] # None
           /\ s.changed => u.changed
           /\ u.changed \/ u.two = s.two
<1> DEFINE New == {p \in P : s.nbr2[p] = None}
<1>1. \A p \in Pair : s.nbr2[p] # None <=> s.walker[p] # None
  BY DEF HopsOK, EntriesOK
<1>2. /\ u \in Tables
      /\ SameLinks(s, u) /\ SameNbrs(s, u) /\ SameRest(s, u)
      /\ u.walker = HeardWalker(s, P, New)
      /\ u.nbr2 = HeardNbr2(s, P, New)
      /\ u.ptr = HeardPtr(s, New)
      /\ u.two = s.two \cup Ends(New)
      /\ u.changed = (s.changed \/ New # {})
  <2>1. \A p \in P : s.nbr2[p] # None => s.walker[p] # None
    BY <1>1
  <2>2. New = {p \in P : s.nbr2[p] = None}
    OBVIOUS
  <2> HIDE DEF New
  <2>3. /\ u \in Tables
        /\ SameLinks(s, u) /\ SameNbrs(s, u) /\ SameRest(s, u)
        /\ u.walker = HeardWalker(s, P, New) /\ u.nbr2 = HeardNbr2(s, P, New)
        /\ u.ptr = HeardPtr(s, New) /\ u.two = s.two \cup Ends(New)
        /\ u.changed = (s.changed \/ New # {})
    BY <2>1, <2>2, HeardFields
  <2>4. QED
    BY <2>3
<1>3. \A p \in Pair : p \in P => u.walker[p] # None /\ u.nbr2[p] # None
  <2> SUFFICES ASSUME NEW p \in Pair, p \in P PROVE u.walker[p] # None /\ u.nbr2[p] # None
    OBVIOUS
  <2>1. u.nbr2[p] \in {"timed", "untimed"}
    BY <1>2 DEF HeardNbr2
  <2>2. CASE p \in New
    <3>1. u.walker[p] = [cost |-> Broken, saved |-> Broken]
      BY <1>2, <2>2 DEF HeardWalker
    <3>2. Broken \in Cost
      BY NeighbourhoodAssumption DEF Cost
    <3>3. u.walker[p] \in WalkerEntry
      BY <3>1, <3>2 DEF WalkerEntry
    <3>4. QED
      BY <2>1, <3>3, NoneAssumption
  <2>3. CASE p \notin New
    <3>1. u.walker[p] = [s.walker[p] EXCEPT !.cost = Broken]
      BY <1>2, <2>3 DEF HeardWalker
    <3>2. s.walker[p] \in WalkerEntry
      BY <1>1, <2>3, HopFields DEF WalkerTable
    <3>3. Broken \in Cost
      BY NeighbourhoodAssumption DEF Cost
    <3>4. u.walker[p] \in WalkerEntry
      BY <3>1, <3>2, <3>3 DEF WalkerEntry
    <3>5. QED
      BY <2>1, <3>4, NoneAssumption
  <2>4. QED
    BY <2>2, <2>3
<1>4. \A p \in Pair : p \notin P => u.walker[p] = s.walker[p] /\ u.nbr2[p] = s.nbr2[p]
  BY <1>2 DEF HeardWalker, HeardNbr2
<1>5. New \subseteq P /\ New \in SUBSET Pair /\ \A p \in P \ New : s.nbr2[p] # None
  OBVIOUS
<1>6. EntriesOK(u)
  <2> SUFFICES ASSUME NEW p \in Pair
               PROVE  /\ u.walker[p] = None <=> u.nbr2[p] = None
                      /\ u.nbr2[p] # None => u.status[p[1]] # None /\ p[2] \in u.two
    BY DEF EntriesOK
  <2>1. /\ s.walker[p] = None <=> s.nbr2[p] = None
        /\ s.nbr2[p] # None => s.status[p[1]] # None /\ p[2] \in s.two
    BY DEF HopsOK, EntriesOK
  <2>2. p \in New => p[2] \in Ends(New)
    BY DEF Ends
  <2>3. p[2] \in s.two => p[2] \in u.two
    BY <1>2
  <2>4. u.status = s.status
    BY <1>2 DEF SameNbrs
  <2>5. p \in P => p[1] = n
    OBVIOUS
  <2> HIDE DEF New
  <2>6. CASE p \in P
    BY <1>2, <1>3, <1>5, <2>1, <2>2, <2>4, <2>5, <2>6
  <2>7. CASE p \notin P
    BY <1>4, <2>1, <2>3, <2>4, <2>7
  <2>8. QED
    BY <2>6, <2>7
<1>7. \A t \in Addr : t \in Ends(New) <=> <<n, t>> \in New
  BY PairParts DEF Ends
<1> HIDE DEF New
<1>8. ASSUME NEW t \in Addr, t \in Ends(New)
      PROVE  n \notin Walkers(s, t) /\ Walkers(u, t) = Walkers(s, t) \cup {n}
  <2>1. <<n, t>> \in New /\ <<n, t>> \in P /\ <<n, t>> \in Pair
    BY <1>5, <1>7, <1>8
  <2>2. s.walker[<<n, t>>] = None
    BY <1>1, <2>1 DEF New
  <2>3. u.walker[<<n, t>>] # None
    BY <1>3, <2>1
  <2>4. \A k \in Nbr \ {n} : <<k, t>> \in Pair => u.walker[<<k, t>>] = s.walker[<<k, t>>]
    BY <1>4
  <2>5. QED
    BY <2>1, <2>2, <2>3, <2>4 DEF Walkers
<1>9. ASSUME NEW t \in Addr, t \notin Ends(New)
      PROVE  Walkers(u, t) = Walkers(s, t)
  <2>1. <<n, t>> \notin New
    BY <1>7, <1>9
  <2>2. \A k \in Nbr : <<k, t>> \in Pair => (u.walker[<<k, t>>] = None <=> s.walker[<<k, t>>] = None)
    <3> SUFFICES ASSUME NEW k \in Nbr, <<k, t>> \in Pair
                 PROVE  u.walker[<<k, t>>] = None <=> s.walker[<<k, t>>] = None
      OBVIOUS
    <3>1. CASE <<k, t>> \in P
      <4>1. k = n
        BY <3>1
      <4>2. QED
        BY <1>1, <1>3, <1>5, <2>1, <3>1, <4>1
    <3>2. CASE <<k, t>> \notin P
      BY <1>4, <3>2
    <3>3. QED
      BY <3>1, <3>2
  <2>3. QED
    BY <2>2 DEF Walkers
<1>10. CountersOK(u)
  <2> SUFFICES ASSUME NEW t \in Addr
               PROVE  u.ptr[t] = Cardinality(Walkers(u, t)) /\ (t \in u.two => u.ptr[t] > 0)
    BY DEF CountersOK
  <2>1. /\ s.ptr[t] = Cardinality(Walkers(s, t)) /\ (t \in s.two => s.ptr[t] > 0)
        /\ IsFiniteSet(Walkers(s, t)) /\ Cardinality(Walkers(s, t)) \in 0 .. Cardinality(Nbr)
    BY WalkersFinite DEF HopsOK, CountersOK
  <2>2. CASE t \in Ends(New)
    <3>1. Cardinality(Walkers(s, t) \cup {n}) = Cardinality(Walkers(s, t)) + 1
      BY <1>8, <2>1, <2>2, FS_AddElement
    <3>2. u.ptr[t] = s.ptr[t] + 1
      BY <1>2, <2>2 DEF HeardPtr
    <3>3. Walkers(u, t) = Walkers(s, t) \cup {n}
      BY <1>8, <2>2
    <3>4. QED
      BY <2>1, <3>1, <3>2, <3>3, WalkersFinite
  <2>3. CASE t \notin Ends(New)
    <3>1. u.ptr[t] = s.ptr[t] /\ (t \in u.two => t \in s.two)
      BY <1>2, <2>3 DEF HeardPtr
    <3>2. QED
      BY <1>9, <2>1, <2>3, <3>1
  <2>4. QED
    BY <2>2, <2>3
<1>11. s.changed => u.changed
  BY <1>2
<1>12. u.changed \/ u.two = s.two
  <2>1. CASE New = {}
    <3>1. Ends(New) = {}
      BY <2>1 DEF Ends
    <3>2. QED
      BY <1>2, <3>1
  <2>2. CASE New # {}
    BY <1>2, <2>2
  <2>3. QED
    BY <2>1, <2>2
<1>13. QED
  BY <1>2, <1>3, <1>6, <1>10, <1>11, <1>12 DEF HopsOK

LEMMA MessageHops ==
    ASSUME NEW s \in Tables, NEW n \in Nbr, NEW h, GoodHello(n, h), ListOK(s), HopsOK(s),
           s.status[n] # None, NEW u, u = process_message_neighbors(s, n, h)
    PROVE  /\ u \in Tables
           /\ SameLinks(s, u) /\ SameNbrs(s, u) /\ SameRest(s, u)
           /\ HopsOK(u)
           /\ s.changed => u.changed
           /\ u.changed \/ u.two = s.two
<1> DEFINE P == {<<n, t>> : t \in DOMAIN h.nbrs}
           v == HeardTwoHops(s, P)
<1>1. P \in SUBSET Pair /\ \A p \in P : p[1] = n
  BY PairParts DEF GoodHello
<1>2. u = PathCosts(v, P, h)
  BY DEF process_message_neighbors
<1>3. \A p \in P : h.nbrs[p[2]] \in Nat
  BY DEF GoodHello
<1> HIDE DEF P, v
<1>4. /\ v \in Tables
      /\ SameLinks(s, v) /\ SameNbrs(s, v) /\ SameRest(s, v)
      /\ HopsOK(v)
      /\ \A p \in P : v.walker[p] # None
      /\ s.changed => v.changed
      /\ v.changed \/ v.two = s.two
  BY <1>1, HeardHops DEF v
<1>5. /\ u \in Tables
      /\ SameLinks(v, u) /\ SameNbrs(v, u) /\ SameRest(v, u)
      /\ u.nbr2 = v.nbr2 /\ u.ptr = v.ptr /\ u.two = v.two
      /\ \A p \in Pair : u.walker[p] = None <=> v.walker[p] = None
      /\ v.changed => u.changed
  <2>1. ListOK(v)
    BY <1>4 DEF ListOK, SameLinks
  <2>2. Paths(v, P, h)
    BY <1>3, <1>4 DEF Paths
  <2>3. v \in Tables /\ P \in SUBSET Pair
    BY <1>1, <1>4
  <2>4. QED
    BY <1>2, <2>1, <2>2, <2>3, PathFields
<1>6. HopsOK(u)
  BY <1>4, <1>5, HopsFrame DEF SameNbrs
<1>7. SameLinks(s, u) /\ SameNbrs(s, u) /\ SameRest(s, u)
  BY <1>4, <1>5 DEF SameLinks, SameNbrs, SameRest
<1>8. QED
  BY <1>4, <1>5, <1>6, <1>7

(* The status of a neighbour and its links.                                *)
LEMMA StatusOK ==
    ASSUME NEW s \in Tables, NEW n \in Nbr, NEW sym \in BOOLEAN, s.status[n] # None,
           LinksOK(s), HopsOK(s), NEW u, u = update_neighbor_status(s, n, sym)
    PROVE  /\ u \in Tables /\ LinksOK(u) /\ HopsOK(u)
           /\ SameLinks(s, u) /\ u.will = s.will /\ u.mpr = s.mpr /\ u.mprs = s.mprs
           /\ u.status[n] = NewStatus(sym)
           /\ \A k \in Nbr \ {n} : u.status[k] = s.status[k]
           /\ u = s \/ (u.changed /\ u.link_changes)
<1> DEFINE v == Promoted(s, n, sym)
           new == NewStatus(sym)
<1>1. \/ u = s /\ s.status[n] = new
      \/ /\ s.status[n] # new
         /\ u \in Tables /\ v \in Tables
         /\ SameLinks(s, u) /\ SameHops(v, u)
         /\ u.will = s.will /\ u.mpr = s.mpr /\ u.mprs = s.mprs
         /\ u.status[n] = new /\ \A k \in Nbr \ {n} : u.status[k] = s.status[k]
         /\ u.changed /\ u.link_changes
  BY StatusFields
<1>2. HopsOK(v) /\ v.status = s.status
  <2>1. CASE sym /\ s.status[n] = "NOT_SYM" /\ n \in s.two
    <3>1. n \in Addr /\ v = olsr_delete_two_hop_neighbor_table(s, n)
      BY <2>1 DEF Addr, Promoted
    <3> HIDE DEF v
    <3>2. SameNbrs(s, v)
      BY <3>1, DeleteTwoHopFields
    <3>3. QED
      BY <3>1, <3>2, DeleteTwoHopHops DEF SameNbrs
  <2>2. CASE ~(sym /\ s.status[n] = "NOT_SYM" /\ n \in s.two)
    BY <2>2 DEF Promoted
  <2>3. QED
    BY <2>1, <2>2
<1>3. new # None
  BY NoneAssumption DEF NewStatus
<1>4. CASE u = s /\ s.status[n] = new
  BY <1>4 DEF SameLinks
<1>5. CASE s.status[n] # new
  <2> HIDE DEF v
  <2>1. u.status[n] = new /\ \A k \in Nbr \ {n} : u.status[k] = s.status[k]
    BY <1>1, <1>5
  <2>2. \A k \in Nbr : u.status[k] = None <=> s.status[k] = None
    BY <1>3, <2>1
  <2>3. LinksOK(u)
    BY <1>1, <1>5, <2>2, LinksFrame DEF SameLinks
  <2>4. HopsOK(u)
    BY <1>1, <1>2, <1>5, <2>2, HopsFrame DEF SameHops
  <2>5. QED
    BY <1>1, <1>5, <2>1, <2>3, <2>4
<1>6. QED
  BY <1>1, <1>4, <1>5

LEMMA AddOK ==
    ASSUME NEW s \in Tables, NEW l \in Link, LinksOK(s), HopsOK(s), NEW u, u = add_link_entry(s, l)
    PROVE  /\ u \in Tables /\ LinksOK(u) /\ HopsOK(u)
           /\ SameHops(s, u) /\ SameRest(s, u)
           /\ u.will = s.will /\ u.mpr = s.mpr /\ u.changed = s.changed
           /\ \A k \in Link \ {l} : u.link[k] = s.link[k]
           /\ u.link[l] # None /\ u.status[l[1]] # None
           /\ s.link[l] # None => u.link[l] = s.link[l]
           /\ s.link[l] = None => ~u.link[l].sym /\ u.link[l].cost = Broken
           /\ \A n \in Nbr : u.status[n] = "SYM" <=> s.status[n] = "SYM"
<1> DEFINE m == l[1]
<1>0. m \in Nbr
  BY DEF Link
<1>1. CASE s.link[l] # None
  <2>1. u = s
    BY <1>1 DEF add_link_entry
  <2>2. l \in LinksOf(s, m)
    BY <1>1 DEF LinksOf
  <2>3. s.linkcount[m] # 0
    BY <1>0, <2>2, LinksFinite DEF LinksOK, CountsOK
  <2>4. s.status[m] # None
    BY <1>0, <2>3 DEF LinksOK, CountsOK
  <2>5. QED
    BY <1>1, <2>1, <2>4 DEF SameHops, SameRest
<1>2. CASE s.link[l] = None
  <2>1. /\ u \in Tables
        /\ SameHops(s, u) /\ SameRest(s, u)
        /\ u.will = s.will /\ u.mpr = s.mpr /\ u.changed = s.changed
        /\ \A k \in Link \ {l} : u.link[k] = s.link[k]
        /\ u.link[l] \in LinkEntry
        /\ ~u.link[l].sym
        /\ u.link[l].cost = Broken
        /\ u.list = Append(s.list, l)
        /\ u.linkcount[m] = s.linkcount[m] + 1
        /\ \A n \in Nbr \ {m} : u.linkcount[n] = s.linkcount[n] /\ u.status[n] = s.status[n]
        /\ u.status[m] = IF s.status[m] = None THEN "NOT_SYM" ELSE s.status[m]
    BY <1>2, AddFields
  <2> HIDE DEF m
  <2>2. u.link[l] # None
    BY <2>1, NoneAssumption
  <2>3. /\ u.status[m] = IF s.status[m] = None THEN "NOT_SYM" ELSE s.status[m]
        /\ \A n \in Nbr \ {m} : u.status[n] = s.status[n]
        /\ u.linkcount[m] = s.linkcount[m] + 1
        /\ \A n \in Nbr \ {m} : u.linkcount[n] = s.linkcount[n]
    BY <2>1
  <2>4. u.status[m] # None
    BY <2>3, NoneAssumption
  <2>5. \A n \in Nbr : u.status[n] = "SYM" <=> s.status[n] = "SYM"
    BY <2>3, NoneAssumption
  <2>6. LinksOf(u, m) = LinksOf(s, m) \cup {l} /\ l \notin LinksOf(s, m)
    BY <1>2, <2>1, <2>2 DEF LinksOf, m
  <2>7. \A n \in Nbr \ {m} : LinksOf(u, n) = LinksOf(s, n)
    BY <2>1 DEF LinksOf, m
  <2>8. Cardinality(LinksOf(u, m)) = Cardinality(LinksOf(s, m)) + 1
    BY <1>0, <2>6, LinksFinite, FS_AddElement
  <2>9. CountsOK(u)
    <3> SUFFICES ASSUME NEW n \in Nbr
                 PROVE  /\ u.linkcount[n] = Cardinality(LinksOf(u, n))
                        /\ u.status[n] = None <=> u.linkcount[n] = 0
      BY DEF CountsOK
    <3>1. s.linkcount[n] = Cardinality(LinksOf(s, n)) /\ (s.status[n] = None <=> s.linkcount[n] = 0)
      BY DEF LinksOK, CountsOK
    <3>2. CASE n = m
      <4>1. Cardinality(LinksOf(s, m)) \in 0 .. Cardinality(Iface)
        BY <1>0, LinksFinite
      <4>2. u.linkcount[m] = Cardinality(LinksOf(u, m)) /\ u.linkcount[m] # 0
        BY <2>3, <2>8, <3>1, <3>2, <4>1
      <4>3. QED
        BY <2>4, <3>2, <4>2
    <3>3. CASE n # m
      BY <2>3, <2>7, <3>1, <3>3
    <3>4. QED
      BY <3>2, <3>3
  <2>10. \A n \in Nbr : u.status[n] = None => s.status[n] = None
    BY <2>3, <2>4
  <2>11. HopsOK(u)
    BY <2>1, <2>10, HopsFrame DEF SameHops
  <2>12. ListOK(u)
    <3>1. ListOK(s) /\ \A i \in DOMAIN s.list : s.list[i] # l
      BY <1>2 DEF LinksOK, ListOK
    <3>2. /\ DOMAIN s.list = 1 .. Len(s.list) /\ Len(s.list) \in Nat
          /\ DOMAIN u.list = 1 .. Len(s.list) + 1 /\ u.list[Len(s.list) + 1] = l
          /\ \A i \in DOMAIN s.list : i \in DOMAIN u.list /\ u.list[i] = s.list[i]
      BY <2>1, <3>1, ListFields
    <3>3. \A i \in DOMAIN u.list : i \in DOMAIN s.list \/ i = Len(s.list) + 1
      BY <3>2
    <3>4. \A i, j \in DOMAIN u.list : u.list[i] = u.list[j] => i = j
      BY <3>1, <3>2, <3>3 DEF ListOK
    <3>5. \E i \in DOMAIN u.list : u.list[i] = l
      <4>1. Len(s.list) + 1 \in DOMAIN u.list
        BY <3>2
      <4>2. QED
        BY <3>2, <4>1
    <3>6. ASSUME NEW k \in Link, k # l
          PROVE  u.link[k] # None <=> \E i \in DOMAIN u.list : u.list[i] = k
      <4>1. u.link[k] = s.link[k] /\ (s.link[k] # None <=> \E i \in DOMAIN s.list : s.list[i] = k)
        BY <2>1, <3>1, <3>6 DEF ListOK
      <4>2. QED
        BY <3>2, <3>3, <3>6, <4>1
    <3>7. QED
      BY <2>2, <3>4, <3>5, <3>6 DEF ListOK
  <2>13. QED
    BY <1>2, <2>1, <2>2, <2>4, <2>5, <2>9, <2>11, <2>12 DEF m, LinksOK
<1>3. QED
  BY <1>1, <1>2

(* The same neighbours are symmetric.                                      *)
SameSym(s, u) == \A n \in Nbr : u.status[n] = "SYM" <=> s.status[n] = "SYM"

LEMMA UpdateLinkOK ==
    ASSUME NEW s \in Tables, NEW l \in Link, LinksOK(s), HopsOK(s), SymOK(s),
           NEW h, h.me \in LinkStatus, NEW u, u = update_link_entry(s, l, h)
    PROVE  /\ u \in Tables /\ LinksOK(u) /\ HopsOK(u) /\ SymOK(u)
           /\ u.mpr = s.mpr /\ u.link[l] # None /\ u.status[l[1]] # None
           /\ \A k \in Link \ {l} : u.link[k] = s.link[k]
           /\ s.link[l] # None => u.link[l].cost = s.link[l].cost
           /\ s.link[l] = None => u.link[l].cost = Broken
           /\ \/ u.changed /\ u.link_changes
              \/ /\ SameHops(s, u) /\ SameSym(s, u)
                 /\ u.changed = s.changed /\ u.link_changes = s.link_changes
<1> DEFINE m == l[1]
           v == add_link_entry(s, l)
           b == IF h.me \in {"SYM_LINK", "ASYM_LINK"} THEN TRUE
                ELSE IF h.me = "LOST_LINK" THEN FALSE ELSE v.link[l].sym
           w == Viewed(v, l, h.me, b)
           g == get_neighbor_status(w, l)
<1>0. m \in Nbr
  BY DEF Link
<1>1. /\ v \in Tables /\ LinksOK(v) /\ HopsOK(v)
      /\ SameHops(s, v) /\ SameRest(s, v)
      /\ v.will = s.will /\ v.mpr = s.mpr /\ v.changed = s.changed
      /\ \A k \in Link \ {l} : v.link[k] = s.link[k]
      /\ v.link[l] # None /\ v.status[m] # None
      /\ s.link[l] # None => v.link[l] = s.link[l]
      /\ s.link[l] = None => ~v.link[l].sym /\ v.link[l].cost = Broken
      /\ SameSym(s, v)
  BY AddOK DEF SameSym
<1>2. v.link[l] \in LinkEntry
  BY <1>1, LinkFields
<1>3. b \in BOOLEAN
  BY <1>2 DEF LinkEntry
<1>4. u = update_neighbor_status(w, m, g)
  <2>1. w = [v EXCEPT !.link[l].prev = h.me,
                      !.link[l].sym = IF h.me \in {"SYM_LINK", "ASYM_LINK"} THEN TRUE
                                      ELSE IF h.me = "LOST_LINK" THEN FALSE ELSE @]
    BY <1>1, <1>2 DEF Tables, LinkEntry, Viewed
  <2> HIDE DEF w
  <2>2. QED
    BY <2>1 DEF update_link_entry
<1> HIDE DEF v, b
<1>5. /\ w \in Tables
      /\ SameHops(v, w) /\ SameNbrs(v, w) /\ SameRest(v, w)
      /\ w.linkcount = v.linkcount /\ w.list = v.list /\ w.changed = v.changed
      /\ \A k \in Link \ {l} : w.link[k] = v.link[k]
      /\ w.link[l] \in LinkEntry
      /\ w.link[l].cost = v.link[l].cost
  BY <1>1, <1>3, SymFields
<1>6. w.link[l] # None
  BY <1>5, NoneAssumption
<1>7. g \in BOOLEAN
  BY DEF get_neighbor_status
<1> HIDE DEF w
<1>8. g <=> \E k \in LinksOf(w, m) : SymLink(w, k)
  BY DEF get_neighbor_status
<1> HIDE DEF g
<1>9. LinksOK(w)
  <2>1. \A k \in Link : w.link[k] = None <=> v.link[k] = None
    BY <1>1, <1>5, <1>6
  <2>2. QED
    BY <1>1, <1>5, <2>1, LinksFrame DEF SameNbrs
<1>10. HopsOK(w)
  BY <1>1, <1>5, HopsFrame DEF SameHops, SameNbrs
<1>11. w.status[m] # None
  BY <1>1, <1>5 DEF SameNbrs
<1>12. /\ u \in Tables /\ LinksOK(u) /\ HopsOK(u)
       /\ SameLinks(w, u) /\ u.will = w.will /\ u.mpr = w.mpr /\ u.mprs = w.mprs
       /\ u.status[m] = NewStatus(g)
       /\ \A k \in Nbr \ {m} : u.status[k] = w.status[k]
       /\ u = w \/ (u.changed /\ u.link_changes)
  BY <1>0, <1>4, <1>5, <1>7, <1>9, <1>10, <1>11, StatusOK
<1>13. SymOK(u)
  <2> SUFFICES ASSUME NEW k \in Link, SymLink(u, k) PROVE u.status[k[1]] = "SYM"
    BY DEF SymOK
  <2>1. SymLink(w, k) /\ k[1] \in Nbr
    BY <1>12 DEF SameLinks, SymLink, Link
  <2>2. CASE k[1] = m
    <3>1. k \in LinksOf(w, m)
      BY <2>1, <2>2 DEF LinksOf, SymLink
    <3>2. g
      BY <1>8, <2>1, <3>1
    <3>3. QED
      BY <1>12, <2>2, <3>2 DEF NewStatus
  <2>3. CASE k[1] # m
    <3>1. w.link[k] = s.link[k]
      BY <1>1, <1>5, <2>3
    <3>2. s.status[k[1]] = "SYM"
      BY <2>1, <3>1 DEF SymOK, SymLink
    <3>3. w.status[k[1]] = "SYM"
      BY <1>1, <1>5, <2>1, <3>2 DEF SameSym, SameNbrs
    <3>4. QED
      BY <1>12, <2>1, <2>3, <3>3
  <2>4. QED
    BY <2>2, <2>3
<1>14. u.status[m] # None
  BY <1>12, NoneAssumption DEF NewStatus
<1>15. \/ u.changed /\ u.link_changes
       \/ /\ SameHops(s, u) /\ SameSym(s, u)
          /\ u.changed = s.changed /\ u.link_changes = s.link_changes
  <2>1. CASE u = w
    BY <1>1, <1>5, <2>1 DEF SameHops, SameSym, SameNbrs, SameRest
  <2>2. QED
    BY <1>12, <2>1
<1>16. QED
  BY <1>1, <1>5, <1>6, <1>12, <1>13, <1>14, <1>15 DEF SameLinks, SameNbrs

LEMMA DeleteLinkOK ==
    ASSUME NEW s \in Tables, NEW l \in Link, LinksOK(s), HopsOK(s), SymOK(s), s.link[l] # None,
           NEW u, u = olsr_delete_link_entry(s, l)
    PROVE  /\ u \in Tables /\ LinksOK(u) /\ HopsOK(u) /\ SymOK(u)
           /\ u.changed /\ u.link[l] = None
<1> DEFINE m == l[1]
           v == IF s.linkcount[l[1]] = 1 THEN olsr_delete_neighbor_table(s, l[1]) ELSE s
<1>0. m \in Nbr
  BY DEF Link
<1>1. /\ u \in Tables /\ v \in Tables
      /\ SameHops(v, u) /\ SameNbrs(v, u)
      /\ u.link = [s.link EXCEPT ![l] = None]
      /\ ListOK(u)
      /\ u.linkcount = [s.linkcount EXCEPT ![m] = @ - 1]
      /\ u.changed
  BY DeleteLinkFields DEF LinksOK
<1>2. CASE s.linkcount[m] = 1
  <2>1. v = olsr_delete_neighbor_table(s, m)
    BY <1>2
  <2> HIDE DEF v
  <2> DEFINE x == Unlink(s, EntriesOf(s, m))
  <2>2. /\ SameHops(x, v)
        /\ v.status = [s.status EXCEPT ![m] = None]
    BY <1>0, <2>1, DeleteNbrFields
  <2>3. HopsOK(x)
    BY <1>0, UnlinkHops
  <2>4. SameNbrs(s, x) /\ x.nbr2 = Without(s.nbr2, EntriesOf(s, m))
    <3>1. EntriesOf(s, m) \in SUBSET Pair
      BY DEF EntriesOf
    <3>2. QED
      BY <3>1, UnlinkFields
  <2>5. \A p \in Pair : p[1] = m => x.nbr2[p] = None
    BY <2>4 DEF Without, EntriesOf
  <2>6. u.status[m] = None /\ \A n \in Nbr \ {m} : u.status[n] = s.status[n]
    BY <1>0, <1>1, <2>2, LinkFields DEF SameNbrs
  <2> HIDE DEF x
  <2>7. u.nbr2 = x.nbr2 /\ u.walker = x.walker /\ u.ptr = x.ptr /\ u.two = x.two
    BY <1>1, <2>2 DEF SameHops
  <2>8. HopsOK(u)
    <3>1. EntriesOK(u)
      <4> SUFFICES ASSUME NEW p \in Pair
                   PROVE  /\ u.walker[p] = None <=> u.nbr2[p] = None
                          /\ u.nbr2[p] # None => u.status[p[1]] # None /\ p[2] \in u.two
        BY DEF EntriesOK
      <4>1. /\ x.walker[p] = None <=> x.nbr2[p] = None
            /\ x.nbr2[p] # None => x.status[p[1]] # None /\ p[2] \in x.two
        BY <2>3 DEF HopsOK, EntriesOK
      <4>2. QED
        BY <2>4, <2>5, <2>6, <2>7, <4>1, PairParts DEF SameNbrs
    <3>2. \A t : Walkers(u, t) = Walkers(x, t)
      BY <2>7 DEF Walkers
    <3>3. CountersOK(u)
      BY <2>3, <2>7, <3>2 DEF HopsOK, CountersOK
    <3>4. QED
      BY <3>1, <3>3 DEF HopsOK
  <2>9. LinksOf(s, m) = {l}
    <3>1. l \in LinksOf(s, m)
      BY DEF LinksOf
    <3>2. Cardinality(LinksOf(s, m)) = 1 /\ IsFiniteSet(LinksOf(s, m))
      BY <1>0, <1>2, LinksFinite DEF LinksOK, CountsOK
    <3> HIDE DEF m
    <3>3. PICK y : LinksOf(s, m) = {y}
      BY <3>2, FS_Singleton
    <3>4. QED
      BY <3>1, <3>3
  <2>10. u.link[l] = None /\ \A k \in Link \ {l} : u.link[k] = s.link[k]
    BY <1>1, LinkFields
  <2>11. LinksOf(u, m) = {}
    BY <2>9, <2>10 DEF LinksOf
  <2>12. \A n \in Nbr \ {m} : LinksOf(u, n) = LinksOf(s, n)
    BY <2>10 DEF LinksOf
  <2>13. u.linkcount[m] = 0 /\ \A n \in Nbr \ {m} : u.linkcount[n] = s.linkcount[n]
    BY <1>0, <1>1, <1>2, LinkFields
  <2>14. LinksOK(u)
    <3>1. Cardinality({}) = 0
      BY FS_EmptySet
    <3>2. ASSUME NEW n \in Nbr
          PROVE  /\ u.linkcount[n] = Cardinality(LinksOf(u, n))
                 /\ u.status[n] = None <=> u.linkcount[n] = 0
      <4>1. CASE n = m
        BY <2>6, <2>11, <2>13, <3>1, <4>1
      <4>2. CASE n # m
        BY <2>6, <2>12, <2>13, <4>2 DEF LinksOK, CountsOK
      <4>3. QED
        BY <4>1, <4>2
    <3>3. QED
      BY <1>1, <3>2 DEF LinksOK, CountsOK
  <2>15. SymOK(u)
    <3> SUFFICES ASSUME NEW k \in Link, SymLink(u, k) PROVE u.status[k[1]] = "SYM"
      BY DEF SymOK
    <3>1. k \in LinksOf(u, k[1]) /\ k[1] \in Nbr
      BY DEF SymLink, LinksOf, Link
    <3>2. k[1] # m /\ k # l
      BY <2>11, <3>1
    <3>3. s.status[k[1]] = "SYM"
      BY <2>10, <3>2 DEF SymOK, SymLink
    <3>4. QED
      BY <2>6, <3>1, <3>2, <3>3
  <2>16. QED
    BY <1>1, <2>8, <2>10, <2>14, <2>15
<1>3. CASE s.linkcount[m] # 1
  <2>1. v = s
    BY <1>3
  <2>2. u.link[l] = None /\ \A k \in Link \ {l} : u.link[k] = s.link[k]
    BY <1>1, LinkFields
  <2>3. LinksOf(u, m) = LinksOf(s, m) \ {l} /\ l \in LinksOf(s, m)
    BY <2>2 DEF LinksOf
  <2>4. \A n \in Nbr \ {m} : LinksOf(u, n) = LinksOf(s, n)
    BY <2>2 DEF LinksOf
  <2> HIDE DEF m, v
  <2>5. u.linkcount[m] = s.linkcount[m] - 1 /\ \A n \in Nbr \ {m} : u.linkcount[n] = s.linkcount[n]
    BY <1>0, <1>1, LinkFields
  <2>6. Cardinality(LinksOf(u, m)) = Cardinality(LinksOf(s, m)) - 1
    <3>1. IsFiniteSet(LinksOf(s, m))
      BY <1>0, LinksFinite
    <3>2. QED
      BY <2>3, <3>1, FS_RemoveElement
  <2>7. s.linkcount[m] \in Nat /\ s.linkcount[m] # 0
    BY <1>0, <2>3, LinksFinite DEF LinksOK, CountsOK
  <2>8. u.status = s.status
    BY <1>1, <2>1 DEF SameNbrs
  <2>9. CountsOK(u)
    <3> SUFFICES ASSUME NEW n \in Nbr
                 PROVE  /\ u.linkcount[n] = Cardinality(LinksOf(u, n))
                        /\ u.status[n] = None <=> u.linkcount[n] = 0
      BY DEF CountsOK
    <3>1. s.linkcount[n] = Cardinality(LinksOf(s, n)) /\ (s.status[n] = None <=> s.linkcount[n] = 0)
      BY DEF LinksOK, CountsOK
    <3>2. CASE n = m
      BY <1>3, <2>5, <2>6, <2>7, <2>8, <3>1, <3>2
    <3>3. CASE n # m
      BY <2>4, <2>5, <2>8, <3>1, <3>3
    <3>4. QED
      BY <3>2, <3>3
  <2>10. HopsOK(u)
    BY <1>1, <2>1, <2>8, HopsFrame DEF SameHops
  <2>11. SymOK(u)
    BY <2>2, <2>8 DEF SymOK, SymLink
  <2>12. QED
    BY <1>1, <2>2, <2>9, <2>10, <2>11 DEF LinksOK
<1>4. QED
  BY <1>2, <1>3

-----------------------------------------------------------------------------
(* A HELLO message.                                                        *)

SoundTables(s) == s \in Tables /\ LinksOK(s) /\ HopsOK(s) /\ SymOK(s)

Selected(s, n) == [s EXCEPT !.mprs = @ \cup {n}, !.link_changes = @ \/ n \notin s.mprs]
Willing(s, n, w) == [s EXCEPT !.will[n] = w, !.changed = TRUE]

LEMMA SelectedFields ==
    ASSUME NEW s \in Tables, NEW n \in Nbr, NEW u, u = Selected(s, n)
    PROVE  /\ u \in Tables
           /\ SameLinks(s, u) /\ SameNbrs(s, u) /\ SameHops(s, u)
           /\ u.changed = s.changed /\ (s.link_changes => u.link_changes)
<1> DEFINE x == s.mprs \cup {n}
           b == (s.link_changes \/ n \notin s.mprs)
<1>1. u = [s EXCEPT !.mprs = x, !.link_changes = b]
  BY DEF Selected
<1>2. x \in SUBSET Nbr /\ b \in BOOLEAN /\ (s.link_changes => b)
  BY LinkFields
<1> HIDE DEF x, b
<1>3. u \in Tables
  BY <1>1, <1>2 DEF Tables
<1>4. SameLinks(s, u) /\ SameNbrs(s, u) /\ SameHops(s, u)
  BY <1>1 DEF Tables, SameLinks, SameNbrs, SameHops
<1>5. u.changed = s.changed
  BY <1>1 DEF Tables
<1>6. u.link_changes = b
  BY <1>1 DEF Tables
<1>7. QED
  BY <1>2, <1>3, <1>4, <1>5, <1>6

LEMMA WillingFields ==
    ASSUME NEW s \in Tables, NEW n \in Nbr, NEW w \in Willingness, NEW u, u = Willing(s, n, w)
    PROVE  /\ u \in Tables
           /\ SameLinks(s, u) /\ SameHops(s, u) /\ SameRest(s, u)
           /\ u.status = s.status /\ u.mpr = s.mpr /\ u.changed
<1> DEFINE y == [s.will EXCEPT ![n] = w]
<1>1. u = [s EXCEPT !.will = y, !.changed = TRUE]
  BY DEF Willing, Tables
<1>2. y \in [Nbr -> Willingness]
  BY LinkFields
<1> HIDE DEF y
<1>3. u \in Tables
  BY <1>1, <1>2 DEF Tables
<1>4. SameLinks(s, u) /\ SameHops(s, u) /\ SameRest(s, u) /\ u.status = s.status /\ u.mpr = s.mpr
  BY <1>1 DEF Tables, SameLinks, SameHops, SameRest
<1>5. u.changed
  BY <1>1 DEF Tables
<1>6. QED
  BY <1>3, <1>4, <1>5

(* What touches neither the links nor the status of a neighbour nor the    *)
(* two-hop tables.                                                         *)
LEMMA SoundFrame ==
    ASSUME NEW s, NEW u \in Tables, SoundTables(s), SameLinks(s, u), u.status = s.status, SameHops(s, u)
    PROVE  SoundTables(u)
<1>1. LinksOK(u)
  BY LinksFrame DEF SoundTables, SameLinks
<1>2. HopsOK(u)
  BY HopsFrame DEF SoundTables, SameHops
<1>3. SymOK(u)
  BY DEF SoundTables, SameLinks, SymOK, SymLink
<1>4. QED
  BY <1>1, <1>2, <1>3 DEF SoundTables

(* No link ends or changes its cost, and a new one has none yet.           *)
SameCosts(s, u) ==
    \A k \in Link : /\ s.link[k] # None => u.link[k] # None /\ u.link[k].cost = s.link[k].cost
                    /\ s.link[k] = None /\ u.link[k] # None => u.link[k].cost = Broken

(* So the same neighbours have a usable link.                              *)
SameBest(s, u) ==
    /\ SameCosts(s, u)
    /\ \A n : get_best_link_to_neighbor(u, n) < Broken <=> get_best_link_to_neighbor(s, n) < Broken

LEMMA BestFrame ==
    ASSUME NEW s \in Tables, NEW u \in Tables, ListOK(s), ListOK(u), SameCosts(s, u)
    PROVE  SameBest(s, u)
<1> SUFFICES ASSUME NEW n
             PROVE  get_best_link_to_neighbor(u, n) < Broken <=> get_best_link_to_neighbor(s, n) < Broken
  BY DEF SameBest
<1>1. Broken \in Nat
  BY NeighbourhoodAssumption
<1>2. \A l \in Link : u.link[l] # None /\ u.link[l].cost < Broken <=>
                      s.link[l] # None /\ s.link[l].cost < Broken
  BY <1>1 DEF SameCosts
<1>3. QED
  BY <1>2, BestCost

LEMMA SameLinkBest ==
    ASSUME NEW s \in Tables, NEW u \in Tables, ListOK(s), ListOK(u), u.link = s.link
    PROVE  SameBest(s, u)
BY BestFrame DEF SameCosts

LEMMA SoundList ==
    ASSUME NEW s, SoundTables(s)
    PROVE  s \in Tables /\ ListOK(s)
BY DEF SoundTables, LinksOK

LEMMA SymFrame ==
    ASSUME NEW s, SymOK(s), NEW u, u.status = s.status, u.link = s.link
    PROVE  SymOK(u)
<1> SUFFICES ASSUME NEW l \in Link, SymLink(u, l) PROVE u.status[l[1]] = "SYM"
  BY DEF SymOK
<1>1. SymLink(s, l)
  BY DEF SymLink
<1>2. QED
  BY <1>1 DEF SymOK

LEMMA SameSymFrame ==
    ASSUME NEW s, NEW v, NEW u, SameSym(s, v), u.status = v.status
    PROVE  SameSym(s, u)
BY DEF SameSym

LEMMA SameBestFrame ==
    ASSUME NEW s, NEW v, NEW u, SameBest(s, v), SameBest(v, u)
    PROVE  SameBest(s, u)
<1>1. SameCosts(s, u)
  BY DEF SameBest, SameCosts
<1>2. QED
  BY <1>1 DEF SameBest

(* The neighbours a message lists touch the two-hop tables only.           *)
MessageStep(s, u) ==
    /\ SoundTables(u) /\ u.status = s.status /\ u.mpr = s.mpr
    /\ u.link = s.link /\ u.link_changes = s.link_changes
    /\ s.changed => u.changed
    /\ u.changed \/ u.two = s.two

LEMMA MessageOK ==
    ASSUME NEW s, SoundTables(s), NEW n \in Nbr, NEW h, GoodHello(n, h), s.status[n] # None,
           NEW u, u = process_message_neighbors(s, n, h)
    PROVE  MessageStep(s, u)
<1>1. s \in Tables /\ LinksOK(s) /\ HopsOK(s) /\ SymOK(s) /\ ListOK(s)
  BY DEF SoundTables, LinksOK
<1>2. /\ u \in Tables
      /\ SameLinks(s, u) /\ SameNbrs(s, u) /\ SameRest(s, u)
      /\ HopsOK(u)
      /\ s.changed => u.changed
      /\ u.changed \/ u.two = s.two
  BY <1>1, MessageHops
<1>3. /\ u.status = s.status /\ u.mpr = s.mpr
      /\ u.link = s.link /\ u.link_changes = s.link_changes
      /\ u.linkcount = s.linkcount /\ u.list = s.list
  BY <1>2 DEF SameLinks, SameNbrs, SameRest
<1>4. LinksOK(u)
  BY <1>1, <1>2, <1>3, LinksFrame
<1>5. SymOK(u)
  BY <1>1, <1>3, SymFrame
<1>6. QED
  BY <1>2, <1>3, <1>4, <1>5 DEF SoundTables, MessageStep

LEMMA HelloOK ==
    ASSUME NEW s, SoundTables(s), NEW l \in Link, NEW h, GoodHello(l[1], h), NEW c \in Cost,
           NEW u1, u1 = olsr_update_packet_loss_worker(update_link_entry(s, l, h), l, c),
           NEW u2, u2 = IF h.mpr THEN Selected(u1, l[1]) ELSE u1,
           NEW u3, u3 = IF h.will = u2.will[l[1]] THEN u2 ELSE Willing(u2, l[1], h.will),
           NEW u4, u4 = IF h.will = "WILL_NEVER" THEN u3 ELSE process_message_neighbors(u3, l[1], h)
    PROVE  /\ SoundTables(u4)
           /\ u4.mpr = s.mpr
           /\ u4.changed \/ (~s.changed /\ u4.two = s.two /\ SameSym(s, u4) /\ SameBest(s, u4))
           /\ u4.link_changes \/ (SameSym(s, u4) /\ SameBest(s, u4))
           /\ \A k \in Link : s.link[k] # None => u4.link[k] # None
<1> DEFINE n == l[1]
           u0 == update_link_entry(s, l, h)
<1>0. n \in Nbr /\ h.me \in LinkStatus /\ h.will \in Willingness
  BY DEF Link, GoodHello
<1>1. /\ u0 \in Tables /\ LinksOK(u0) /\ HopsOK(u0) /\ SymOK(u0)
      /\ u0.mpr = s.mpr /\ u0.link[l] # None /\ u0.status[n] # None
      /\ \A k \in Link \ {l} : u0.link[k] = s.link[k]
      /\ s.link[l] # None => u0.link[l].cost = s.link[l].cost
      /\ s.link[l] = None => u0.link[l].cost = Broken
      /\ \/ u0.changed /\ u0.link_changes
         \/ /\ SameHops(s, u0) /\ SameSym(s, u0)
            /\ u0.changed = s.changed /\ u0.link_changes = s.link_changes
  BY <1>0, UpdateLinkOK DEF SoundTables
<1>2. SameBest(s, u0)
  BY <1>1, SoundList, BestFrame DEF LinksOK, SameCosts
<1>3. u1 = olsr_update_packet_loss_worker(u0, l, c)
  OBVIOUS
<1> HIDE DEF u0
<1>4. /\ u1 \in Tables
      /\ SameHops(u0, u1) /\ SameNbrs(u0, u1)
      /\ u1.linkcount = u0.linkcount /\ u1.list = u0.list /\ u1.mprs = u0.mprs
      /\ \A k \in Link \ {l} : u1.link[k] = u0.link[k]
      /\ u1.link[l] \in LinkEntry
      /\ u1.link[l].sym = u0.link[l].sym
      /\ u1 = u0 \/ (u1.changed /\ u1.link_changes)
  BY <1>1, <1>3, LossFields
<1>5. u1.link[l] # None
  BY <1>4, NoneAssumption
<1>6. SoundTables(u1)
  <2>1. LinksOK(u1)
    <3>1. \A k \in Link : u1.link[k] = None <=> u0.link[k] = None
      BY <1>1, <1>4, <1>5
    <3>2. QED
      BY <1>1, <1>4, <3>1, LinksFrame DEF SameNbrs
  <2>2. HopsOK(u1)
    BY <1>1, <1>4, HopsFrame DEF SameHops, SameNbrs
  <2>3. SymOK(u1)
    <3> SUFFICES ASSUME NEW k \in Link, SymLink(u1, k) PROVE u1.status[k[1]] = "SYM"
      BY DEF SymOK
    <3>1. SymLink(u0, k)
      BY <1>1, <1>4 DEF SymLink
    <3>2. QED
      BY <1>1, <1>4, <3>1 DEF SymOK, SameNbrs
  <2>4. QED
    BY <1>4, <2>1, <2>2, <2>3 DEF SoundTables
<1>7. /\ u1.mpr = s.mpr /\ u1.status[n] # None
      /\ u1.changed \/ (~s.changed /\ u1.two = s.two /\ SameSym(s, u1) /\ SameBest(s, u1))
      /\ u1.link_changes \/ (SameSym(s, u1) /\ SameBest(s, u1))
      /\ \A k \in Link : s.link[k] # None => u1.link[k] # None
  <2>1. u1.mpr = s.mpr /\ u1.status[n] # None
    BY <1>1, <1>4 DEF SameNbrs
  <2>2. \A k \in Link : s.link[k] # None => u1.link[k] # None
    BY <1>1, <1>4, <1>5
  <2>3. CASE u1 = u0
    <3>1. SameHops(s, u1) => u1.two = s.two
      BY DEF SameHops
    <3>2. QED
      BY <1>1, <1>2, <2>1, <2>2, <2>3, <3>1
  <2>4. CASE u1.changed /\ u1.link_changes
    BY <2>1, <2>2, <2>4
  <2>5. QED
    BY <1>4, <2>3, <2>4
<1>8. /\ SoundTables(u2) /\ u2.status = u1.status /\ u2.mpr = u1.mpr
      /\ u2.changed = u1.changed /\ u2.two = u1.two /\ (u1.link_changes => u2.link_changes)
      /\ u2.link = u1.link
  <2>1. CASE h.mpr
    <3>1. u2 = Selected(u1, n)
      BY <2>1
    <3>2. /\ u2 \in Tables
          /\ SameLinks(u1, u2) /\ SameNbrs(u1, u2) /\ SameHops(u1, u2)
          /\ u2.changed = u1.changed /\ (u1.link_changes => u2.link_changes)
      BY <1>0, <1>4, <3>1, SelectedFields
    <3>3. u2.status = u1.status /\ u2.mpr = u1.mpr /\ u2.two = u1.two /\ u2.link = u1.link
      BY <3>2 DEF SameNbrs, SameHops, SameLinks
    <3>4. SoundTables(u2)
      BY <1>6, <3>2, <3>3, SoundFrame
    <3>5. QED
      BY <3>2, <3>3, <3>4
  <2>2. CASE ~h.mpr
    BY <1>6, <2>2
  <2>3. QED
    BY <2>1, <2>2
<1>9. /\ SoundTables(u3) /\ u3.status = u2.status /\ u3.mpr = u2.mpr
      /\ u3.two = u2.two /\ u3.link = u2.link /\ u3.link_changes = u2.link_changes
      /\ u2.changed => u3.changed
  <2>1. CASE h.will = u2.will[n]
    BY <1>8, <2>1
  <2>2. CASE h.will # u2.will[n]
    <3>1. u3 = Willing(u2, n, h.will) /\ u2 \in Tables
      BY <1>8, <2>2 DEF SoundTables
    <3>2. /\ u3 \in Tables
          /\ SameLinks(u2, u3) /\ SameHops(u2, u3) /\ SameRest(u2, u3)
          /\ u3.status = u2.status /\ u3.mpr = u2.mpr /\ u3.changed
      BY <1>0, <3>1, WillingFields
    <3>3. u3.two = u2.two /\ u3.link = u2.link /\ u3.link_changes = u2.link_changes
      BY <3>2 DEF SameLinks, SameHops, SameRest
    <3>4. SoundTables(u3)
      BY <1>8, <3>2, SoundFrame
    <3>5. QED
      BY <3>2, <3>3, <3>4
  <2>3. QED
    BY <2>1, <2>2
<1>10. /\ SoundTables(u4) /\ u4.status = u3.status /\ u4.mpr = u3.mpr
       /\ u4.link = u3.link /\ u4.link_changes = u3.link_changes
       /\ u3.changed => u4.changed
       /\ u4.changed \/ u4.two = u3.two
  <2>1. CASE h.will = "WILL_NEVER"
    BY <1>9, <2>1
  <2>2. CASE h.will # "WILL_NEVER"
    <3>1. u4 = process_message_neighbors(u3, n, h)
      BY <2>2
    <3>2. SoundTables(u3) /\ u3.status[n] # None
      BY <1>7, <1>8, <1>9
    <3>3. QED
      <4>1. MessageStep(u3, u4)
        BY <1>0, <3>1, <3>2, MessageOK
      <4>2. QED
        BY <4>1 DEF MessageStep
  <2>3. QED
    BY <2>1, <2>2
<1>11. u4.status = u1.status /\ u4.link = u1.link
  BY <1>8, <1>9, <1>10
<1>12. (SameSym(s, u1) => SameSym(s, u4)) /\ (SameBest(s, u1) => SameBest(s, u4))
  <2>2. SameBest(u1, u4)
    BY <1>6, <1>10, <1>11, SoundList, SameLinkBest
  <2>3. SameSym(s, u1) => SameSym(s, u4)
    BY <1>11, SameSymFrame
  <2>4. SameBest(s, u1) => SameBest(s, u4)
    BY <2>2, SameBestFrame
  <2>5. QED
    BY <2>3, <2>4
<1>13. u4.mpr = s.mpr /\ \A k \in Link : s.link[k] # None => u4.link[k] # None
  <2>1. u4.mpr = s.mpr
    <3>1. u1.mpr = s.mpr
      BY <1>7
    <3>2. u2.mpr = u1.mpr
      BY <1>8
    <3>3. u3.mpr = u2.mpr
      BY <1>9
    <3>4. u4.mpr = u3.mpr
      BY <1>10
    <3>5. QED
      BY <3>1, <3>2, <3>3, <3>4
  <2>2. \A k \in Link : s.link[k] # None => u4.link[k] # None
    BY <1>7, <1>11
  <2>3. QED
    BY <2>1, <2>2
<1>14. u4.changed \/ (~s.changed /\ u4.two = s.two /\ SameSym(s, u4) /\ SameBest(s, u4))
  <2>1. CASE u1.changed
    BY <1>8, <1>9, <1>10, <2>1
  <2>2. CASE ~u1.changed
    <3>1. ~s.changed /\ u1.two = s.two /\ SameSym(s, u1) /\ SameBest(s, u1)
      BY <1>7, <2>2
    <3>2. SameSym(s, u4) /\ SameBest(s, u4)
      BY <1>12, <3>1
    <3>3. u4.changed \/ u4.two = u1.two
      BY <1>8, <1>9, <1>10
    <3>4. QED
      BY <3>1, <3>2, <3>3
  <2>3. QED
    BY <2>1, <2>2
<1>15. u4.link_changes \/ (SameSym(s, u4) /\ SameBest(s, u4))
  <2>1. u1.link_changes => u4.link_changes
    BY <1>8, <1>9, <1>10
  <2>2. QED
    BY <1>7, <1>12, <2>1
<1>16. QED
  BY <1>10, <1>13, <1>14, <1>15

-----------------------------------------------------------------------------
(* The choice of the relays.                                               *)

RelaysSym(s) == \A n \in s.mpr : s.status[n] = "SYM"

Covered(s, t) ==
    \/ PassedOver(s, t)
    \/ \A n \in Wanted(s, t) \ s.mpr : Cardinality(CheaperRelays(s, n, t)) >= mpr_coverage

(* Paths of the same costs, neighbours of the same status and links of the *)
(* same costs need the same relays.                                        *)
LEMMA CoverFrame ==
    ASSUME NEW s \in Tables, NEW u, SameSym(s, u), SameCosts(s, u), u.mpr = s.mpr, NEW t \in Addr,
           \A n \in Nbr \ {t} : u.walker[<<n, t>>] = s.walker[<<n, t>>], Covered(s, t)
    PROVE  Covered(u, t)
<1>1. Walkers(u, t) = Walkers(s, t) /\ Walkers(s, t) \subseteq Nbr \ {t}
  BY PairParts DEF Walkers
<1>2. \A n \in Walkers(s, t) : u.walker[<<n, t>>] = s.walker[<<n, t>>]
  BY <1>1
<1>3. Broken \in Nat /\ \A n \in Walkers(s, t) : s.walker[<<n, t>>].cost \in Nat
  <2>1. ASSUME NEW n \in Walkers(s, t) PROVE s.walker[<<n, t>>].cost \in Nat
    <3>1. s.walker[<<n, t>>] \in WalkerEntry
      BY <1>1, HopFields DEF Walkers, WalkerTable
    <3>2. QED
      BY <3>1, NeighbourhoodAssumption DEF WalkerEntry, Cost
  <2>2. QED
    BY <2>1, NeighbourhoodAssumption
<1>4. /\ \A l \in LinksOf(s, t) : l \in LinksOf(u, t) /\ u.link[l].cost = s.link[l].cost
      /\ \A l \in LinksOf(u, t) : \/ l \in LinksOf(s, t) /\ u.link[l].cost = s.link[l].cost
                                 \/ u.link[l].cost = Broken
  BY DEF SameCosts, LinksOf
<1>5. Wanted(u, t) = Wanted(s, t)
  <2> SUFFICES ASSUME NEW n \in Walkers(s, t) PROVE n \in Wanted(u, t) <=> n \in Wanted(s, t)
    BY <1>1 DEF Wanted
  <2>1. u.status[n] = "SYM" <=> s.status[n] = "SYM"
    BY <1>1 DEF SameSym
  <2>2. t \in Nbr => (u.status[t] = "SYM" <=> s.status[t] = "SYM")
    BY DEF SameSym
  <2> DEFINE c == s.walker[<<n, t>>].cost
  <2>3. u.walker[<<n, t>>].cost = c /\ c \in Nat
    BY <1>2, <1>3
  <2> HIDE DEF c
  <2>4. c < Broken => ((\A l \in LinksOf(u, t) : c < u.link[l].cost)
                         <=> \A l \in LinksOf(s, t) : c < s.link[l].cost)
    BY <1>4
  <2>5. n \in Wanted(u, t) <=>
           /\ u.status[n] = "SYM" /\ c < Broken
           /\ t \in Nbr /\ u.status[t] = "SYM" => \A l \in LinksOf(u, t) : c < u.link[l].cost
    BY <1>1, <2>3 DEF Wanted
  <2>6. n \in Wanted(s, t) <=>
           /\ s.status[n] = "SYM" /\ c < Broken
           /\ t \in Nbr /\ s.status[t] = "SYM" => \A l \in LinksOf(s, t) : c < s.link[l].cost
    BY DEF Wanted, c
  <2>7. QED
    BY <2>1, <2>2, <2>4, <2>5, <2>6
<1>6. PassedOver(s, t) => PassedOver(u, t)
  <2> SUFFICES ASSUME PassedOver(s, t) PROVE PassedOver(u, t)
    OBVIOUS
  <2>1. t \in Nbr /\ u.status[t] = "SYM" /\ \A l \in LinksOf(s, t) : s.link[l].cost >= Broken
    BY DEF PassedOver, SameSym
  <2>2. \A l \in LinksOf(u, t) : u.link[l].cost >= Broken
    BY <1>3, <1>4, <2>1
  <2>3. QED
    BY <2>1, <2>2 DEF PassedOver
<1>7. \A n \in Wanted(s, t) : CheaperRelays(u, n, t) = CheaperRelays(s, n, t)
  <2>1. Wanted(s, t) \subseteq Walkers(s, t)
    BY DEF Wanted
  <2>2. QED
    BY <1>2, <1>5, <2>1 DEF CheaperRelays
<1>8. QED
  BY <1>5, <1>6, <1>7 DEF Covered

Relayed(s, M, b) == [s EXCEPT !.mpr = M, !.link_changes = b]

Processed(s, M, b) == [Relayed(s, M, b) EXCEPT !.changed = FALSE]

(* The tables after olsr_process_changes.                                  *)
LEMMA ProcessFields ==
    ASSUME NEW s \in Tables, NEW M \in SUBSET Nbr, NEW b \in BOOLEAN,
           NEW u, u = Processed(s, M, b)
    PROVE  /\ u \in Tables
           /\ SameLinks(s, u) /\ SameHops(s, u)
           /\ u.status = s.status /\ u.mpr = M /\ ~u.changed /\ u.link_changes = b
<1> DEFINE v == Relayed(s, M, b)
<1>1. v \in Tables
  BY DEF Tables, Relayed
<1>2. /\ SameLinks(s, v) /\ SameHops(s, v)
      /\ v.status = s.status /\ v.mpr = M
  BY DEF Tables, Relayed, SameLinks, SameHops
<1>3. v.link_changes = b
  BY DEF Tables, Relayed
<1>4. u = [v EXCEPT !.changed = FALSE]
  BY DEF Processed
<1> HIDE DEF v
<1>5. u \in Tables
  BY <1>1, <1>4 DEF Tables
<1>6. /\ SameLinks(v, u) /\ SameHops(v, u)
      /\ u.status = v.status /\ u.mpr = v.mpr
  BY <1>1, <1>4 DEF Tables, SameLinks, SameHops
<1>7. ~u.changed
  BY <1>1, <1>4 DEF Tables
<1>8. u.link_changes = v.link_changes
  BY <1>1, <1>4 DEF Tables
<1>9. QED
  BY <1>2, <1>3, <1>5, <1>6, <1>7, <1>8 DEF SameLinks, SameHops

(* The candidates are the relays that are wanted and, as a direct link may  *)
(* be asymmetric and cheaper than the best one, some more.                 *)
LEMMA WantedCandidates ==
    ASSUME NEW s \in Tables, ListOK(s), NEW t \in Addr, ~PassedOver(s, t)
    PROVE  Wanted(s, t) \subseteq Candidates(s, t)
<1> DEFINE best == get_best_link_to_neighbor(s, t)
<1> SUFFICES ASSUME NEW n \in Wanted(s, t) PROVE n \in Candidates(s, t)
  OBVIOUS
<1>1. /\ n \in Walkers(s, t) /\ s.status[n] = "SYM" /\ s.walker[<<n, t>>].cost < Broken
      /\ t \in Nbr /\ s.status[t] = "SYM" =>
            \A l \in LinksOf(s, t) : s.walker[<<n, t>>].cost < s.link[l].cost
  BY DEF Wanted
<1>2. n \in SymWalker(s, t)
  BY <1>1 DEF SymWalker
<1>3. CASE ~(t \in Nbr /\ s.status[t] = "SYM")
  <2>1. best_1hop(s, t) = Broken
    BY <1>3 DEF best_1hop
  <2>2. QED
    BY <1>1, <1>2, <1>3, <2>1 DEF Candidates
<1>4. CASE t \in Nbr /\ s.status[t] = "SYM"
  <2>1. PICK l \in LinksOf(s, t) : ~(s.link[l].cost >= Broken)
    BY <1>4 DEF PassedOver
  <2>2. l \in Link /\ l[1] = t /\ s.link[l] # None
    BY <2>1 DEF LinksOf
  <2>3. s.link[l].cost \in Nat /\ Broken \in Nat
    <3>1. s.link[l] \in LinkEntry
      BY <2>2, LinkFields
    <3>2. QED
      BY <3>1, NeighbourhoodAssumption DEF LinkEntry, Cost
  <2>4. s.link[l].cost < Broken
    BY <2>1, <2>3
  <2>5. best < Broken
    BY <2>2, <2>4, BestCost
  <2>6. best \in Nat
    BY BestCost, NeighbourhoodAssumption DEF Cost
  <2>7. PICK k \in LinksOf(s, t) : best = s.link[k].cost
    BY <2>3, <2>5, <2>6, BestCost
  <2>8. s.walker[<<n, t>>].cost < best
    BY <1>1, <1>4, <2>7
  <2>9. best_1hop(s, t) = best
    BY <1>4 DEF best_1hop
  <2> HIDE DEF best
  <2>10. ~(get_best_link_to_neighbor(s, t) >= Broken)
    BY <2>3, <2>5, <2>6 DEF best
  <2>11. QED
    BY <1>2, <2>8, <2>9, <2>10 DEF Candidates
<1>5. QED
  BY <1>3, <1>4

(* If a wanted relay is not chosen, mpr_coverage others that are no dearer *)
(* are.                                                                    *)
LEMMA ChosenCover ==
    ASSUME NEW s \in Tables, ListOK(s), NEW t \in Addr, ~PassedOver(s, t),
           NEW R \in RelayChoices(s, t), NEW M, R \subseteq M, NEW n \in Wanted(s, t) \ M
    PROVE  \E Q \in SUBSET (Wanted(s, t) \cap M) :
              /\ \A k \in Q : s.walker[<<k, t>>].cost <= s.walker[<<n, t>>].cost
              /\ Cardinality(Q) >= mpr_coverage /\ IsFiniteSet(Q)
<1> DEFINE C == Candidates(s, t)
<1>1. n \in C \ R /\ n \in Walkers(s, t)
  BY WantedCandidates DEF Wanted
<1>2. /\ R \subseteq C /\ Cardinality(R) = Min({mpr_coverage, Cardinality(C)})
      /\ \A k \in R : s.walker[<<k, t>>].cost <= s.walker[<<n, t>>].cost
  BY <1>1 DEF RelayChoices
<1>3. C \subseteq SymWalker(s, t) /\ SymWalker(s, t) \subseteq Walkers(s, t) /\ Walkers(s, t) \subseteq Nbr
  BY DEF Candidates, SymWalker, Walkers
<1> HIDE DEF C
<1>4. \A k \in Walkers(s, t) : s.walker[<<k, t>>].cost \in Nat
  <2> SUFFICES ASSUME NEW k \in Walkers(s, t) PROVE s.walker[<<k, t>>].cost \in Nat
    OBVIOUS
  <2>1. s.walker[<<k, t>>] \in WalkerEntry
    BY HopFields DEF Walkers, WalkerTable
  <2>2. QED
    BY <2>1, NeighbourhoodAssumption DEF WalkerEntry, Cost
<1>5. IsFiniteSet(C) /\ IsFiniteSet(R)
  BY <1>2, <1>3, NeighbourhoodAssumption, FS_Subset
<1>6. /\ Cardinality(R) <= Cardinality(C) /\ Cardinality(R) # Cardinality(C)
      /\ Cardinality(R) \in Nat /\ Cardinality(C) \in Nat
  BY <1>1, <1>2, <1>5, FS_Subset, FS_CardinalityType
<1>7. Cardinality(R) = mpr_coverage
  <2>1. {mpr_coverage, Cardinality(C)} \in SUBSET Nat
    BY <1>6, NeighbourhoodAssumption
  <2>2. Min({mpr_coverage, Cardinality(C)}) \in {mpr_coverage, Cardinality(C)}
    BY <2>1, LeastOfNat
  <2>3. QED
    BY <1>2, <1>6, <2>2
<1>8. ASSUME NEW k \in R PROVE k \in Wanted(s, t)
  <2>1. k \in Walkers(s, t) /\ k \in SymWalker(s, t) /\ s.status[k] = "SYM"
    BY <1>2, <1>3 DEF SymWalker
  <2>2. s.walker[<<k, t>>].cost \in Nat /\ s.walker[<<n, t>>].cost \in Nat
        /\ s.walker[<<k, t>>].cost <= s.walker[<<n, t>>].cost
    BY <1>1, <1>2, <1>4, <2>1
  <2>3. s.walker[<<n, t>>].cost < Broken /\ Broken \in Nat
    BY NeighbourhoodAssumption DEF Wanted
  <2>4. t \in Nbr /\ s.status[t] = "SYM" =>
           \A l \in LinksOf(s, t) : s.walker[<<k, t>>].cost < s.link[l].cost
    <3> SUFFICES ASSUME t \in Nbr, s.status[t] = "SYM", NEW l \in LinksOf(s, t)
                 PROVE  s.walker[<<k, t>>].cost < s.link[l].cost
      OBVIOUS
    <3>1. s.walker[<<n, t>>].cost < s.link[l].cost
      BY DEF Wanted
    <3>2. s.link[l].cost \in Nat
      <4>1. s.link[l] \in LinkEntry
        BY LinkFields DEF LinksOf
      <4>2. QED
        BY <4>1, NeighbourhoodAssumption DEF LinkEntry, Cost
    <3>3. QED
      BY <2>2, <3>1, <3>2
  <2>5. QED
    BY <2>1, <2>2, <2>3, <2>4 DEF Wanted
<1>9. R \in SUBSET (Wanted(s, t) \cap M)
  BY <1>8
<1>10. mpr_coverage >= mpr_coverage
  BY NeighbourhoodAssumption
<1>11. QED
  BY <1>2, <1>5, <1>7, <1>9, <1>10

LEMMA ProcessOK ==
    ASSUME NEW s \in Tables, ListOK(s), s.changed, NEW u \in olsr_process_changes(s)
    PROVE  /\ u \in Tables
           /\ SameLinks(s, u) /\ SameHops(s, u) /\ u.status = s.status
           /\ ~u.changed /\ (s.link_changes => u.link_changes)
           /\ RelaysSym(u) /\ \A t \in u.two : Covered(u, t)
<1> DEFINE Always == {n \in Nbr : s.status[n] = "SYM" /\ s.will[n] = "WILL_ALWAYS"}
           Picks == {f \in [s.two -> SUBSET Nbr] : \A t \in s.two : f[t] \in RelayChoices(s, t)}
<1>1. PICK v \in olsr_calculate_lq_mpr(s) : u = [v EXCEPT !.changed = FALSE]
  BY DEF olsr_process_changes
<1> DEFINE Chosen == {Always \cup UNION {f[t] : t \in s.two} : f \in Picks}
<1>2. PICK M \in Chosen : v = [s EXCEPT !.mpr = M, !.link_changes = @ \/ ~(M \subseteq s.mpr)]
  <2>1. olsr_calculate_lq_mpr(s) =
           {[s EXCEPT !.mpr = M, !.link_changes = @ \/ ~(M \subseteq s.mpr)] : M \in Chosen}
    BY DEF olsr_calculate_lq_mpr
  <2> HIDE DEF Chosen
  <2>2. QED
    BY <1>1, <2>1
<1> DEFINE b == (s.link_changes \/ ~(M \subseteq s.mpr))
<1>3. PICK f \in Picks : M = Always \cup UNION {f[t] : t \in s.two}
  OBVIOUS
<1>4. \A t \in s.two : f[t] \in RelayChoices(s, t) /\ f[t] \subseteq M
  BY <1>3
<1>5. \A t : Candidates(s, t) \subseteq SymWalker(s, t)
  BY DEF Candidates
<1>6. \A t : SymWalker(s, t) \subseteq Nbr /\ \A n \in SymWalker(s, t) : s.status[n] = "SYM"
  BY DEF SymWalker, Walkers
<1>7. M \in SUBSET Nbr
  BY <1>3
<1>8. \A n \in M : s.status[n] = "SYM"
  <2> SUFFICES ASSUME NEW n \in M, n \notin Always PROVE s.status[n] = "SYM"
    OBVIOUS
  <2>1. PICK t \in s.two : n \in f[t]
    BY <1>3
  <2>2. QED
    BY <1>4, <1>5, <1>6, <2>1 DEF RelayChoices
<1>9. b \in BOOLEAN /\ (s.link_changes => b)
  OBVIOUS
<1> HIDE DEF b, Picks, Always
<1>10. /\ u \in Tables
       /\ SameLinks(s, u) /\ SameHops(s, u)
       /\ u.status = s.status /\ u.mpr = M /\ ~u.changed /\ u.link_changes = b
  <2>1. u = Processed(s, M, b)
    BY <1>1, <1>2 DEF Processed, Relayed, b
  <2>2. QED
    BY <2>1, <1>7, <1>9, ProcessFields
<1>11. RelaysSym(u)
  BY <1>8, <1>10 DEF RelaysSym
<1>12. ASSUME NEW t \in u.two PROVE Covered(u, t)
  <2>1. /\ t \in s.two /\ t \in Addr /\ u.walker = s.walker /\ u.link = s.link
        /\ u.mpr = M /\ u.status = s.status
    BY <1>10, <1>12, HopFields DEF SameHops, SameLinks
  <2>2. f[t] \in RelayChoices(s, t) /\ f[t] \subseteq M
    BY <1>4, <2>1
  <2>3. LinksOf(u, t) = LinksOf(s, t) /\ Wanted(u, t) = Wanted(s, t)
    BY <2>1 DEF LinksOf, Wanted, Walkers
  <2>4. CASE PassedOver(s, t)
    BY <2>1, <2>3, <2>4 DEF Covered, PassedOver
  <2>5. CASE ~PassedOver(s, t)
    <3>1. ASSUME NEW n \in Wanted(s, t) \ M PROVE Cardinality(CheaperRelays(u, n, t)) >= mpr_coverage
      <4>1. \E R \in SUBSET (Wanted(s, t) \cap M) :
               /\ \A k \in R : s.walker[<<k, t>>].cost <= s.walker[<<n, t>>].cost
               /\ Cardinality(R) >= mpr_coverage /\ IsFiniteSet(R)
        BY <2>1, <2>2, <2>5, <3>1, ChosenCover
      <4>2. PICK R \in SUBSET (Wanted(s, t) \cap M) :
               /\ \A k \in R : s.walker[<<k, t>>].cost <= s.walker[<<n, t>>].cost
               /\ Cardinality(R) >= mpr_coverage /\ IsFiniteSet(R)
        BY <4>1
      <4>3. R \subseteq CheaperRelays(u, n, t)
        BY <2>1, <2>3, <4>2 DEF CheaperRelays
      <4>4. CheaperRelays(u, n, t) \in SUBSET Nbr
        BY <1>7, <2>1 DEF CheaperRelays
      <4>5. IsFiniteSet(CheaperRelays(u, n, t))
        BY <4>4, NeighbourhoodAssumption, FS_Subset
      <4>6. /\ Cardinality(R) <= Cardinality(CheaperRelays(u, n, t))
            /\ Cardinality(R) \in Nat /\ Cardinality(CheaperRelays(u, n, t)) \in Nat
        BY <4>2, <4>3, <4>5, FS_Subset, FS_CardinalityType
      <4>7. QED
        BY <4>2, <4>6, NeighbourhoodAssumption
    <3>2. QED
      BY <2>1, <2>3, <3>1 DEF Covered
  <2>6. QED
    BY <2>4, <2>5
<1>13. QED
  BY <1>9, <1>10, <1>11, <1>12

-----------------------------------------------------------------------------
(* A step that starts in sound tables with the relays chosen ends in such  *)
(* tables, and signals what TC messages have to tell.                      *)

RelayInv(s, q) == ~s.changed => RelaysSym(s) /\ \A t \in s.two \ q : Covered(s, t)

Signalled(s, u) ==
    Advertised(u) # Advertised(s) =>
       u.link_changes \/ \E l \in Link : s.link[l] # None /\ u.link[l] = None

StepOK(s, u, r) == SoundTables(u) /\ RelayInv(u, r) /\ Signalled(s, u)

LEMMA RelayFrame ==
    ASSUME NEW s \in Tables, NEW q, RelayInv(s, q), NEW u, NEW r, q \subseteq r,
           \/ u.changed
           \/ /\ ~s.changed /\ SameSym(s, u) /\ SameBest(s, u)
              /\ u.two = s.two /\ u.mpr = s.mpr
              /\ \A t \in Addr \ r : \A n \in Nbr \ {t} : u.walker[<<n, t>>] = s.walker[<<n, t>>]
    PROVE  RelayInv(u, r)
<1> SUFFICES ASSUME ~u.changed PROVE RelaysSym(u) /\ \A t \in u.two \ r : Covered(u, t)
  BY DEF RelayInv
<1>1. /\ ~s.changed /\ SameSym(s, u) /\ SameCosts(s, u)
      /\ u.two = s.two /\ u.mpr = s.mpr
      /\ \A t \in Addr \ r : \A n \in Nbr \ {t} : u.walker[<<n, t>>] = s.walker[<<n, t>>]
  BY DEF SameBest
<1>2. RelaysSym(s) /\ s.mpr \subseteq Nbr /\ s.two \subseteq Addr
  BY <1>1, LinkFields, HopFields DEF RelayInv
<1>3. RelaysSym(u)
  BY <1>1, <1>2 DEF RelaysSym, SameSym
<1>4. ASSUME NEW t \in u.two \ r PROVE Covered(u, t)
  <2>1. t \in s.two \ q /\ t \in Addr \ r
    BY <1>1, <1>2, <1>4
  <2>2. Covered(s, t)
    BY <1>1, <2>1 DEF RelayInv
  <2>3. QED
    BY <1>1, <2>1, <2>2, CoverFrame
<1>5. QED
  BY <1>3, <1>4

LEMMA SignalFrame ==
    ASSUME NEW s, NEW u, SameSym(s, u), SameBest(s, u)
    PROVE  Advertised(u) = Advertised(s)
BY DEF Advertised, SameSym, SameBest

LEMMA SameLinkSignal ==
    ASSUME NEW s, NEW u, SoundTables(s), SoundTables(u), u.link = s.link, u.status = s.status
    PROVE  Advertised(u) = Advertised(s) /\ SameSym(s, u) /\ SameBest(s, u)
<1>1. SameBest(s, u)
  BY SoundList, SameLinkBest
<1>2. SameSym(s, u)
  BY DEF SameSym
<1>3. QED
  BY <1>1, <1>2, SignalFrame

LEMMA HelloStep ==
    ASSUME SoundTables(tab), RelayInv(tab, silent), net \in Scenario, silent \in SUBSET Addr,
           NEW l \in Link, Hello(l)
    PROVE  StepOK(tab, tab', silent') /\ silent' \in SUBSET Addr /\ net' = net
<1> DEFINE n == l[1]
<1>0. n \in Nbr
  BY DEF Link
<1>1. PICK h \in net.hellos[n] :
         \E c \in IF h.me = "UNSPEC_LINK" THEN {Broken} ELSE net.costs[n] : olsr_hello_tap(l, h, c)
  BY DEF Hello
<1>2. PICK c \in IF h.me = "UNSPEC_LINK" THEN {Broken} ELSE net.costs[n] : olsr_hello_tap(l, h, c)
  BY <1>1
<1>3. GoodHello(n, h)
  BY <1>0, NeighbourhoodAssumption DEF GoodHello
<1>4. c \in Cost
  BY <1>0, NeighbourhoodAssumption DEF Cost
<1> DEFINE u1 == olsr_update_packet_loss_worker(update_link_entry(tab, l, h), l, c)
           u2 == IF h.mpr THEN Selected(u1, n) ELSE u1
           u3 == IF h.will = u2.will[n] THEN u2 ELSE Willing(u2, n, h.will)
           u4 == IF h.will = "WILL_NEVER" THEN u3 ELSE process_message_neighbors(u3, n, h)
<1>5. /\ tab' \in olsr_process_changes(u4)
      /\ silent' = IF u4.changed THEN {} ELSE silent \cup Repriced(u4)
      /\ net' = net
  BY <1>2 DEF olsr_hello_tap, Selected, Willing
<1>6. /\ SoundTables(u4)
      /\ u4.mpr = tab.mpr
      /\ u4.changed \/ (~tab.changed /\ u4.two = tab.two /\ SameSym(tab, u4) /\ SameBest(tab, u4))
      /\ u4.link_changes \/ (SameSym(tab, u4) /\ SameBest(tab, u4))
  <2>1. u1 = olsr_update_packet_loss_worker(update_link_entry(tab, l, h), l, c)
    OBVIOUS
  <2>2. u2 = IF h.mpr THEN Selected(u1, l[1]) ELSE u1
    OBVIOUS
  <2>3. u3 = IF h.will = u2.will[l[1]] THEN u2 ELSE Willing(u2, l[1], h.will)
    OBVIOUS
  <2>4. u4 = IF h.will = "WILL_NEVER" THEN u3 ELSE process_message_neighbors(u3, l[1], h)
    OBVIOUS
  <2> HIDE DEF u1, u2, u3, u4
  <2>5. QED
    BY <1>3, <1>4, <2>1, <2>2, <2>3, <2>4, HelloOK
<1> HIDE DEF u1, u2, u3, u4
<1>11. silent' \in SUBSET Addr
  BY <1>5 DEF Repriced
<1>7. u4 \in Tables /\ tab \in Tables
  BY <1>6 DEF SoundTables
<1>8. CASE u4.changed
  <2>1. /\ tab' \in Tables
        /\ SameLinks(u4, tab') /\ SameHops(u4, tab') /\ tab'.status = u4.status
        /\ ~tab'.changed /\ (u4.link_changes => tab'.link_changes)
        /\ RelaysSym(tab') /\ \A t \in tab'.two : Covered(tab', t)
    BY <1>5, <1>6, <1>7, <1>8, ProcessOK, SoundList
  <2>2. SoundTables(tab')
    BY <1>6, <2>1, SoundFrame
  <2>3. RelayInv(tab', silent')
    BY <2>1 DEF RelayInv
  <2>4. Signalled(tab, tab')
    <3>1. tab'.link = u4.link
      BY <2>1 DEF SameLinks
    <3>2. Advertised(tab') = Advertised(u4)
      BY <1>6, <2>1, <2>2, <3>1, SameLinkSignal
    <3>3. CASE u4.link_changes
      BY <2>1, <3>3 DEF Signalled
    <3>4. CASE SameSym(tab, u4) /\ SameBest(tab, u4)
      BY <3>2, <3>4, SignalFrame DEF Signalled
    <3>5. QED
      BY <1>6, <3>3, <3>4
  <2>5. QED
    BY <1>5, <1>11, <2>2, <2>3, <2>4 DEF StepOK
<1>9. CASE ~u4.changed
  <2>1. tab' = u4
    BY <1>5, <1>9 DEF olsr_process_changes
  <2>2. /\ silent \subseteq silent'
        /\ \A t \in Addr \ silent' : \A k \in Nbr \ {t} : u4.walker[<<k, t>>] = tab.walker[<<k, t>>]
    BY <1>5, <1>9 DEF Repriced
  <2>3. RelayInv(u4, silent')
    BY <1>6, <1>7, <1>9, <2>2, RelayFrame
  <2>4. Signalled(tab, u4)
    BY <1>6, SignalFrame DEF Signalled
  <2>5. QED
    BY <1>5, <1>6, <1>11, <2>1, <2>3, <2>4 DEF StepOK
<1>10. QED
  BY <1>8, <1>9

LEMMA LossStep ==
    ASSUME SoundTables(tab), RelayInv(tab, silent), NEW l \in Link, net \in Scenario,
           olsr_expire_link_loss_timer(l)
    PROVE  StepOK(tab, tab', silent') /\ UNCHANGED <<net, silent>>
<1>0. tab \in Tables /\ l[1] \in Nbr
  BY DEF SoundTables, Link
<1>1. PICK c \in net.costs[l[1]] : c > tab.link[l].cost /\ Step(olsr_update_packet_loss_worker(tab, l, c))
  BY DEF olsr_expire_link_loss_timer
<1>2. tab.link[l] # None /\ c \in Cost
  BY <1>0, NeighbourhoodAssumption DEF olsr_expire_link_loss_timer
<1>3. tab' = olsr_update_packet_loss_worker(tab, l, c) /\ UNCHANGED <<net, silent>>
  BY <1>1 DEF Step
<1>4. /\ tab' \in Tables
      /\ SameHops(tab, tab') /\ SameNbrs(tab, tab')
      /\ tab'.linkcount = tab.linkcount /\ tab'.list = tab.list /\ tab'.mprs = tab.mprs
      /\ \A k \in Link \ {l} : tab'.link[k] = tab.link[k]
      /\ tab'.link[l] \in LinkEntry
      /\ tab'.link[l].sym = tab.link[l].sym
      /\ tab'.link[l].cost = c
      /\ tab' = tab \/ (tab'.changed /\ tab'.link_changes)
  BY <1>0, <1>2, <1>3, LossFields
<1>5. tab'.changed /\ tab'.link_changes
  <2>1. tab.link[l].cost \in Cost
    <3>1. tab.link[l] \in LinkEntry
      BY <1>0, <1>2, LinkFields
    <3>2. QED
      BY <3>1 DEF LinkEntry
  <2>2. c # tab.link[l].cost
    BY <1>1, <1>2, <2>1, NeighbourhoodAssumption DEF Cost
  <2>3. QED
    BY <1>4, <2>2
<1>6. tab'.link[l] # None
  BY <1>4, NoneAssumption
<1>7. LinksOK(tab')
  <2>1. \A k \in Link : tab'.link[k] = None <=> tab.link[k] = None
    BY <1>2, <1>4, <1>6
  <2>2. QED
    BY <1>4, <2>1, LinksFrame DEF SameNbrs, SoundTables
<1>8. HopsOK(tab')
  BY <1>4, HopsFrame DEF SameHops, SameNbrs, SoundTables
<1>9. SymOK(tab')
  <2> SUFFICES ASSUME NEW k \in Link, SymLink(tab', k) PROVE tab'.status[k[1]] = "SYM"
    BY DEF SymOK
  <2>1. SymLink(tab, k)
    BY <1>2, <1>4 DEF SymLink
  <2>2. QED
    BY <1>4, <2>1 DEF SymOK, SoundTables, SameNbrs
<1>10. QED
  BY <1>3, <1>4, <1>5, <1>7, <1>8, <1>9 DEF StepOK, SoundTables, RelayInv, Signalled

Touched(s) == [s EXCEPT !.changed = TRUE]

LEMMA TouchedFields ==
    ASSUME NEW s \in Tables, NEW u, u = Touched(s)
    PROVE  /\ u \in Tables
           /\ SameLinks(s, u) /\ SameNbrs(s, u) /\ SameHops(s, u) /\ SameRest(s, u)
           /\ u.changed
<1>1. u \in Tables
  BY DEF Tables, Touched
<1>2. SameLinks(s, u) /\ SameNbrs(s, u) /\ SameHops(s, u) /\ SameRest(s, u)
  BY DEF Tables, Touched, SameLinks, SameNbrs, SameHops, SameRest
<1>3. u.changed
  BY DEF Tables, Touched
<1>4. QED
  BY <1>1, <1>2, <1>3

(* A link that is not symmetric any more.                                  *)
LEMMA AsymOK ==
    ASSUME NEW s, SoundTables(s), NEW l \in Link, s.link[l] # None, NEW m \in LinkStatus,
           NEW b \in BOOLEAN, ~b, NEW u, u = Viewed(s, l, m, b)
    PROVE  /\ SoundTables(u)
           /\ SameHops(s, u) /\ SameNbrs(s, u) /\ u.changed = s.changed
           /\ SameBest(s, u)
           /\ \A k \in Link : SymLink(u, k) => SymLink(s, k)
<1>1. /\ u \in Tables
      /\ SameHops(s, u) /\ SameNbrs(s, u) /\ SameRest(s, u)
      /\ u.linkcount = s.linkcount /\ u.list = s.list /\ u.changed = s.changed
      /\ \A k \in Link \ {l} : u.link[k] = s.link[k]
      /\ u.link[l] \in LinkEntry
      /\ u.link[l].sym = b
      /\ u.link[l].cost = s.link[l].cost
  BY SymFields DEF SoundTables
<1>2. u.link[l] # None
  BY <1>1, NoneAssumption
<1>3. \A k \in Link : u.link[k] = None <=> s.link[k] = None
  BY <1>1, <1>2
<1>4. LinksOK(u)
  BY <1>1, <1>3, LinksFrame DEF SoundTables, SameNbrs
<1>5. HopsOK(u)
  BY <1>1, HopsFrame DEF SoundTables, SameHops, SameNbrs
<1>6. \A k \in Link : SymLink(u, k) => SymLink(s, k)
  <2> SUFFICES ASSUME NEW k \in Link, SymLink(u, k) PROVE SymLink(s, k)
    OBVIOUS
  <2>1. k # l
    BY <1>1 DEF SymLink
  <2>2. QED
    BY <1>1, <2>1 DEF SymLink
<1>7. SymOK(u)
  BY <1>1, <1>6 DEF SymOK, SoundTables, SameNbrs
<1>8. SameBest(s, u)
  <2>1. \A k \in Link : /\ s.link[k] # None => u.link[k] # None /\ u.link[k].cost = s.link[k].cost
                        /\ s.link[k] = None /\ u.link[k] # None => u.link[k].cost = Broken
    BY <1>1, <1>3
  <2>2. QED
    BY <1>1, <1>4, <2>1, SoundList, BestFrame DEF LinksOK, SameCosts
<1>9. QED
  BY <1>1, <1>4, <1>5, <1>6, <1>7, <1>8 DEF SoundTables

LEMMA SymStep ==
    ASSUME SoundTables(tab), RelayInv(tab, silent), silent \in SUBSET Addr, NEW l \in Link,
           olsr_expire_link_sym_timer(l)
    PROVE  StepOK(tab, tab', silent') /\ UNCHANGED <<net, silent>>
<1> DEFINE n == l[1]
           off == FALSE
           u == Viewed(tab, l, tab.link[l].prev, off)
           w == Viewed(tab, l, "ASYM_LINK", off)
           v == Touched(w)
           g == get_neighbor_status(v, l)
<1>0. tab \in Tables /\ n \in Nbr /\ tab.link[l] # None
  BY DEF SoundTables, Link, olsr_expire_link_sym_timer, SymLink
<1>1. tab.link[l] \in LinkEntry
  BY <1>0, LinkFields
<1>2. tab.link[l].prev \in LinkStatus /\ "ASYM_LINK" \in LinkStatus
  BY <1>1 DEF LinkEntry, LinkStatus
<1>3. u = [tab EXCEPT !.link[l].sym = FALSE]
  <2>1. [tab.link[l] EXCEPT !.prev = tab.link[l].prev, !.sym = FALSE] = [tab.link[l] EXCEPT !.sym = FALSE]
    BY <1>1 DEF LinkEntry
  <2>2. [tab EXCEPT !.link = [tab.link EXCEPT ![l] = [tab.link[l] EXCEPT !.prev = tab.link[l].prev, !.sym = FALSE]]]
          = [tab EXCEPT !.link = [tab.link EXCEPT ![l] = [tab.link[l] EXCEPT !.sym = FALSE]]]
    BY <2>1
  <2>3. u = [tab EXCEPT !.link = [tab.link EXCEPT ![l] = [tab.link[l] EXCEPT !.prev = tab.link[l].prev, !.sym = FALSE]]]
    BY <1>0 DEF Viewed, Tables
  <2>4. QED
    BY <2>2, <2>3
<1>4. v = [tab EXCEPT !.link[l].prev = "ASYM_LINK", !.link[l].sym = FALSE, !.changed = TRUE]
  BY <1>0 DEF Viewed, Touched, Tables
<1>5. /\ tab' = IF tab.link[l].prev # "SYM_LINK" THEN u ELSE update_neighbor_status(v, n, g)
      /\ UNCHANGED <<net, silent>>
  <2> HIDE DEF u, v
  <2>1. QED
    BY <1>3, <1>4 DEF olsr_expire_link_sym_timer, Step
<1>9. off \in BOOLEAN /\ ~off
  OBVIOUS
<1> HIDE DEF off
<1>6. CASE tab.link[l].prev # "SYM_LINK"
  <2>1. tab' = u
    BY <1>5, <1>6
  <2>2. /\ SoundTables(u)
        /\ SameHops(tab, u) /\ SameNbrs(tab, u) /\ u.changed = tab.changed
        /\ SameBest(tab, u)
    <3> DEFINE m == tab.link[l].prev
    <3>1. m \in LinkStatus /\ u = Viewed(tab, l, m, off)
      BY <1>2
    <3> HIDE DEF u, m
    <3>2. QED
      BY <1>0, <1>9, <3>1, AsymOK
  <2> HIDE DEF u
  <2>3. SameSym(tab, u)
    BY <2>2 DEF SameSym, SameNbrs
  <2>4. u.two = tab.two /\ u.mpr = tab.mpr /\ u.walker = tab.walker
    BY <2>2 DEF SameHops, SameNbrs
  <2>5. RelayInv(u, silent)
    BY <1>0, <2>2, <2>3, <2>4, RelayFrame
  <2>6. Signalled(tab, u)
    BY <2>2, <2>3, SignalFrame DEF Signalled
  <2>7. QED
    BY <1>5, <2>1, <2>2, <2>5, <2>6 DEF StepOK
<1>7. CASE tab.link[l].prev = "SYM_LINK"
  <2>1. tab' = update_neighbor_status(v, n, g)
    BY <1>5, <1>7
  <2>2. /\ SoundTables(w)
        /\ SameHops(tab, w) /\ SameNbrs(tab, w)
        /\ SameBest(tab, w)
        /\ \A k \in Link : SymLink(w, k) => SymLink(tab, k)
    BY <1>0, <1>2, <1>9, AsymOK
  <2>3. v = Touched(w)
    OBVIOUS
  <2>4. g \in BOOLEAN
    BY DEF get_neighbor_status
  <2> HIDE DEF w, v
  <2>5. g <=> \E k \in LinksOf(v, n) : SymLink(v, k)
    BY DEF get_neighbor_status
  <2> HIDE DEF g
  <2>6. /\ v \in Tables
        /\ SameLinks(w, v) /\ SameNbrs(w, v) /\ SameHops(w, v) /\ SameRest(w, v)
        /\ v.changed
    BY <2>2, <2>3, TouchedFields DEF SoundTables
  <2>7. v.link = w.link /\ v.status = w.status /\ w.status = tab.status
    BY <2>2, <2>6 DEF SameLinks, SameNbrs
  <2>8. SoundTables(v)
    BY <2>2, <2>6, <2>7, SoundFrame
  <2>9. v.status[n] # None
    <3>1. l \in LinksOf(tab, n)
      BY <1>0 DEF LinksOf
    <3>2. tab.linkcount[n] # 0
      BY <1>0, <3>1, LinksFinite DEF SoundTables, LinksOK, CountsOK
    <3>3. tab.status[n] # None
      BY <1>0, <3>2 DEF SoundTables, LinksOK, CountsOK
    <3>4. QED
      BY <2>7, <3>3
  <2>10. /\ tab' \in Tables /\ LinksOK(tab') /\ HopsOK(tab')
         /\ SameLinks(v, tab')
         /\ tab'.status[n] = NewStatus(g)
         /\ \A k \in Nbr \ {n} : tab'.status[k] = v.status[k]
         /\ tab' = v \/ (tab'.changed /\ tab'.link_changes)
    BY <1>0, <2>1, <2>4, <2>6, <2>8, <2>9, StatusOK DEF SoundTables
  <2>11. SymOK(tab')
    <3> SUFFICES ASSUME NEW k \in Link, SymLink(tab', k) PROVE tab'.status[k[1]] = "SYM"
      BY DEF SymOK
    <3>1. SymLink(v, k) /\ k[1] \in Nbr
      BY <2>10 DEF SameLinks, SymLink, Link
    <3>2. CASE k[1] = n
      <4>1. k \in LinksOf(v, n)
        BY <3>1, <3>2 DEF LinksOf, SymLink
      <4>2. g
        BY <2>5, <3>1, <4>1
      <4>3. QED
        BY <2>10, <3>2, <4>2 DEF NewStatus
    <3>3. CASE k[1] # n
      <4>1. v.status[k[1]] = "SYM"
        BY <2>8, <3>1 DEF SoundTables, SymOK
      <4>2. QED
        BY <2>10, <3>1, <3>3, <4>1
    <3>4. QED
      BY <3>2, <3>3
  <2>12. tab'.changed
    BY <2>6, <2>10
  <2>13. Signalled(tab, tab')
    <3>1. CASE tab' = v
      <4>1. SameSym(tab, v)
        BY <2>7 DEF SameSym
      <4>2. Advertised(w) = Advertised(tab)
        <5>1. SameSym(tab, w)
          BY <2>7 DEF SameSym
        <5>2. QED
          BY <2>2, <5>1, SignalFrame
      <4>3. Advertised(v) = Advertised(w)
        BY <2>2, <2>7, <2>8, SameLinkSignal
      <4>4. QED
        BY <3>1, <4>2, <4>3 DEF Signalled
    <3>2. CASE tab'.link_changes
      BY <3>2 DEF Signalled
    <3>3. QED
      BY <2>10, <3>1, <3>2
  <2>14. QED
    BY <1>5, <2>10, <2>11, <2>12, <2>13 DEF StepOK, SoundTables, RelayInv
<1>10. QED
  BY <1>6, <1>7

LEMMA EntryStep ==
    ASSUME SoundTables(tab), NEW l \in Link, olsr_expire_link_entry(l)
    PROVE  StepOK(tab, tab', silent') /\ UNCHANGED <<net, silent>>
<1>1. tab.link[l] # None /\ tab' = olsr_delete_link_entry(tab, l) /\ UNCHANGED <<net, silent>>
  BY DEF olsr_expire_link_entry, Step
<1>2. /\ tab' \in Tables /\ LinksOK(tab') /\ HopsOK(tab') /\ SymOK(tab')
      /\ tab'.changed /\ tab'.link[l] = None
  BY <1>1, DeleteLinkOK DEF SoundTables
<1>3. QED
  BY <1>1, <1>2 DEF StepOK, SoundTables, RelayInv, Signalled

LEMMA Nbr2Step ==
    ASSUME SoundTables(tab), NEW p \in Pair, olsr_expire_nbr2_list(p)
    PROVE  StepOK(tab, tab', silent') /\ UNCHANGED <<net, silent>>
<1>1. /\ tab.nbr2[p] # None /\ tab' = Unlink(tab, {p}) /\ UNCHANGED <<net, silent>>
      /\ tab \in Tables /\ HopsOK(tab)
  BY NoneAssumption DEF olsr_expire_nbr2_list, Step, SoundTables
<1>2. {p} \in SUBSET EntriesOf(tab, p[1]) /\ p[1] \in Nbr /\ {p} \in SUBSET Pair
  BY <1>1, PairParts DEF EntriesOf
<1>3. HopsOK(tab')
  BY <1>1, <1>2, UnlinkHops
<1>4. /\ tab' \in Tables /\ SameLinks(tab, tab') /\ SameNbrs(tab, tab')
      /\ tab'.changed = (tab.changed \/ {p} # {})
  BY <1>1, <1>2, UnlinkFields
<1>5. tab'.changed
  BY <1>4
<1>6. /\ tab'.link = tab.link /\ tab'.list = tab.list /\ tab'.linkcount = tab.linkcount
      /\ tab'.status = tab.status
  BY <1>4 DEF SameLinks, SameNbrs
<1>7. LinksOK(tab')
  BY <1>6, LinksFrame DEF SoundTables
<1>8. SymOK(tab')
  BY <1>6 DEF SoundTables, SymOK, SymLink
<1>9. Signalled(tab, tab')
  <2>1. SoundTables(tab')
    BY <1>3, <1>4, <1>7, <1>8 DEF SoundTables
  <2>2. QED
    BY <1>6, <2>1, SameLinkSignal DEF Signalled
<1>10. QED
  BY <1>1, <1>3, <1>4, <1>5, <1>7, <1>8, <1>9 DEF StepOK, SoundTables, RelayInv

LEMMA SelectorStep ==
    ASSUME SoundTables(tab), RelayInv(tab, silent), NEW n \in Nbr, olsr_expire_mpr_sel_entry(n)
    PROVE  StepOK(tab, tab', silent') /\ UNCHANGED <<net, silent>>
<1> DEFINE x == tab.mprs \ {n}
<1>0. tab \in Tables
  BY DEF SoundTables
<1>1. tab' = [tab EXCEPT !.mprs = x, !.link_changes = TRUE] /\ UNCHANGED <<net, silent>>
  BY DEF olsr_expire_mpr_sel_entry, Step
<1>2. x \in SUBSET Nbr
  BY <1>0, LinkFields
<1> HIDE DEF x
<1>3. tab' \in Tables
  BY <1>0, <1>1, <1>2 DEF Tables
<1>4. SameLinks(tab, tab') /\ SameNbrs(tab, tab') /\ SameHops(tab, tab')
  BY <1>0, <1>1 DEF Tables, SameLinks, SameNbrs, SameHops
<1>5. tab'.changed = tab.changed
  BY <1>0, <1>1 DEF Tables
<1>6. /\ tab'.status = tab.status /\ tab'.link = tab.link
      /\ tab'.walker = tab.walker /\ tab'.two = tab.two /\ tab'.mpr = tab.mpr
  BY <1>4 DEF SameLinks, SameNbrs, SameHops
<1>7. SoundTables(tab')
  BY <1>3, <1>4, <1>6, SoundFrame
<1>8. SameSym(tab, tab') /\ Signalled(tab, tab')
  BY <1>6, <1>7, SameLinkSignal DEF Signalled
<1>9. RelayInv(tab', silent)
  BY <1>0, <1>5, <1>6, <1>7, <1>8, SameLinkSignal, RelayFrame
<1>10. QED
  BY <1>1, <1>7, <1>8, <1>9 DEF StepOK

LEMMA RoundStep ==
    ASSUME SoundTables(tab), RelayInv(tab, silent), silent \in SUBSET Addr, EndOfRound
    PROVE  StepOK(tab, tab', silent') /\ silent' \in SUBSET Addr /\ net' = net
<1>0. tab \in Tables
  BY DEF SoundTables
<1>1. PICK u \in olsr_process_changes(tab) : tab' = [u EXCEPT !.link_changes = FALSE]
  BY DEF EndOfRound
<1>2. silent' = (IF tab.changed THEN {} ELSE silent) /\ net' = net
  BY DEF EndOfRound
<1>3. /\ SoundTables(u) /\ RelayInv(u, silent')
      /\ u.status = tab.status /\ u.link = tab.link
  <2>1. CASE tab.changed
    <3>1. /\ u \in Tables
          /\ SameLinks(tab, u) /\ SameHops(tab, u) /\ u.status = tab.status
          /\ ~u.changed
          /\ RelaysSym(u) /\ \A t \in u.two : Covered(u, t)
      BY <1>0, <2>1, ProcessOK, SoundList
    <3>2. SoundTables(u)
      BY <3>1, SoundFrame
    <3>3. RelayInv(u, silent') /\ u.link = tab.link
      BY <3>1 DEF RelayInv, SameLinks
    <3>4. QED
      BY <3>1, <3>2, <3>3
  <2>2. CASE ~tab.changed
    <3>1. u = tab
      BY <2>2 DEF olsr_process_changes
    <3>2. silent' = silent
      BY <1>2, <2>2
    <3>3. QED
      BY <3>1, <3>2
  <2>3. QED
    BY <2>1, <2>2
<1>4. u \in Tables
  BY <1>3 DEF SoundTables
<1>5. tab' \in Tables
  BY <1>1, <1>4 DEF Tables
<1>6. SameLinks(u, tab') /\ SameNbrs(u, tab') /\ SameHops(u, tab')
  BY <1>1, <1>4 DEF Tables, SameLinks, SameNbrs, SameHops
<1>7. tab'.changed = u.changed
  BY <1>1, <1>4 DEF Tables
<1>8. /\ tab'.status = u.status /\ tab'.link = u.link
      /\ tab'.walker = u.walker /\ tab'.two = u.two /\ tab'.mpr = u.mpr
  BY <1>6 DEF SameLinks, SameNbrs, SameHops
<1>9. SoundTables(tab')
  BY <1>3, <1>5, <1>6, <1>8, SoundFrame
<1>10. Signalled(tab, tab')
  BY <1>3, <1>8, <1>9, SameLinkSignal DEF Signalled
<1>11. RelayInv(tab', silent')
  <2>1. SameSym(u, tab') /\ SameBest(u, tab')
    BY <1>3, <1>8, <1>9, SameLinkSignal
  <2>2. QED
    BY <1>3, <1>4, <1>7, <1>8, <2>1, RelayFrame
<1>12. QED
  BY <1>2, <1>9, <1>10, <1>11 DEF StepOK

-----------------------------------------------------------------------------
(* The inductive invariant.                                                *)
NbhInv ==
    /\ net \in Scenario /\ silent \in SUBSET Addr
    /\ SoundTables(tab) /\ RelayInv(tab, silent)

LEMMA InitInv == Init => NbhInv
<1> SUFFICES ASSUME Init PROVE NbhInv
  OBVIOUS
<1>1. tab \in Tables
  BY DEF Init, Tables, Willingness
<1>2. /\ tab.link = [l \in Link |-> None] /\ tab.linkcount = [n \in Nbr |-> 0]
      /\ tab.status = [n \in Nbr |-> None]
      /\ tab.walker = [p \in Pair |-> None] /\ tab.nbr2 = [p \in Pair |-> None]
      /\ tab.ptr = [t \in Addr |-> 0] /\ tab.two = {} /\ tab.mpr = {}
  BY DEF Init
<1>3. Cardinality({}) = 0
  BY FS_EmptySet
<1>4. LinksOK(tab)
  <2>1. \A n \in Nbr : LinksOf(tab, n) = {}
    BY <1>2 DEF LinksOf
  <2>2. ListOK(tab)
    BY <1>2 DEF Init, ListOK
  <2>3. CountsOK(tab)
    BY <1>2, <1>3, <2>1 DEF CountsOK
  <2>4. QED
    BY <2>2, <2>3 DEF LinksOK
<1>5. HopsOK(tab)
  <2>1. \A t \in Addr : Walkers(tab, t) = {}
    BY <1>2 DEF Walkers
  <2>2. QED
    BY <1>2, <1>3, <2>1 DEF HopsOK, EntriesOK, CountersOK
<1>6. SymOK(tab)
  BY <1>2 DEF SymOK, SymLink
<1>7. RelayInv(tab, silent)
  BY <1>2 DEF RelayInv, RelaysSym
<1>8. QED
  BY <1>1, <1>4, <1>5, <1>6, <1>7 DEF NbhInv, SoundTables, Init

LEMMA NextStep ==
    ASSUME NbhInv, Next
    PROVE  NbhInv' /\ Signalled(tab, tab')
<1>0. /\ SoundTables(tab) /\ RelayInv(tab, silent) /\ net \in Scenario /\ silent \in SUBSET Addr
      /\ net.links \subseteq Link
  BY NeighbourhoodAssumption DEF NbhInv
<1> SUFFICES StepOK(tab, tab', silent') /\ silent' \in SUBSET Addr /\ net' = net
  BY <1>0 DEF NbhInv, StepOK
<1>1. CASE \E l \in net.links : Hello(l)
  BY <1>0, <1>1, HelloStep
<1>2. CASE \E l \in net.links : olsr_expire_link_loss_timer(l)
  BY <1>0, <1>2, LossStep
<1>3. CASE \E l \in net.links : olsr_expire_link_sym_timer(l)
  BY <1>0, <1>3, SymStep
<1>4. CASE \E l \in net.links : olsr_expire_link_entry(l)
  BY <1>0, <1>4, EntryStep
<1>5. CASE \E p \in Pair : olsr_expire_nbr2_list(p)
  BY <1>0, <1>5, Nbr2Step
<1>6. CASE \E n \in Nbr : olsr_expire_mpr_sel_entry(n)
  BY <1>0, <1>6, SelectorStep
<1>7. CASE EndOfRound
  BY <1>0, <1>7, RoundStep
<1>8. QED
  BY <1>1, <1>2, <1>3, <1>4, <1>5, <1>6, <1>7 DEF Next

LEMMA InvStep == NbhInv /\ [Next]_vars => NbhInv'
<1>1. CASE Next
  BY <1>1, NextStep
<1>2. CASE UNCHANGED vars
  <2> SUFFICES ASSUME NbhInv, UNCHANGED vars PROVE NbhInv'
    BY <1>2
  <2>1. tab' = tab /\ net' = net /\ silent' = silent
    BY DEF vars
  <2>2. QED
    BY <2>1 DEF NbhInv
<1>3. QED
  BY <1>1, <1>2

LEMMA InvAlways == Spec => []NbhInv
BY InitInv, InvStep, PTL DEF Spec

LEMMA InvSound == NbhInv => TablesSound
<1> SUFFICES ASSUME NbhInv PROVE TablesSound
  OBVIOUS
<1>1. /\ tab \in Tables /\ LinksOK(tab) /\ HopsOK(tab) /\ SymOK(tab)
      /\ net \in Scenario /\ silent \in SUBSET Addr
  BY DEF NbhInv, SoundTables
<1>2. \A n \in Nbr : tab.linkcount[n] \in 0 .. Cardinality(Iface)
  BY <1>1, LinksFinite DEF LinksOK, CountsOK
<1>3. \A t \in Addr : tab.ptr[t] \in 0 .. Cardinality(Nbr)
  BY <1>1, WalkersFinite DEF HopsOK, CountersOK
<1>4. TypeOK
  BY <1>1, <1>2, <1>3 DEF TypeOK
<1>5. QED
  BY <1>1, <1>4 DEF TablesSound, SymOK, LinksOK, ListOK, CountsOK, HopsOK, EntriesOK, CountersOK

LEMMA InvCovers == NbhInv => RelaysCover
BY DEF NbhInv, RelayInv, RelaysSym, Covered, RelaysCover

(* No sequence of HELLO messages and timers, with any neighbours, any      *)
(* interfaces and any scenario, leaves a pointer to a freed entry or a     *)
(* counter that differs from what it counts (link_set.c, neighbor_table.c, *)
(* two_hop_neighbor_table.c).                                              *)
THEOREM TablesAlwaysSound == Spec => []TablesSound
BY InvAlways, InvSound, PTL

(* With no change pending, the relays are symmetric neighbours, and a      *)
(* usable path to a two-hop neighbour that is not used is no cheaper than  *)
(* mpr_coverage others that are, unless a path to that two-hop neighbour   *)
(* broke or came back without a flag (lq_mpr.c olsr_calculate_lq_mpr,      *)
(* process_package.c).                                                     *)
THEOREM RelaysAlwaysCover == Spec => []RelaysCover
BY InvAlways, InvCovers, PTL

LEMMA SignalStep == NbhInv /\ [Next]_vars => [Signalled(tab, tab')]_vars
BY NextStep

(* What the TC messages of this node advertise does not change without     *)
(* link_changes being set, except when a link entry ends (link_set.c       *)
(* olsr_delete_link_entry).                                                *)
THEOREM ChangesAlwaysSignalled == Spec => ChangesSignalled
<1>1. NbhInv /\ [Next]_vars =>
        [Advertised(tab') # Advertised(tab) =>
           \/ tab'.link_changes
           \/ \E l \in Link : tab.link[l] # None /\ tab'.link[l] = None]_vars
  BY SignalStep DEF Signalled
<1>2. QED
  BY <1>1, InvAlways, PTL DEF Spec, ChangesSignalled

=============================================================================
