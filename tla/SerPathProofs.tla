--------------------------- MODULE SerPathProofs ---------------------------
(***************************************************************************)
(* Proofs about SerPath, for any set of nodes, aliases and paths.          *)
(*                                                                         *)
(* The types and the cache are inductive as they are.  The hash needs to   *)
(* know that the entries of an address and the slots that hold it          *)
(* correspond one to one while it is not lost (HashInv), the local links   *)
(* that a neighbour which is not disputed has at most one of them          *)
(* (LinksInv), and the routes that a lookup between its two locks is one   *)
(* of this host (LookupInv).                                               *)
(***************************************************************************)
EXTENDS SerPath, TLAPS, FiniteSetTheorems, SequenceTheorems, NaturalsInduction,
        WellFoundedInduction

-----------------------------------------------------------------------------
(* Helpers of the database *)

\* Least really is a member of a non-empty set of naturals, and its lower bound.
LEMMA LeastMember ==
    ASSUME NEW S \in SUBSET Nat, S # {}
    PROVE  Least(S) \in S /\ \A j \in S : Least(S) <= j
<1> DEFINE Lt == {p \in Nat \X Nat : p[1] < p[2]}
<1>1. OpToRel(<, Nat) = Lt
  BY Zenon DEF OpToRel
<1>2. IsWellFoundedOn(Lt, Nat)
  BY <1>1, NatLessThanWellFounded
<1> HIDE DEF Lt
<1>3. PICK i \in S : \A j \in S : ~(<<j, i>> \in Lt)
  BY <1>2, WFMin
<1>4. \A j \in S : i <= j
  <2> SUFFICES ASSUME NEW j \in S PROVE i <= j
    OBVIOUS
  <2>1. i \in Nat /\ j \in Nat
    OBVIOUS
  <2>2. j < i => <<j, i>> \in Lt
    BY <2>1 DEF Lt
  <2> QED
    BY <2>1, <2>2, <1>3
<1>5. QED
  BY <1>4 DEF Least

TabType == [Slots -> Addr \cup {NoAddr}]
LocalLinkType == [dst : Node, alias : Addr \cup {NoAddr}]

\* A pair of address tables and address hash, as tc_rmv_node_addr handles it.
DbType(s) ==
    /\ s = [tab |-> s.tab, hash |-> s.hash]
    /\ s.tab \in [Node -> TabType]
    /\ s.hash \in [Addr -> Seq(Node \X Slots)]

\* The slots of an address table are natural numbers.
LEMMA SlotsNat == Slots \in SUBSET Nat /\ 0 \in Slots
BY SizeAssumption DEF Slots

\* tc_update_local_link picks an address of the neighbour or 0.
LEMMA LinkAliasType ==
    ASSUME NEW la \in TabType, NEW tab \in TabType
    PROVE  LinkAlias(la, tab) \in Addr \cup {NoAddr}
<1> DEFINE Match(i) == {j \in Slots : tab[j] # NoAddr /\ Subnet[tab[j]] = Subnet[la[i]]}
           ifaces == {i \in Slots : la[i] # NoAddr /\ Match(i) # {}}
<1>1. CASE ifaces = {}
  BY <1>1 DEF LinkAlias
<1>2. CASE ifaces # {}
  <2>1. Least(ifaces) \in ifaces
    BY <1>2, SlotsNat, LeastMember
  <2>2. Match(Least(ifaces)) # {} /\ Match(Least(ifaces)) \in SUBSET Nat
    BY <2>1, SlotsNat
  <2>3. Least(Match(Least(ifaces))) \in Slots
    BY <2>2, LeastMember
  <2> QED
    BY <1>2, <2>3 DEF LinkAlias, TabType
<1> QED
  BY <1>1, <1>2

\* Unlinking one address keeps the types of the tables.
LEMMA RmvAddrType ==
    ASSUME NEW s, DbType(s), NEW a \in Addr
    PROVE  DbType(tc_rmv_node_addr(s, a))
<1>1. CASE s.hash[a] = <<>>
  BY <1>1 DEF tc_rmv_node_addr
<1>2. CASE s.hash[a] # <<>>
  <2> DEFINE e == s.hash[a][1]
             t == [s.tab EXCEPT ![e[1]][e[2]] = NoAddr]
             h == [s.hash EXCEPT ![a] = Tail(@)]
  <2>1. e \in Node \X Slots /\ Tail(s.hash[a]) \in Seq(Node \X Slots)
    BY <1>2 DEF DbType
  <2>2. t \in [Node -> TabType]
    BY <2>1 DEF DbType, TabType
  <2>3. h \in [Addr -> Seq(Node \X Slots)]
    BY <2>1 DEF DbType
  <2>4. tc_rmv_node_addr(s, a) = [tab |-> t, hash |-> h]
    BY <1>2 DEF tc_rmv_node_addr
  <2> HIDE DEF t, h
  <2> QED
    BY <2>2, <2>3, <2>4 DEF DbType
<1> QED
  BY <1>1, <1>2

LEMMA RmvSlotType ==
    ASSUME NEW s, DbType(s), NEW n \in Node, NEW i
    PROVE  DbType(RmvSlot(s, n, i))
<1>1. CASE i \in Slots /\ s.tab[n][i] # NoAddr
  <2>1. s.tab[n][i] \in Addr
    BY <1>1 DEF DbType, TabType
  <2> QED
    BY <1>1, <2>1, RmvAddrType DEF RmvSlot
<1>2. CASE ~(i \in Slots /\ s.tab[n][i] # NoAddr)
  BY <1>2 DEF RmvSlot
<1> QED
  BY <1>1, <1>2

\* tc_remove_node's loop over the slots keeps the types of the tables.
LEMMA RmvAllSlotsType ==
    ASSUME NEW n \in Node,
           addrTab \in [Node -> TabType],
           hash \in [Addr -> Seq(Node \X Slots)]
    PROVE  DbType(RmvAllSlots(n))
<1> DEFINE s0 == [tab |-> addrTab, hash |-> hash]
           s1 == RmvSlot(s0, n, 0)
           s2 == RmvSlot(s1, n, 1)
           s3 == RmvSlot(s2, n, 2)
           s4 == RmvSlot(s3, n, 3)
           s5 == RmvSlot(s4, n, 4)
<1>0. RmvAllSlots(n) = s5
  BY DEF RmvAllSlots
<1>1. DbType(s0)
  BY DEF DbType
<1> HIDE DEF s0
<1>2. DbType(s1)
  BY <1>1, RmvSlotType
<1> HIDE DEF s1
<1>3. DbType(s2)
  BY <1>2, RmvSlotType
<1> HIDE DEF s2
<1>4. DbType(s3)
  BY <1>3, RmvSlotType
<1> HIDE DEF s3
<1>5. DbType(s4)
  BY <1>4, RmvSlotType
<1> HIDE DEF s4
<1>6. DbType(s5)
  BY <1>5, RmvSlotType
<1> QED
  BY <1>0, <1>6

\* The first local link to d has an index of the list.
LEMMA FirstLink ==
    ASSUME NEW ls \in Seq(LocalLinkType), NEW d, LinksTo(ls, d) # {}
    PROVE  /\ Least(LinksTo(ls, d)) \in 1..Len(ls)
           /\ ls[Least(LinksTo(ls, d))].dst = d
<1>1. LinksTo(ls, d) \in SUBSET Nat /\ LinksTo(ls, d) \subseteq 1..Len(ls)
  BY DEF LinksTo
<1>2. Least(LinksTo(ls, d)) \in LinksTo(ls, d)
  BY <1>1, LeastMember
<1> QED
  BY <1>1, <1>2 DEF LinksTo

LEMMA DropFirstType ==
    ASSUME NEW ls \in Seq(LocalLinkType), NEW d
    PROVE  DropFirst(ls, d) \in Seq(LocalLinkType)
<1>1. CASE LinksTo(ls, d) = {}
  BY <1>1 DEF DropFirst
<1>2. CASE LinksTo(ls, d) # {}
  <2> DEFINE i == Least(LinksTo(ls, d))
  <2>1. i \in 1..Len(ls)
    BY <1>2, FirstLink
  <2> HIDE DEF i
  <2>2. SubSeq(ls, 1, i - 1) \in Seq(LocalLinkType)
    BY <2>1
  <2>3. SubSeq(ls, i + 1, Len(ls)) \in Seq(LocalLinkType)
    BY <2>1
  <2> QED
    BY <1>2, <2>2, <2>3 DEF DropFirst, RemoveIdx, i
<1> QED
  BY <1>1, <1>2

LEMMA RefreshFirstType ==
    ASSUME NEW ls \in Seq(LocalLinkType), NEW d \in Node, NEW tab \in TabType,
           localAddr \in TabType
    PROVE  RefreshFirst(ls, d, tab) \in Seq(LocalLinkType)
<1>1. CASE LinksTo(ls, d) = {}
  BY <1>1 DEF RefreshFirst
<1>2. CASE LinksTo(ls, d) # {}
  <2>1. Least(LinksTo(ls, d)) \in 1..Len(ls)
    BY <1>2, FirstLink
  <2>2. tc_update_local_link(d, tab) \in LocalLinkType
    BY LinkAliasType DEF tc_update_local_link, LocalLinkType
  <2> QED
    BY <1>2, <2>1, <2>2 DEF RefreshFirst
<1> QED
  BY <1>1, <1>2

-----------------------------------------------------------------------------
(* Type correctness *)

\* tc_get_node returns a node of the network or none.
LEMMA GetNodeType ==
    ASSUME TcTypeOK, NEW a \in Addr
    PROVE  tc_get_node(a) \in Node \cup {NoAddr}
<1>1. CASE hash[a] = <<>>
  BY <1>1 DEF tc_get_node
<1>2. CASE hash[a] # <<>>
  <2>1. hash[a] \in Seq(Node \X Slots)
    BY DEF TcTypeOK
  <2>2. hash[a][1] \in Node \X Slots
    BY <1>2, <2>1
  <2> QED
    BY <1>2, <2>2 DEF tc_get_node
<1> QED
  BY <1>1, <1>2

LEMMA EmptyTabType == EmptyTab \in TabType
BY DEF EmptyTab, TabType

LEMMA NoAddrNotNode == NoAddr \notin Node /\ NoAddr \notin Addr /\ Node \subseteq Addr
BY AddrAssumption DEF Addr

\* Every command of the event thread keeps the database well typed.
LEMMA CommandType ==
    ASSUME TcTypeOK, handleRead
    PROVE  TcTypeOK'
<1> USE DEF TabType, LocalLinkType
<1>1. CASE RESET_TC
  BY <1>1, EmptyTabType DEF RESET_TC, tc_free_data, TcTypeOK
<1>2. CASE SET_LOCAL_ADDR
  BY <1>2, AddrAssumption DEF SET_LOCAL_ADDR, tc_set_local_addr, TcTypeOK, Addr
<1>3. ASSUME NEW x \in MyAliases, SET_ALIAS_ADDR(x) PROVE TcTypeOK'
  <2>1. x \in Addr
    BY AddrAssumption DEF Addr
  <2>2. localAddr' \in TabType
    <3>1. CASE FreeSlots(localAddr) = {}
      BY <1>3, <3>1 DEF SET_ALIAS_ADDR, tc_set_local_alias, TcTypeOK
    <3>2. CASE FreeSlots(localAddr) # {}
      <4>1. Least(FreeSlots(localAddr)) \in Slots
        BY <3>2, SlotsNat, LeastMember DEF FreeSlots
      <4> QED
        BY <1>3, <3>2, <4>1, <2>1 DEF SET_ALIAS_ADDR, tc_set_local_alias, TcTypeOK
    <3> QED
      BY <3>1, <3>2
  <2> QED
    BY <1>3, <2>2 DEF SET_ALIAS_ADDR, tc_set_local_alias, TcTypeOK
<1>4. ASSUME NEW n \in Node, ADD_NODE(n) PROVE TcTypeOK'
  <2>1. CASE tc_get_node(n) # NoAddr
    BY <1>4, <2>1 DEF ADD_NODE, tc_add_node, tcVars, TcTypeOK
  <2>2. CASE tc_get_node(n) = NoAddr
    <3>1. [EmptyTab EXCEPT ![0] = n] \in TabType
      BY EmptyTabType, NoAddrNotNode
    <3>2. << <<n, 0>> >> \o hash[n] \in Seq(Node \X Slots)
      BY SlotsNat, NoAddrNotNode DEF TcTypeOK
    <3> DEFINE t == [EmptyTab EXCEPT ![0] = n]
               q == << <<n, 0>> >> \o hash[n]
    <3>3. /\ addrTab' = [addrTab EXCEPT ![n] = t] /\ hash' = [hash EXCEPT ![n] = q]
          /\ nodes' = nodes \cup {n}
          /\ UNCHANGED <<links, localAddr, localLinks>>
      BY <1>4, <2>2 DEF ADD_NODE, tc_add_node
    <3> HIDE DEF t, q
    <3> QED
      BY <3>1, <3>2, <3>3 DEF TcTypeOK, t, q
  <2> QED
    BY <2>1, <2>2
<1>5. ASSUME NEW n \in Node, REMOVE_NODE(n) PROVE TcTypeOK'
  <2>1. CASE tc_get_node(n) = NoAddr
    BY <1>5, <2>1 DEF REMOVE_NODE, tc_remove_node, tcVars, TcTypeOK
  <2>2. CASE tc_get_node(n) # NoAddr
    <3>1. tc_get_node(n) \in Node
      BY <2>2, GetNodeType, NoAddrNotNode
    <3>2. DbType(RmvAllSlots(tc_get_node(n)))
      BY <3>1, RmvAllSlotsType DEF TcTypeOK
    <3>3. DropFirst(localLinks, n) \in Seq(LocalLinkType)
      BY DropFirstType DEF TcTypeOK
    <3> DEFINE s == RmvAllSlots(tc_get_node(n))
    <3>4. /\ localLinks' \in {<<>>, DropFirst(localLinks, n)}
          /\ nodes' \subseteq nodes /\ addrTab' = s.tab /\ hash' = s.hash
          /\ links' = [e \in Node \X Node |->
                          IF tc_get_node(n) \in {e[1], e[2]} THEN 0 ELSE links[e]]
          /\ UNCHANGED localAddr
      BY <1>5, <2>2 DEF REMOVE_NODE, tc_remove_node
    <3> HIDE DEF s
    <3>5. links' \in [Node \X Node -> Nat]
      BY <3>4 DEF TcTypeOK
    <3>6. localLinks' \in Seq(LocalLinkType)
      <4>1. <<>> \in Seq(LocalLinkType)
        OBVIOUS
      <4> HIDE DEF LocalLinkType
      <4> QED
        BY <3>3, <3>4, <4>1
    <3> QED
      BY <3>2, <3>4, <3>5, <3>6 DEF TcTypeOK, DbType, s
  <2> QED
    BY <2>1, <2>2
<1>6. ASSUME NEW n \in Node, NEW d \in Node, ADD_LINK(n, d) PROVE TcTypeOK'
  <2> DEFINE s == tc_get_node(n)
             e == tc_get_node(d)
  <2>1. s \in Node \cup {NoAddr} /\ e \in Node \cup {NoAddr}
    BY GetNodeType, NoAddrNotNode
  <2>2. CASE s = NoAddr \/ e = NoAddr
    BY <1>6, <2>2 DEF ADD_LINK, tc_add_link, TcTypeOK
  <2>3. CASE ~(s = NoAddr \/ e = NoAddr)
    <3>1. s \in Node /\ e \in Node
      BY <2>1, <2>3
    <3>2. tc_update_local_link(e, addrTab[e]) \in LocalLinkType
      BY <3>1, LinkAliasType DEF tc_update_local_link, TcTypeOK
    <3>3. <<tc_update_local_link(e, addrTab[e])>> \o localLinks \in Seq(LocalLinkType)
      BY <3>2 DEF TcTypeOK
    <3> HIDE DEF s, e
    <3>4. [links EXCEPT ![<<s, e>>] = @ + 1] \in [Node \X Node -> Nat]
      BY <3>1 DEF TcTypeOK
    <3> QED
      BY <1>6, <2>3, <3>3, <3>4 DEF ADD_LINK, tc_add_link, TcTypeOK, s, e
  <2> QED
    BY <2>2, <2>3
<1>7. ASSUME NEW n \in Node, NEW d \in Node, REMOVE_LINK(n, d) PROVE TcTypeOK'
  <2> DEFINE s == tc_get_node(n)
  <2>1. s \in Node \cup {NoAddr}
    BY GetNodeType, NoAddrNotNode
  <2>2. CASE s = NoAddr \/ d \notin Node \/ links[<<s, d>>] = 0
    BY <1>7, <2>2 DEF REMOVE_LINK, tc_remove_link, TcTypeOK
  <2>3. CASE ~(s = NoAddr \/ d \notin Node \/ links[<<s, d>>] = 0)
    <3>1. s \in Node /\ links[<<s, d>>] \in Nat /\ links[<<s, d>>] # 0
      BY <2>1, <2>3 DEF TcTypeOK
    <3>2. DropFirst(localLinks, d) \in Seq(LocalLinkType)
      BY DropFirstType DEF TcTypeOK
    <3> HIDE DEF s
    <3>3. [links EXCEPT ![<<s, d>>] = @ - 1] \in [Node \X Node -> Nat]
      BY <3>1 DEF TcTypeOK
    <3> QED
      BY <1>7, <2>3, <3>2, <3>3 DEF REMOVE_LINK, tc_remove_link, TcTypeOK, s
  <2> QED
    BY <2>2, <2>3
<1>8. ASSUME NEW n \in Node, NEW x \in Alias, ADD_ALIAS(n, x) PROVE TcTypeOK'
  <2> DEFINE o == tc_get_node(n)
  <2>1. o \in Node \cup {NoAddr} /\ x \in Addr
    BY GetNodeType, NoAddrNotNode DEF Addr
  <2>2. CASE o = NoAddr
    BY <1>8, <2>2 DEF ADD_ALIAS, tc_add_alias, tcVars, TcTypeOK
  <2>3. CASE o # NoAddr
    <3>1. o \in Node
      BY <2>1, <2>3
    <3>2. tc_add_node_addr(o, x) /\ UNCHANGED <<nodes, links, localAddr>>
          /\ localLinks' = RefreshFirst(localLinks, n, addrTab'[o])
      BY <1>8, <2>3 DEF ADD_ALIAS, tc_add_alias
    <3> HIDE DEF o
    <3>3. addrTab' \in [Node -> TabType] /\ hash' \in [Addr -> Seq(Node \X Slots)]
      <4>1. CASE FreeSlots(addrTab[o]) = {}
        BY <3>2, <4>1 DEF tc_add_node_addr, TcTypeOK
      <4>2. CASE FreeSlots(addrTab[o]) # {}
        <5> DEFINE pos == Least(FreeSlots(addrTab[o]))
        <5>1. pos \in Slots
          BY <4>2, SlotsNat, LeastMember DEF FreeSlots
        <5> HIDE DEF pos
        <5>2. << <<o, pos>> >> \o hash[x] \in Seq(Node \X Slots)
          BY <5>1, <3>1, <2>1 DEF TcTypeOK
        <5>3. /\ addrTab' = [addrTab EXCEPT ![o][pos] = x]
              /\ hash' = [hash EXCEPT ![x] = << <<o, pos>> >> \o @]
          BY <3>2, <4>2 DEF tc_add_node_addr, pos
        <5> QED
          BY <5>1, <5>2, <5>3, <3>1, <2>1 DEF TcTypeOK
      <4> QED
        BY <4>1, <4>2
    <3>4. localLinks' \in Seq(LocalLinkType)
      BY <3>1, <3>2, <3>3, RefreshFirstType DEF TcTypeOK
    <3> QED
      BY <3>2, <3>3, <3>4 DEF TcTypeOK
  <2> QED
    BY <2>2, <2>3
<1>9. ASSUME NEW n \in Node, NEW x \in Alias, REMOVE_ALIAS(n, x) PROVE TcTypeOK'
  <2> DEFINE o == tc_get_node(n)
             s == tc_rmv_node_addr([tab |-> addrTab, hash |-> hash], x)
  <2>1. o \in Node \cup {NoAddr} /\ x \in Addr
    BY GetNodeType, NoAddrNotNode DEF Addr
  <2>2. CASE o = NoAddr
    BY <1>9, <2>2 DEF REMOVE_ALIAS, tc_remove_alias, tcVars, TcTypeOK
  <2>3. CASE o # NoAddr
    <3>1. DbType([tab |-> addrTab, hash |-> hash])
      BY DEF DbType, TcTypeOK
    <3>2. DbType(s)
      BY <2>1, <3>1, RmvAddrType
    <3>3. /\ UNCHANGED <<nodes, links, localAddr>>
          /\ addrTab' = s.tab /\ hash' = s.hash
          /\ localLinks' = RefreshFirst(localLinks, n, s.tab[o])
      BY <1>9, <2>3 DEF REMOVE_ALIAS, tc_remove_alias
    <3> HIDE DEF s, o
    <3>4. s.tab[o] \in TabType
      BY <2>1, <2>3, <3>2 DEF DbType
    <3>5. localLinks' \in Seq(LocalLinkType)
      BY <3>3, <3>4, RefreshFirstType DEF TcTypeOK
    <3> QED
      BY <3>2, <3>3, <3>5 DEF TcTypeOK, DbType
  <2> QED
    BY <2>2, <2>3
<1> QED
  BY <1>1, <1>2, <1>3, <1>4, <1>5, <1>6, <1>7, <1>8, <1>9 DEF handleRead

\* A command that changes nodes or links empties the path cache.
LEMMA CommandCache ==
    ASSUME handleRead
    PROVE  \/ cache' = NoCache
           \/ cache' = cache /\ nodes' = nodes /\ links' = links
BY DEF handleRead, RESET_TC, SET_LOCAL_ADDR, SET_ALIAS_ADDR, ADD_NODE, REMOVE_NODE,
       ADD_LINK, REMOVE_LINK, ADD_ALIAS, REMOVE_ALIAS, tc_free_data, tc_set_local_addr,
       tc_set_local_alias, tc_add_node, tc_remove_node, tc_add_link, tc_remove_link,
       tc_add_alias, tc_remove_alias, tcVars, ResetCache

\* No command touches the variables of the main thread.
LEMMA CommandHook ==
    ASSUME handleRead
    PROVE  UNCHANGED hookVars
BY DEF handleRead, RESET_TC, SET_LOCAL_ADDR, SET_ALIAS_ADDR, ADD_NODE, REMOVE_NODE,
       ADD_LINK, REMOVE_LINK, ADD_ALIAS, REMOVE_ALIAS

\* What the history records are aliases and nodes.
LEMMA CommandHistory ==
    ASSUME TypeOK, handleRead
    PROVE  lost' \subseteq Alias /\ disputed' \subseteq Node
<1> USE DEF TypeOK
<1>1. CASE RESET_TC
  BY <1>1 DEF RESET_TC
<1>2. ASSUME NEW n \in Node, REMOVE_NODE(n) PROVE lost' \subseteq Alias /\ disputed' \subseteq Node
  BY <1>2 DEF REMOVE_NODE, Covered, Stripped
<1>3. ASSUME NEW n \in Node, NEW d \in Node, ADD_LINK(n, d)
      PROVE  lost' \subseteq Alias /\ disputed' \subseteq Node
  BY <1>3 DEF ADD_LINK
<1>4. ASSUME NEW n \in Node, NEW x \in Alias, REMOVE_ALIAS(n, x)
      PROVE  lost' \subseteq Alias /\ disputed' \subseteq Node
  <2>1. tc_get_node(x) \in Node \cup {NoAddr}
    BY GetNodeType DEF Addr
  <2> QED
    BY <1>4, <2>1 DEF REMOVE_ALIAS
<1>5. CASE UNCHANGED history
  BY <1>5 DEF history
<1> QED
  BY <1>1, <1>2, <1>3, <1>4, <1>5 DEF handleRead, SET_LOCAL_ADDR, SET_ALIAS_ADDR, ADD_NODE,
     REMOVE_LINK, ADD_ALIAS

\* A path is a sequence of nodes.
LEMMA PathsType ==
    ASSUME nodes \subseteq Node, NEW s, NEW d
    PROVE  Paths(s, d) \subseteq Seq(Node)
<1> SUFFICES ASSUME NEW p \in Paths(s, d) PROVE p \in Seq(Node)
  OBVIOUS
<1>1. p = <<>> \/ \E n \in 1..MaxHops : p \in [1..n -> nodes]
  BY DEF Paths
<1>2. CASE p = <<>>
  BY <1>2
<1>3. ASSUME NEW n \in 1..MaxHops, p \in [1..n -> nodes] PROVE p \in Seq(Node)
  BY <1>3, BoundAssumption
<1> QED
  BY <1>1, <1>2, <1>3

\* What tc_k_dijstra returns: a tuple of paths, never the empty one.
LEMMA KPathsType ==
    ASSUME nodes \subseteq Node, NEW s, NEW d, NEW ps \in KPaths(s, d)
    PROVE  /\ ps \in Seq(Seq(Node)) /\ ps # <<>>
           /\ \A i \in DOMAIN ps : ps[i] \in Paths(s, d)
<1>1. ps \in [1..ConfPath -> Paths(s, d)]
  BY DEF KPaths
<1>2. ps \in [1..ConfPath -> Seq(Node)]
  BY <1>1, PathsType
<1>3. ConfPath \in Nat /\ 1 \in 1..ConfPath
  BY SizeAssumption
<1> QED
  BY <1>1, <1>2, <1>3

\* Taking the next path of a cache entry only reorders its paths.
LEMMA RotateSame ==
    ASSUME NEW T, NEW ps \in Seq(T), ps # <<>>
    PROVE  /\ Rotate(ps) \in Seq(T) /\ Rotate(ps) # <<>>
           /\ Head(ps) \in T
           /\ \A i \in DOMAIN Rotate(ps) : \E j \in DOMAIN ps : Rotate(ps)[i] = ps[j]
<1>1. Len(ps) \in Nat /\ Len(ps) >= 1 /\ 1 \in DOMAIN ps /\ Head(ps) = ps[1] /\ Head(ps) \in T
  OBVIOUS
<1>2. Tail(ps) \in Seq(T) /\ Len(Tail(ps)) = Len(ps) - 1
  BY <1>1
<1>3. Rotate(ps) \in Seq(T) /\ Len(Rotate(ps)) = Len(ps)
  BY <1>1, <1>2 DEF Rotate
<1>4. ASSUME NEW i \in DOMAIN Rotate(ps)
      PROVE  \E j \in DOMAIN ps : Rotate(ps)[i] = ps[j]
  <2>1. i \in 1..Len(ps)
    BY <1>3
  <2>2. CASE i = Len(ps)
    BY <1>1, <1>2, <2>2 DEF Rotate
  <2>3. CASE i # Len(ps)
    <3>1. i \in 1..Len(Tail(ps)) /\ i + 1 \in DOMAIN ps
      BY <2>1, <2>3, <1>1, <1>2
    <3>2. Rotate(ps)[i] = Tail(ps)[i] /\ Tail(ps)[i] = ps[i + 1]
      BY <3>1, <1>1, <1>2 DEF Rotate
    <3> QED
      BY <3>1, <3>2
  <2> QED
    BY <2>2, <2>3
<1> QED
  BY <1>1, <1>3, <1>4

OutType == [dst : Addr \cup {Loopback, NoAddr}, path : Seq(Node),
            verdict : {"none", "drop", "accept", "mpolsr"}, nextHop : Addr \cup {NoAddr}]

LEMMA EmptyPath == \A T : <<>> \in Seq(T)
OBVIOUS

LEMMA OutRecord ==
    ASSUME NEW d \in Addr \cup {Loopback}, NEW p \in Seq(Node), NEW n \in Addr \cup {NoAddr},
           NEW v \in {"drop", "accept", "mpolsr"}
    PROVE  [dst |-> d, verdict |-> v, path |-> p, nextHop |-> n] \in OutType
BY DEF OutType

\* The verdict for a found path is well typed.
LEMMA CopyPathType ==
    ASSUME TypeOK, NEW p \in Seq(Node), NEW srcLocal \in BOOLEAN,
           NEW d \in Addr \cup {Loopback}, pth_copy_path(p, srcLocal, d)
    PROVE  buf' \in Node \cup {NoAddr} /\ out' \in OutType
<1> DEFINE hop == IF p = <<>> THEN buf ELSE p[1]
           ls == LinksTo(localLinks, hop)
           next == IF ~srcLocal THEN hop
                   ELSE IF ls = {} THEN NoAddr ELSE localLinks[Least(ls)].alias
<1>1. hop \in Node \cup {NoAddr}
  BY DEF TypeOK, HookTypeOK
<1>2. next \in Addr \cup {NoAddr}
  <2>1. CASE ~srcLocal \/ ls = {}
    BY <1>1, <2>1, NoAddrNotNode
  <2>2. CASE srcLocal /\ ls # {}
    <3> HIDE DEF hop
    <3>1. localLinks \in Seq(LocalLinkType)
      BY DEF TypeOK, TcTypeOK, LocalLinkType
    <3>2. Least(ls) \in 1..Len(localLinks)
      BY <2>2, <3>1, FirstLink
    <3> HIDE DEF ls
    <3>3. localLinks[Least(ls)] \in LocalLinkType
      BY <3>1, <3>2
    <3> QED
      BY <2>2, <3>3 DEF LocalLinkType
  <2> QED
    BY <2>1, <2>2
<1>3. /\ buf' = hop
      /\ \/ out' = [dst |-> d, verdict |-> "drop", path |-> <<>>, nextHop |-> NoAddr]
         \/ out' = [dst |-> d, verdict |-> "accept", path |-> <<>>, nextHop |-> NoAddr]
         \/ out' = [dst |-> d, verdict |-> "mpolsr", path |-> p, nextHop |-> next]
  BY DEF pth_copy_path, Drop
<1> HIDE DEF hop, next
<1>4. out' \in OutType
  <2>1. CASE out' = [dst |-> d, verdict |-> "mpolsr", path |-> p, nextHop |-> next]
    BY <1>2, <2>1, OutRecord
  <2>2. CASE out' = [dst |-> d, verdict |-> "drop", path |-> <<>>, nextHop |-> NoAddr]
    BY <2>2, OutRecord, EmptyPath
  <2>3. CASE out' = [dst |-> d, verdict |-> "accept", path |-> <<>>, nextHop |-> NoAddr]
    BY <2>3, OutRecord, EmptyPath
  <2> QED
    BY <1>3, <2>1, <2>2, <2>3
<1> QED
  BY <1>1, <1>3, <1>4

\* Any use of the hook keeps the cache and the hook's variables well typed.
LEMMA HookType ==
    ASSUME TypeOK, NEW a \in Addr \cup {Loopback}, NEW b \in Addr \cup {Loopback},
           hk_local_out_hook(a, b)
    PROVE  CacheTypeOK' /\ HookTypeOK'
<1> DEFINE s == GetNode(a)
           d == GetNode(b)
           key == <<s, d>>
           srcLocal == s = localAddr[0]
           dropped == [dst |-> b, verdict |-> "drop", path |-> <<>>, nextHop |-> NoAddr]
           accepted == [dst |-> b, verdict |-> "accept", path |-> <<>>, nextHop |-> NoAddr]
<1>1. s \in Node \cup {NoAddr} /\ d \in Node \cup {NoAddr}
  BY GetNodeType DEF GetNode, TypeOK
<1>2. dropped \in OutType /\ accepted \in OutType
  BY DEF OutType
<1>3. \/ out' \in {dropped, accepted} /\ UNCHANGED <<cache, pc, req, buf>>
      \/ /\ s # NoAddr /\ d # NoAddr /\ pc' = "unlocked"
         /\ req' = [src |-> s, dst |-> d, srcLocal |-> srcLocal, asked |-> b]
         /\ UNCHANGED <<cache, buf, out>>
      \/ /\ key \in DOMAIN cache /\ cache[key] # <<>>
         /\ cache' = [cache EXCEPT ![key] = Rotate(@)]
         /\ pth_copy_path(Head(cache[key]), srcLocal, b)
         /\ UNCHANGED <<pc, req>>
  BY DEF hk_local_out_hook, Drop
<1> HIDE DEF s, d, srcLocal, dropped, accepted
<1>4. CASE out' \in {dropped, accepted} /\ UNCHANGED <<cache, pc, req, buf>>
  <2>1. out' \in OutType
    BY <1>2, <1>4
  <2> QED
    BY <1>4, <2>1 DEF TypeOK, CacheTypeOK, HookTypeOK, OutType
<1>5. CASE /\ s # NoAddr /\ d # NoAddr /\ pc' = "unlocked"
           /\ req' = [src |-> s, dst |-> d, srcLocal |-> srcLocal, asked |-> b]
           /\ UNCHANGED <<cache, buf, out>>
  <2>1. s \in Node /\ d \in Node /\ b \in Addr /\ srcLocal \in BOOLEAN
    BY <1>1, <1>5 DEF d, GetNode, srcLocal
  <2>2. req' \in [src : Node, dst : Node, srcLocal : BOOLEAN, asked : Addr] /\ req' # NoReq
    BY <1>5, <2>1, NoAddrNotNode DEF NoReq
  <2> QED
    BY <1>5, <2>2 DEF TypeOK, CacheTypeOK, HookTypeOK
<1>6. CASE /\ key \in DOMAIN cache /\ cache[key] # <<>>
           /\ cache' = [cache EXCEPT ![key] = Rotate(@)]
           /\ pth_copy_path(Head(cache[key]), srcLocal, b)
           /\ UNCHANGED <<pc, req>>
  <2>1. cache[key] \in Seq(Seq(Node))
    BY <1>6 DEF TypeOK, CacheTypeOK
  <2>2. Rotate(cache[key]) \in Seq(Seq(Node)) /\ Head(cache[key]) \in Seq(Node)
    BY <1>6, <2>1, RotateSame
  <2>3. buf' \in Node \cup {NoAddr} /\ out' \in OutType
    <3>1. srcLocal \in BOOLEAN
      BY DEF srcLocal
    <3> QED
      BY <1>6, <2>2, <3>1, CopyPathType
  <2>4. CacheTypeOK'
    <3> HIDE DEF key
    <3> QED
      BY <1>6, <2>2 DEF TypeOK, CacheTypeOK
  <2> QED
    BY <1>6, <2>3, <2>4 DEF TypeOK, HookTypeOK, OutType
<1> QED
  BY <1>3, <1>4, <1>5, <1>6

\* So does the second half of a lookup.
LEMMA WriteType ==
    ASSUME TypeOK, pth_find_datagram_path_write
    PROVE  CacheTypeOK' /\ HookTypeOK'
<1> DEFINE s == req.src
           d == req.dst
           dropped == [dst |-> req.asked, verdict |-> "drop", path |-> <<>>, nextHop |-> NoAddr]
<1>1. req \in [src : Node, dst : Node, srcLocal : BOOLEAN, asked : Addr]
  BY DEF TypeOK, HookTypeOK, pth_find_datagram_path_write
<1>2. PICK ps \in KPaths(s, d) \cup {<<>>} :
        /\ cache' = [k \in DOMAIN cache \cup {<<s, d>>} |->
                        IF k = <<s, d>> THEN ps ELSE cache[k]]
        /\ IF ps = <<>> THEN out' = dropped /\ buf' = buf
                        ELSE pth_copy_path(ps[1], req.srcLocal, req.asked)
  BY DEF pth_find_datagram_path_write, tc_k_dijstra, Drop
<1>3. s \in Node /\ d \in Node /\ nodes \subseteq Node
  BY <1>1 DEF TypeOK, TcTypeOK
<1>4. ps \in Seq(Seq(Node))
  BY <1>3, KPathsType, EmptyPath
<1>5. CacheTypeOK'
  BY <1>2, <1>3, <1>4 DEF TypeOK, CacheTypeOK
<1>6. buf' \in Node \cup {NoAddr} /\ out' \in OutType
  <2>1. CASE ps = <<>>
    <3>1. dropped \in OutType
      BY <1>1, OutRecord, EmptyPath
    <3> QED
      BY <1>2, <2>1, <3>1 DEF TypeOK, HookTypeOK
  <2>2. CASE ps # <<>>
    <3>1. ps[1] \in Seq(Node)
      BY <1>4, <2>2
    <3> QED
      BY <1>1, <1>2, <2>2, <3>1, CopyPathType
  <2> QED
    BY <2>1, <2>2
<1>7. pc' = "idle" /\ req' = NoReq
  BY DEF pth_find_datagram_path_write
<1> QED
  BY <1>5, <1>6, <1>7 DEF HookTypeOK, OutType

\* Type correctness, for any network: the tables, lists and indices of
\* ser_path_tc.c and of the lookup of ser_path.c stay within their structures
\* under every order of commands and datagrams.
THEOREM TypeCorrect == Spec => []TypeOK
<1>1. Init => TypeOK
  <2> SUFFICES ASSUME Init PROVE TypeOK
    OBVIOUS
  <2>1. TcTypeOK
    BY EmptyTabType, EmptyPath DEF Init, tc_init_data, TcTypeOK, TabType
  <2>2. CacheTypeOK
    BY DEF Init, tc_init_data, CacheTypeOK, NoCache
  <2>3. NoOut \in OutType
    BY EmptyPath DEF NoOut, OutType
  <2>4. HookTypeOK
    BY <2>3 DEF Init, HookTypeOK, OutType
  <2> QED
    BY <2>1, <2>2, <2>4 DEF Init, TypeOK
<1>2. TypeOK /\ [Next]_vars => TypeOK'
  <2> SUFFICES ASSUME TypeOK, [Next]_vars PROVE TypeOK'
    OBVIOUS
  <2>1. CASE handleRead
    <3>1. TcTypeOK'
      BY <2>1, CommandType DEF TypeOK
    <3>2. CacheTypeOK'
      BY <2>1, CommandCache DEF TypeOK, CacheTypeOK, NoCache
    <3>3. UNCHANGED hookVars
      BY <2>1, CommandHook
    <3>5. lost' \subseteq Alias /\ disputed' \subseteq Node
      BY <2>1, CommandHistory
    <3>4. HookTypeOK'
      BY <3>3 DEF TypeOK, HookTypeOK, hookVars
    <3> QED
      BY <3>1, <3>2, <3>4, <3>5 DEF TypeOK
  <2>2. ASSUME NEW dg \in Datagrams, hk_local_out_hook(dg[1], dg[2]) PROVE TypeOK'
    <3>1. dg[1] \in Addr \cup {Loopback} /\ dg[2] \in Addr \cup {Loopback}
      BY AddrAssumption, BoundAssumption DEF Datagrams, MyAddrs, Addr
    <3>2. CacheTypeOK' /\ HookTypeOK'
      BY <2>2, <3>1, HookType
    <3>3. TcTypeOK'
      BY <2>2 DEF hk_local_out_hook, TypeOK, TcTypeOK
    <3> QED
      BY <2>2, <3>2, <3>3 DEF TypeOK, hk_local_out_hook, history
  <2>3. CASE pth_find_datagram_path_write
    BY <2>3, WriteType DEF pth_find_datagram_path_write, TypeOK, TcTypeOK, history
  <2>4. CASE UNCHANGED vars
    BY <2>4 DEF vars, TypeOK, TcTypeOK, CacheTypeOK, HookTypeOK
  <2> QED
    BY <2>1, <2>2, <2>3, <2>4 DEF Next
<1> QED
  BY <1>1, <1>2, PTL DEF Spec

-----------------------------------------------------------------------------
(* The path cache *)

\* The paths between two nodes depend on the nodes and the links only.
LEMMA PathsSame ==
    ASSUME nodes' = nodes, links' = links, NEW s, NEW d
    PROVE  Paths(s, d)' = Paths(s, d)
BY DEF Paths, IsSimplePath, Linked

\* One step keeps the cache in accordance with the topology.
LEMMA CacheStep ==
    ASSUME TypeOK, CacheCoherent, [Next]_vars
    PROVE  CacheCoherent'
<1>1. CASE cache' = NoCache
  BY <1>1 DEF CacheCoherent, NoCache
<1>2. CASE cache' = cache /\ nodes' = nodes /\ links' = links
  BY <1>2, PathsSame DEF CacheCoherent
<1>3. CASE handleRead
  BY <1>1, <1>2, <1>3, CommandCache
<1>4. ASSUME NEW dg \in Datagrams, hk_local_out_hook(dg[1], dg[2]) PROVE CacheCoherent'
  <2> DEFINE key == <<GetNode(dg[1]), GetNode(dg[2])>>
  <2>1. nodes' = nodes /\ links' = links
    BY <1>4 DEF hk_local_out_hook
  <2>2. \/ cache' = cache
        \/ /\ key \in DOMAIN cache /\ cache[key] # <<>>
           /\ cache' = [cache EXCEPT ![key] = Rotate(@)]
    BY <1>4 DEF hk_local_out_hook
  <2> HIDE DEF key
  <2>3. CASE /\ key \in DOMAIN cache /\ cache[key] # <<>>
             /\ cache' = [cache EXCEPT ![key] = Rotate(@)]
    <3> SUFFICES ASSUME NEW k \in DOMAIN cache
                 PROVE  IF cache'[k] = <<>>
                        THEN Paths(k[1], k[2]) = {}
                        ELSE \A i \in DOMAIN cache'[k] : cache'[k][i] \in Paths(k[1], k[2])
      BY <2>1, <2>3, PathsSame DEF CacheCoherent
    <3>1. CASE k # key
      BY <2>3, <3>1 DEF CacheCoherent
    <3>2. CASE k = key
      <4>1. cache[key] \in Seq(Seq(Node)) /\ cache'[key] = Rotate(cache[key])
        BY <2>3 DEF TypeOK, CacheTypeOK
      <4>2. /\ Rotate(cache[key]) # <<>>
            /\ \A i \in DOMAIN Rotate(cache[key]) :
                  \E j \in DOMAIN cache[key] : Rotate(cache[key])[i] = cache[key][j]
        BY <2>3, <4>1, RotateSame
      <4>3. \A j \in DOMAIN cache[key] : cache[key][j] \in Paths(key[1], key[2])
        BY <2>3 DEF CacheCoherent
      <4> QED
        BY <3>2, <4>1, <4>2, <4>3
    <3> QED
      BY <3>1, <3>2
  <2> QED
    BY <1>2, <2>1, <2>2, <2>3
<1>5. CASE pth_find_datagram_path_write
  <2> DEFINE s == req.src
             d == req.dst
  <2>1. nodes' = nodes /\ links' = links /\ nodes \subseteq Node
    BY <1>5 DEF pth_find_datagram_path_write, TypeOK, TcTypeOK
  <2>2. PICK ps :
          /\ IF Paths(s, d) = {} THEN ps = <<>> ELSE ps \in KPaths(s, d)
          /\ cache' = [k \in DOMAIN cache \cup {<<s, d>>} |->
                          IF k = <<s, d>> THEN ps ELSE cache[k]]
    BY <1>5 DEF pth_find_datagram_path_write, tc_k_dijstra
  <2> HIDE DEF s, d
  <2>3. IF ps = <<>> THEN Paths(s, d) = {}
        ELSE \A i \in DOMAIN ps : ps[i] \in Paths(s, d)
    BY <2>1, <2>2, KPathsType
  <2>a. DOMAIN cache' = DOMAIN cache \cup {<<s, d>>}
    BY <2>2
  <2>b. \A k : Paths(k[1], k[2])' = Paths(k[1], k[2])
    BY <2>1, PathsSame
  <2> SUFFICES ASSUME NEW k \in DOMAIN cache \cup {<<s, d>>}
               PROVE  IF cache'[k] = <<>>
                      THEN Paths(k[1], k[2]) = {}
                      ELSE \A i \in DOMAIN cache'[k] : cache'[k][i] \in Paths(k[1], k[2])
    BY <2>a, <2>b DEF CacheCoherent
  <2>4. CASE k = <<s, d>>
    BY <2>2, <2>3, <2>4
  <2>5. CASE k # <<s, d>>
    BY <2>2, <2>5 DEF CacheCoherent
  <2> QED
    BY <2>4, <2>5
<1>6. CASE UNCHANGED vars
  BY <1>2, <1>6 DEF vars
<1> QED
  BY <1>3, <1>4, <1>5, <1>6 DEF Next

\* The cache is never stale: whatever commands arrive, also between the two
\* locks of a lookup, every cached path is a simple path over the current links
\* and an entry without paths means that the destination cannot be reached.
THEOREM CacheNeverStale == Spec => []CacheCoherent
<1>1. Init => CacheCoherent
  BY DEF Init, tc_init_data, CacheCoherent, NoCache
<1>2. TypeOK /\ CacheCoherent /\ [Next]_vars => CacheCoherent'
  BY CacheStep
<1> QED
  BY <1>1, <1>2, TypeCorrect, PTL DEF Spec

-----------------------------------------------------------------------------
(* The address hash *)

\* The entries of an address name, each once, the slots that hold it.
Matches(tab, h, a) ==
    /\ \A i, j \in DOMAIN h[a] : h[a][i] = h[a][j] => i = j
    /\ \A i \in DOMAIN h[a] : tab[h[a][i][1]][h[a][i][2]] = a
    /\ \A m \in Node, j \in Slots : tab[m][j] = a => \E i \in DOMAIN h[a] : h[a][i] = <<m, j>>

\* Every address that is not lost matches its slots.  A node of the list has its
\* main address in slot 0, the other slots hold aliases of other hosts, and a
\* node that is not in the list holds no address but lost ones.
HashInv ==
    /\ lost \subseteq Alias \ MyAliases
    /\ \A a \in Addr \ lost : Matches(addrTab, hash, a)
    /\ \A n \in Node : addrTab[n][0] = IF n \in nodes THEN n ELSE NoAddr
    /\ \A n \in Node, i \in Slots \ {0} : addrTab[n][i] \in (Alias \ MyAliases) \cup {NoAddr}
    /\ \A n \in Node, i \in Slots \ {0} : addrTab[n][i] \in Addr \ lost => n \in nodes

\* An entry of the hash is a slot of a node.
LEMMA EntryType ==
    ASSUME NEW h \in [Addr -> Seq(Node \X Slots)], NEW a \in Addr, NEW i \in DOMAIN h[a]
    PROVE  /\ h[a][i] \in Node \X Slots
           /\ h[a][i][1] \in Node /\ h[a][i][2] \in Slots
           /\ h[a][i] = <<h[a][i][1], h[a][i][2]>>
<1>1. h[a] \in Seq(Node \X Slots)
  OBVIOUS
<1>2. h[a][i] \in Node \X Slots
  BY <1>1
<1> QED
  BY <1>2

LEMMA HashExplained ==
    ASSUME TcTypeOK, HashInv
    PROVE  HashSound
<1> SUFFICES ASSUME NEW a \in Addr \ lost, NEW i \in DOMAIN hash[a]
             PROVE  hash[a][i][1] \in nodes /\ addrTab[hash[a][i][1]][hash[a][i][2]] = a
  BY DEF HashSound
<1> DEFINE m == hash[a][i][1]
           j == hash[a][i][2]
<1>1. m \in Node /\ j \in Slots
  BY EntryType DEF TcTypeOK
<1>2. addrTab[m][j] = a /\ a # NoAddr
  BY NoAddrNotNode DEF HashInv, Matches
<1> HIDE DEF m, j
<1>3. ASSUME j = 0 PROVE m \in nodes
  BY <1>1, <1>2, <1>3 DEF HashInv
<1>4. ASSUME j # 0 PROVE m \in nodes
  BY <1>1, <1>2, <1>4 DEF HashInv
<1> QED
  BY <1>2, <1>3, <1>4 DEF m, j

\* A main address is found exactly if its node is in the list, and no address
\* of this host other than its main one ever is.
LEMMA MainAddress ==
    ASSUME TcTypeOK, HashInv, NEW n \in Node
    PROVE  /\ tc_get_node(n) = IF n \in nodes THEN n ELSE NoAddr
           /\ hash[n] = <<>> <=> n \notin nodes
           /\ \A i \in DOMAIN hash[n] : hash[n][i] = <<n, 0>>
<1>1. n \in Addr \ lost /\ n \notin Alias /\ n # NoAddr /\ 0 \in Slots
  BY AddrAssumption, SlotsNat DEF Addr, HashInv
<1>2. Matches(addrTab, hash, n) /\ hash[n] \in Seq(Node \X Slots)
  BY <1>1 DEF HashInv, TcTypeOK
<1>3. ASSUME NEW i \in DOMAIN hash[n] PROVE hash[n][i] = <<n, 0>> /\ n \in nodes
  <2> DEFINE m == hash[n][i][1]
             j == hash[n][i][2]
  <2>1. m \in Node /\ j \in Slots /\ hash[n][i] = <<m, j>>
    BY <1>1, EntryType DEF TcTypeOK
  <2>2. addrTab[m][j] = n
    BY <1>2 DEF Matches
  <2> HIDE DEF m, j
  <2>3. j = 0
    BY <1>1, <2>1, <2>2 DEF HashInv
  <2> QED
    BY <1>1, <2>1, <2>2, <2>3 DEF HashInv
<1>4. CASE n \in nodes
  <2>1. addrTab[n][0] = n
    BY <1>4 DEF HashInv
  <2>2. PICK i \in DOMAIN hash[n] : hash[n][i] = <<n, 0>>
    BY <1>1, <1>2, <2>1 DEF Matches
  <2>3. 1 \in DOMAIN hash[n] /\ hash[n] # <<>>
    BY <1>2, <2>2
  <2>4. hash[n][1][1] = n
    BY <1>3, <2>3
  <2> QED
    BY <1>3, <1>4, <2>3, <2>4 DEF tc_get_node
<1>5. CASE n \notin nodes
  <2>1. hash[n] # <<>> => 1 \in DOMAIN hash[n]
    BY <1>2
  <2>2. hash[n] = <<>>
    BY <1>3, <1>5, <2>1
  <2> QED
    BY <1>3, <1>5, <2>2 DEF tc_get_node
<1> QED
  BY <1>4, <1>5

LEMMA LocalAlias ==
    ASSUME TcTypeOK, HashInv, NEW x \in MyAliases
    PROVE  hash[x] = <<>>
<1>1. x \in Addr \ lost /\ x \in Alias /\ x \notin Node /\ x # NoAddr
  BY AddrAssumption DEF Addr, HashInv
<1>2. Matches(addrTab, hash, x) /\ hash[x] \in Seq(Node \X Slots)
  BY <1>1 DEF HashInv, TcTypeOK
<1>3. ASSUME NEW i \in DOMAIN hash[x] PROVE FALSE
  <2> DEFINE m == hash[x][i][1]
             j == hash[x][i][2]
  <2>1. m \in Node /\ j \in Slots
    BY <1>1, EntryType DEF TcTypeOK
  <2>2. addrTab[m][j] = x
    BY <1>2 DEF Matches
  <2> HIDE DEF m, j
  <2>3. CASE j = 0
    BY <1>1, <2>1, <2>2, <2>3 DEF HashInv
  <2>4. CASE j # 0
    BY <1>1, <2>1, <2>2, <2>4 DEF HashInv
  <2> QED
    BY <2>3, <2>4
<1>4. hash[x] # <<>> => 1 \in DOMAIN hash[x]
  BY <1>2
<1> QED
  BY <1>3, <1>4

\* Dropping the newest entry of an address clears the slot it names and nothing
\* else, and leaves every address matching its slots that did.
LEMMA RmvAddrMatches ==
    ASSUME NEW s, DbType(s), NEW a \in Addr, s.hash[a] # <<>>, Matches(s.tab, s.hash, a),
           NEW e, e = s.hash[a][1], NEW r, r = tc_rmv_node_addr(s, a)
    PROVE  /\ DbType(r)
           /\ e \in Node \X Slots /\ s.tab[e[1]][e[2]] = a
           /\ \A m \in Node, j \in Slots :
                 r.tab[m][j] = IF e = <<m, j>> THEN NoAddr ELSE s.tab[m][j]
           /\ \A q \in Addr : r.hash[q] = IF q = a THEN Tail(s.hash[a]) ELSE s.hash[q]
           /\ \A q \in Addr : Matches(s.tab, s.hash, q) => Matches(r.tab, r.hash, q)
<1> DEFINE l == s.hash[a]
<1>1. l \in Seq(Node \X Slots) /\ l # <<>> /\ 1 \in DOMAIN l
  BY DEF DbType
<1>2. e \in Node \X Slots /\ s.tab[e[1]][e[2]] = a
  BY <1>1 DEF Matches
<1>3. DbType(r)
  BY RmvAddrType
<1>4. /\ r.tab = [s.tab EXCEPT ![e[1]][e[2]] = NoAddr]
      /\ r.hash = [s.hash EXCEPT ![a] = Tail(@)]
  BY DEF tc_rmv_node_addr
<1>5. \A m \in Node, j \in Slots : r.tab[m][j] = IF e = <<m, j>> THEN NoAddr ELSE s.tab[m][j]
  BY <1>2, <1>4 DEF DbType, TabType
<1>6. \A q \in Addr : r.hash[q] = IF q = a THEN Tail(l) ELSE s.hash[q]
  BY <1>4 DEF DbType
<1>7. ASSUME NEW q \in Addr, Matches(s.tab, s.hash, q)
      PROVE  Matches(r.tab, r.hash, q)
  <2>1. CASE q # a
    <3>1. r.hash[q] = s.hash[q]
      BY <1>6, <2>1
    <3>2. ASSUME NEW i \in DOMAIN r.hash[q]
          PROVE  r.tab[r.hash[q][i][1]][r.hash[q][i][2]] = q
      <4> DEFINE f == s.hash[q][i]
      <4>1. f[1] \in Node /\ f[2] \in Slots /\ f = <<f[1], f[2]>>
        BY <3>1, EntryType DEF DbType
      <4>2. s.tab[f[1]][f[2]] = q
        BY <1>7, <3>1 DEF Matches
      <4> HIDE DEF f
      <4>3. e # <<f[1], f[2]>>
        BY <1>2, <2>1, <4>2
      <4>4. r.tab[f[1]][f[2]] = q
        BY <1>5, <4>1, <4>2, <4>3
      <4> QED
        BY <3>1, <4>4 DEF f
    <3>3. ASSUME NEW m \in Node, NEW j \in Slots, r.tab[m][j] = q
          PROVE  \E i \in DOMAIN r.hash[q] : r.hash[q][i] = <<m, j>>
      <4>1. s.tab[m][j] = q
        BY <1>5, <3>3, NoAddrNotNode
      <4>2. PICK i \in DOMAIN s.hash[q] : s.hash[q][i] = <<m, j>>
        BY <1>7, <4>1 DEF Matches
      <4> QED
        BY <3>1, <4>2
    <3>4. \A i, j \in DOMAIN r.hash[q] : r.hash[q][i] = r.hash[q][j] => i = j
      BY <1>7, <3>1 DEF Matches
    <3> QED
      BY <3>2, <3>3, <3>4 DEF Matches
  <2>2. CASE q = a
    <3> DEFINE t == Tail(l)
    <3>1. r.hash[q] = t
      BY <1>6, <2>2
    <3>2. /\ DOMAIN l = 1 .. Len(l) /\ Len(l) \in Nat /\ DOMAIN t = 1 .. Len(l) - 1
          /\ \A i \in DOMAIN t : i + 1 \in DOMAIN l /\ t[i] = l[i + 1]
      BY <1>1
    <3> HIDE DEF t
    <3>3. \A i, j \in DOMAIN l : l[i] = l[j] => i = j
      BY DEF Matches
    <3>4. \A i, j \in DOMAIN t : t[i] = t[j] => i = j
      BY <3>2, <3>3
    <3>5. \A i \in DOMAIN t : t[i] # e
      BY <1>1, <3>2, <3>3
    <3>6. ASSUME NEW i \in DOMAIN t PROVE r.tab[t[i][1]][t[i][2]] = q
      <4> DEFINE f == l[i + 1]
      <4>1. f[1] \in Node /\ f[2] \in Slots /\ f = <<f[1], f[2]>>
        BY <3>2, EntryType DEF DbType
      <4>2. s.tab[f[1]][f[2]] = a
        BY <3>2 DEF Matches
      <4>3. t[i] = f /\ e # f
        BY <3>2, <3>5
      <4> HIDE DEF f, l
      <4> QED
        BY <1>5, <2>2, <4>1, <4>2, <4>3
    <3>7. ASSUME NEW m \in Node, NEW j \in Slots, r.tab[m][j] = q
          PROVE  \E i \in DOMAIN t : t[i] = <<m, j>>
      <4>1. s.tab[m][j] = a /\ e # <<m, j>>
        BY <1>5, <2>2, <3>7, NoAddrNotNode
      <4>2. PICK i \in DOMAIN l : l[i] = <<m, j>>
        BY <4>1 DEF Matches
      <4>3. i # 1 /\ i - 1 \in DOMAIN t /\ t[i - 1] = l[i]
        <5>1. i # 1
          BY <4>1, <4>2
        <5>2. i - 1 \in DOMAIN t /\ (i - 1) + 1 = i
          BY <3>2, <5>1
        <5> QED
          BY <3>2, <5>1, <5>2
      <4> QED
        BY <4>2, <4>3
    <3> QED
      BY <3>1, <3>4, <3>6, <3>7 DEF Matches
  <2> QED
    BY <2>1, <2>2
<1> QED
  BY <1>2, <1>3, <1>5, <1>6, <1>7

\* What the loop of tc_remove_node keeps from slot to slot: addresses match their
\* slots, slots are only cleared, and a node other than n loses one only by an
\* alias that covers n's entry.
LoopInv(s, n) ==
    /\ DbType(s)
    /\ \A a \in Addr \ lost : Matches(s.tab, s.hash, a)
    /\ \A m \in Node, j \in Slots : s.tab[m][j] \in {addrTab[m][j], NoAddr}
    /\ \A m \in Node \ {n} : s.tab[m][0] = addrTab[m][0]
    /\ \A m \in Node \ {n}, j \in Slots :
          s.tab[m][j] # addrTab[m][j] => \E x \in Covered(n) : m \in Owners(x)
    /\ \A a \in Addr : \A k \in DOMAIN s.hash[a] : \E l \in DOMAIN hash[a] : s.hash[a][k] = hash[a][l]
    /\ \A a \in (Addr \ lost) \ Covered(n) : \A k \in DOMAIN s.hash[a] : s.hash[a][k][1] = n => k = 1

LEMMA LoopStart ==
    ASSUME TcTypeOK, HashInv, NEW n \in Node
    PROVE  LoopInv([tab |-> addrTab, hash |-> hash], n)
<1> DEFINE s == [tab |-> addrTab, hash |-> hash]
<1>1. DbType(s)
  BY DEF DbType, TcTypeOK, TabType
<1>2. ASSUME NEW a \in (Addr \ lost) \ Covered(n), NEW k \in DOMAIN hash[a], hash[a][k][1] = n
      PROVE  k = 1
  <2>1. hash[a] \in Seq(Node \X Slots) /\ k \in Nat /\ k >= 1 /\ 1 \in DOMAIN hash[a]
    BY DEF TcTypeOK
  <2>2. CASE a \in Alias
    <3>1. ~(k > 1)
      BY <1>2, <2>2 DEF Covered
    <3> QED
      BY <2>1, <3>1
  <2>3. CASE a \in Node
    <3>1. hash[a][k] = <<a, 0>> /\ hash[a][1] = <<a, 0>>
      BY <2>1, <2>3, MainAddress
    <3>2. Matches(addrTab, hash, a)
      BY DEF HashInv
    <3> QED
      BY <2>1, <3>1, <3>2 DEF Matches
  <2> QED
    BY <2>2, <2>3 DEF Addr
<1> QED
  BY <1>1, <1>2 DEF LoopInv, HashInv

LEMMA LoopStep ==
    ASSUME TcTypeOK, HashInv, NEW n \in Node, \A j \in Slots : addrTab[n][j] \notin lost,
           NEW s, LoopInv(s, n), NEW i
    PROVE  /\ LoopInv(RmvSlot(s, n, i), n)
           /\ i \in Slots => RmvSlot(s, n, i).tab[n][i] \in Covered(n) \cup {NoAddr}
           /\ \A j \in Slots : RmvSlot(s, n, i).tab[n][j] \in {s.tab[n][j], NoAddr}
<1>1. CASE ~(i \in Slots /\ s.tab[n][i] # NoAddr)
  BY <1>1 DEF RmvSlot
<1>2. CASE i \in Slots /\ s.tab[n][i] # NoAddr
  <2> DEFINE b == s.tab[n][i]
             r == tc_rmv_node_addr(s, b)
             e == s.hash[b][1]
  <2>1. b \in Addr \ lost /\ b = addrTab[n][i]
    BY <1>2 DEF LoopInv, DbType, TabType
  <2>2. Matches(s.tab, s.hash, b) /\ DbType(s) /\ s.hash[b] \in Seq(Node \X Slots)
    BY <2>1 DEF LoopInv, DbType
  <2>3. PICK k \in DOMAIN s.hash[b] : s.hash[b][k] = <<n, i>>
    BY <1>2, <2>2 DEF Matches
  <2>4. s.hash[b] # <<>> /\ 1 \in DOMAIN s.hash[b]
    <3> DEFINE q == s.hash[b]
    <3>1. q \in Seq(Node \X Slots) /\ k \in DOMAIN q
      BY <2>2, <2>3
    <3> HIDE DEF q
    <3>2. q # <<>> /\ 1 \in DOMAIN q
      BY <3>1
    <3> QED
      BY <3>2 DEF q
  <2>5. RmvSlot(s, n, i) = r
    BY <1>2 DEF RmvSlot
  <2> HIDE DEF b, r, e
  <2>a. e = s.hash[b][1] /\ r = tc_rmv_node_addr(s, b)
    BY DEF e, r
  <2>6. /\ DbType(r)
        /\ e \in Node \X Slots /\ s.tab[e[1]][e[2]] = b
        /\ \A m \in Node, j \in Slots : r.tab[m][j] = IF e = <<m, j>> THEN NoAddr ELSE s.tab[m][j]
        /\ \A q \in Addr : r.hash[q] = IF q = b THEN Tail(s.hash[b]) ELSE s.hash[q]
        /\ \A q \in Addr : Matches(s.tab, s.hash, q) => Matches(r.tab, r.hash, q)
    <3>1. b \in Addr /\ DbType(s) /\ s.hash[b] # <<>> /\ Matches(s.tab, s.hash, b)
      BY <2>1, <2>2, <2>4
    <3> QED
      BY <3>1, <2>a, RmvAddrMatches
  <2>7. e = <<e[1], e[2]>> /\ e[1] \in Node /\ e[2] \in Slots
    BY <2>6
  <2>8. e[1] # n => b \in Covered(n) /\ e[1] \in Owners(b)
    <3> SUFFICES ASSUME e[1] # n PROVE b \in Covered(n) /\ e[1] \in Owners(b)
      OBVIOUS
    <3>1. k # 1
      BY <2>3, <2>a
    <3>2. b \in Covered(n)
      BY <2>1, <2>3, <3>1 DEF LoopInv
    <3>3. \E l \in DOMAIN hash[b] : e = hash[b][l]
      BY <2>1, <2>4, <2>a DEF LoopInv
    <3> QED
      BY <3>2, <3>3 DEF Owners
  <2>9. \A m \in Node, j \in Slots : r.tab[m][j] \in {s.tab[m][j], NoAddr}
    BY <2>6
  <2>10. \A m \in Node, j \in Slots : r.tab[m][j] \in {addrTab[m][j], NoAddr}
    BY <2>9 DEF LoopInv
  <2>11. ASSUME NEW m \in Node \ {n} PROVE r.tab[m][0] = addrTab[m][0]
    <3>1. s.tab[m][0] = addrTab[m][0] /\ 0 \in Slots
      BY SlotsNat DEF LoopInv
    <3>2. e # <<m, 0>>
      <4> SUFFICES ASSUME e = <<m, 0>> PROVE FALSE
        OBVIOUS
      <4>1. addrTab[m][0] = b /\ b # NoAddr
        BY <2>1, <2>6, <3>1, NoAddrNotNode
      <4>2. b = m /\ b \notin Alias
        BY <4>1, AddrAssumption DEF HashInv
      <4>3. CASE i = 0
        BY <2>1, <4>1, <4>2, <4>3 DEF HashInv
      <4>4. CASE i # 0
        <5>1. b \in (Alias \ MyAliases) \cup {NoAddr}
          BY <1>2, <2>1, <4>4 DEF HashInv
        <5> QED
          BY <4>1, <4>2, <5>1
      <4> QED
        BY <4>3, <4>4
    <3> QED
      BY <2>6, <3>1, <3>2
  <2>12. ASSUME NEW m \in Node \ {n}, NEW j \in Slots, r.tab[m][j] # addrTab[m][j]
         PROVE  \E x \in Covered(n) : m \in Owners(x)
    <3>1. CASE s.tab[m][j] # addrTab[m][j]
      BY <3>1 DEF LoopInv
    <3>2. CASE s.tab[m][j] = addrTab[m][j]
      <4>1. e = <<m, j>>
        BY <2>6, <2>12, <3>2
      <4>2. e[1] = m /\ e[1] # n
        BY <4>1
      <4> QED
        BY <2>8, <4>2
    <3> QED
      BY <3>1, <3>2
  <2>13. ASSUME NEW a \in Addr, NEW l \in DOMAIN r.hash[a]
         PROVE  /\ \E p \in DOMAIN s.hash[a] : r.hash[a][l] = s.hash[a][p]
                /\ \E p \in DOMAIN hash[a] : r.hash[a][l] = hash[a][p]
    <3>1. \E p \in DOMAIN s.hash[a] : r.hash[a][l] = s.hash[a][p]
      <4>1. CASE a = b
        <5> DEFINE t == Tail(s.hash[b])
        <5>1. r.hash[a] = t
          BY <2>6, <4>1
        <5>2. \A q \in DOMAIN t : q + 1 \in DOMAIN s.hash[b] /\ t[q] = s.hash[b][q + 1]
          BY <2>2, <2>4
        <5> HIDE DEF t
        <5> QED
          BY <2>13, <4>1, <5>1, <5>2
      <4>2. CASE a # b
        <5>1. r.hash[a] = s.hash[a]
          BY <2>6, <4>2
        <5> QED
          BY <2>13, <5>1
      <4> QED
        BY <4>1, <4>2
    <3> QED
      BY <3>1 DEF LoopInv
  <2>14. ASSUME NEW a \in (Addr \ lost) \ Covered(n), NEW l \in DOMAIN r.hash[a], r.hash[a][l][1] = n
         PROVE  l = 1
    <3>1. CASE a = b
      <4> DEFINE t == Tail(s.hash[b])
      <4>1. r.hash[a] = t
        BY <2>6, <3>1
      <4>2. \A q \in DOMAIN t : q + 1 \in DOMAIN s.hash[b] /\ t[q] = s.hash[b][q + 1] /\ q + 1 # 1
        BY <2>2, <2>4
      <4> HIDE DEF t
      <4> QED
        BY <2>14, <3>1, <4>1, <4>2 DEF LoopInv
    <3>2. CASE a # b
      <4>1. r.hash[a] = s.hash[a]
        BY <2>6, <3>2
      <4> QED
        BY <2>14, <4>1 DEF LoopInv
    <3> QED
      BY <3>1, <3>2
  <2>15. \A a \in Addr \ lost : Matches(r.tab, r.hash, a)
    BY <2>6 DEF LoopInv
  <2>16. LoopInv(r, n)
    BY <2>6, <2>10, <2>11, <2>12, <2>13, <2>14, <2>15 DEF LoopInv
  <2>17. r.tab[n][i] \in Covered(n) \cup {NoAddr}
    <3>1. CASE e[1] = n
      <4>1. b \notin Covered(n) => k = 1
        BY <2>1, <2>3 DEF LoopInv
      <4>2. b \notin Covered(n) => e = <<n, i>>
        BY <2>3, <4>1 DEF e
      <4> QED
        BY <1>2, <2>6, <4>2 DEF b
    <3>2. CASE e[1] # n
      BY <1>2, <2>8, <2>9, <3>2 DEF b
    <3> QED
      BY <3>1, <3>2
  <2> QED
    BY <2>5, <2>9, <2>16, <2>17
<1> QED
  BY <1>1, <1>2

\* tc_remove_node's loop takes the node out of the slots of every address but
\* the covered ones.
LEMMA LoopEnd ==
    ASSUME TcTypeOK, HashInv, NEW n \in Node, \A j \in Slots : addrTab[n][j] \notin lost
    PROVE  /\ LoopInv(RmvAllSlots(n), n)
           /\ \A j \in Slots : RmvAllSlots(n).tab[n][j] \in Covered(n) \cup {NoAddr}
<1> DEFINE s0 == [tab |-> addrTab, hash |-> hash]
           s1 == RmvSlot(s0, n, 0)
           s2 == RmvSlot(s1, n, 1)
           s3 == RmvSlot(s2, n, 2)
           s4 == RmvSlot(s3, n, 3)
           s5 == RmvSlot(s4, n, 4)
           Free(s, j) == j \in Slots => s.tab[n][j] \in Covered(n) \cup {NoAddr}
           Clears(s, r) == \A j \in Slots : r.tab[n][j] \in {s.tab[n][j], NoAddr}
<1>0. RmvAllSlots(n) = s5
  BY DEF RmvAllSlots
<1>1. LoopInv(s0, n)
  BY LoopStart
<1> HIDE DEF s0
<1>2. LoopInv(s1, n) /\ Free(s1, 0)
  BY <1>1, LoopStep
<1> HIDE DEF s1
<1>3. LoopInv(s2, n) /\ Free(s2, 1) /\ Clears(s1, s2)
  BY <1>2, LoopStep
<1> HIDE DEF s2
<1>4. LoopInv(s3, n) /\ Free(s3, 2) /\ Clears(s2, s3)
  BY <1>3, LoopStep
<1> HIDE DEF s3
<1>5. LoopInv(s4, n) /\ Free(s4, 3) /\ Clears(s3, s4)
  BY <1>4, LoopStep
<1> HIDE DEF s4
<1>6. LoopInv(s5, n) /\ Free(s5, 4) /\ Clears(s4, s5)
  BY <1>5, LoopStep
<1> HIDE DEF s5
<1>7. \A j \in Slots : j \in {0, 1, 2, 3, 4}
  BY SizeAssumption DEF Slots
<1>8. ASSUME NEW j \in Slots PROVE s5.tab[n][j] \in Covered(n) \cup {NoAddr}
  <2>1. CASE j = 4
    BY <1>6, <2>1
  <2>2. CASE j = 3
    BY <1>5, <1>6, <2>2
  <2>3. CASE j = 2
    BY <1>4, <1>5, <1>6, <2>3
  <2>4. CASE j = 1
    BY <1>3, <1>4, <1>5, <1>6, <2>4
  <2>5. CASE j = 0
    BY <1>2, <1>3, <1>4, <1>5, <1>6, <2>5
  <2> QED
    BY <1>7, <2>1, <2>2, <2>3, <2>4, <2>5
<1> QED
  BY <1>0, <1>6, <1>8

\* The commands that leave the nodes and the hash alone.
LEMMA HashSame ==
    ASSUME HashInv, nodes' = nodes, addrTab' = addrTab, hash' = hash, lost' = lost
    PROVE  HashInv'
BY DEF HashInv

\* What ADD_NODE, REMOVE_NODE, ADD_ALIAS and REMOVE_ALIAS leave of the hash: it
\* still matches the tables, and only the table of the command's node and of
\* nodes that are disputed from then on has changed.
LEMMA AddNodeHash ==
    ASSUME TcTypeOK, HashInv, NEW n \in Node, n \notin nodes, ADD_NODE(n)
    PROVE  /\ HashInv'
           /\ nodes' = nodes \cup {n} /\ links' = links
           /\ localAddr' = localAddr /\ localLinks' = localLinks /\ disputed' = disputed
           /\ \A m \in Node : m # n => addrTab'[m] = addrTab[m]
<1>1. /\ tc_get_node(n) = NoAddr /\ hash[n] = <<>>
      /\ n \in Addr /\ n # NoAddr /\ n \notin Alias /\ 0 \in Slots
  BY MainAddress, NoAddrNotNode, SlotsNat, AddrAssumption
<1>2. /\ addrTab' = [addrTab EXCEPT ![n] = [EmptyTab EXCEPT ![0] = n]]
      /\ hash' = [hash EXCEPT ![n] = << <<n, 0>> >> \o @]
      /\ nodes' = nodes \cup {n} /\ links' = links
      /\ localAddr' = localAddr /\ localLinks' = localLinks
      /\ lost' = lost /\ disputed' = disputed
  BY <1>1 DEF ADD_NODE, tc_add_node, history
<1>3. << <<n, 0>> >> \o hash[n] = << <<n, 0>> >>
  BY <1>1
<1>4. \A q \in Addr : hash'[q] = IF q = n THEN << <<n, 0>> >> ELSE hash[q]
  BY <1>2, <1>3 DEF TcTypeOK
<1>5. /\ \A m \in Node : m # n => addrTab'[m] = addrTab[m]
      /\ \A i \in Slots : addrTab'[n][i] = IF i = 0 THEN n ELSE NoAddr
  BY <1>2 DEF TcTypeOK, EmptyTab
<1>6. \A i \in Slots : addrTab[n][i] \notin Addr \ lost
  <2> SUFFICES ASSUME NEW i \in Slots, addrTab[n][i] \in Addr \ lost PROVE FALSE
    OBVIOUS
  <2>1. i # 0
    BY NoAddrNotNode DEF HashInv
  <2> QED
    BY <2>1 DEF HashInv
<1>7. ASSUME NEW a \in Addr \ lost PROVE Matches(addrTab', hash', a)
  <2>1. CASE a = n
    <3>1. hash'[a] = << <<n, 0>> >> /\ addrTab'[n][0] = n
      BY <1>1, <1>4, <1>5, <2>1
    <3>2. ASSUME NEW m \in Node, NEW j \in Slots, addrTab'[m][j] = n PROVE m = n /\ j = 0
      <4>1. CASE m = n
        BY <1>1, <1>5, <3>2, <4>1
      <4>2. CASE m # n
        <5>1. addrTab[m][j] = n
          BY <1>5, <3>2, <4>2
        <5>2. \E i \in DOMAIN hash[n] : TRUE
          BY <1>7, <2>1, <5>1 DEF HashInv, Matches
        <5> QED
          BY <1>1, <5>2
      <4> QED
        BY <4>1, <4>2
    <3> QED
      BY <2>1, <3>1, <3>2 DEF Matches
  <2>2. CASE a # n
    <3>1. Matches(addrTab, hash, a) /\ hash'[a] = hash[a] /\ a # NoAddr
      BY <1>4, <2>2, NoAddrNotNode DEF HashInv
    <3>2. ASSUME NEW i \in DOMAIN hash'[a]
          PROVE  addrTab'[hash'[a][i][1]][hash'[a][i][2]] = a
      <4> DEFINE f == hash[a][i]
      <4>1. f[1] \in Node /\ f[2] \in Slots
        BY <3>1, EntryType DEF TcTypeOK
      <4>2. addrTab[f[1]][f[2]] = a
        BY <3>1 DEF Matches
      <4> HIDE DEF f
      <4>3. f[1] # n
        BY <1>6, <4>1, <4>2
      <4>4. addrTab'[f[1]][f[2]] = a
        BY <1>5, <4>1, <4>2, <4>3
      <4> QED
        BY <3>1, <4>4 DEF f
    <3>3. ASSUME NEW m \in Node, NEW j \in Slots, addrTab'[m][j] = a
          PROVE  \E i \in DOMAIN hash'[a] : hash'[a][i] = <<m, j>>
      <4>1. addrTab[m][j] = a
        BY <1>5, <2>2, <3>1, <3>3
      <4>2. PICK i \in DOMAIN hash[a] : hash[a][i] = <<m, j>>
        BY <3>1, <4>1 DEF Matches
      <4> QED
        BY <3>1, <4>2
    <3>4. \A i, j \in DOMAIN hash'[a] : hash'[a][i] = hash'[a][j] => i = j
      BY <3>1 DEF Matches
    <3> QED
      BY <3>2, <3>3, <3>4 DEF Matches
  <2> QED
    BY <2>1, <2>2
<1>8. \A m \in Node : addrTab'[m][0] = IF m \in nodes' THEN m ELSE NoAddr
  BY <1>1, <1>2, <1>5 DEF HashInv
<1>9. \A m \in Node, i \in Slots \ {0} : addrTab'[m][i] \in (Alias \ MyAliases) \cup {NoAddr}
  BY <1>5 DEF HashInv
<1>10. \A m \in Node, i \in Slots \ {0} : addrTab'[m][i] \in Addr \ lost => m \in nodes'
  BY <1>2, <1>5 DEF HashInv
<1>11. HashInv'
  BY <1>2, <1>7, <1>8, <1>9, <1>10 DEF HashInv
<1> QED
  BY <1>2, <1>5, <1>11

LEMMA RemoveNodeHash ==
    ASSUME TcTypeOK, HashInv, NEW n \in Node, n \in nodes, REMOVE_NODE(n)
    PROVE  /\ HashInv'
           /\ nodes' = nodes \ {n} /\ localAddr' = localAddr
           /\ links' = [e \in Node \X Node |-> IF n \in {e[1], e[2]} THEN 0 ELSE links[e]]
           /\ localLinks' = IF n = localAddr[0] THEN <<>> ELSE DropFirst(localLinks, n)
           /\ disputed \subseteq disputed'
           /\ \A m \in Node \ disputed' : m # n => addrTab'[m] = addrTab[m]
<1> DEFINE s == RmvAllSlots(n)
<1>1. tc_get_node(n) = n /\ n # NoAddr
  BY MainAddress, NoAddrNotNode
<1>2. /\ nodes' = nodes \ {n} /\ addrTab' = s.tab /\ hash' = s.hash
      /\ links' = [e \in Node \X Node |-> IF n \in {e[1], e[2]} THEN 0 ELSE links[e]]
      /\ localLinks' = IF n = localAddr[0] THEN <<>> ELSE DropFirst(localLinks, n)
      /\ localAddr' = localAddr
      /\ \A j \in Slots : addrTab[n][j] \notin lost
      /\ lost' = lost \cup Covered(n)
      /\ disputed' = disputed \cup Stripped(n)
  BY <1>1 DEF REMOVE_NODE, tc_remove_node
<1>3. /\ LoopInv(s, n)
      /\ \A j \in Slots : s.tab[n][j] \in Covered(n) \cup {NoAddr}
  BY <1>2, LoopEnd
<1> HIDE DEF s
<1>4. Covered(n) \subseteq Alias \ MyAliases
  <2> SUFFICES ASSUME NEW x \in Covered(n) PROVE x \in Alias \ MyAliases
    OBVIOUS
  <2>1. x \in Alias \ lost /\ hash[x] # <<>>
    BY DEF Covered
  <2> QED
    BY <2>1, LocalAlias
<1>5. \A a \in Addr \ lost' : Matches(addrTab', hash', a)
  BY <1>2, <1>3 DEF LoopInv
<1>6. \A m \in Node, j \in Slots : addrTab'[m][j] \in {addrTab[m][j], NoAddr}
  BY <1>2, <1>3 DEF LoopInv
<1>7. ASSUME NEW m \in Node PROVE addrTab'[m][0] = IF m \in nodes' THEN m ELSE NoAddr
  <2>1. CASE m = n
    <3>1. addrTab'[n][0] \in Covered(n) \cup {NoAddr} /\ addrTab'[n][0] \in {n, NoAddr}
      BY <1>2, <1>3, <1>6, SlotsNat DEF HashInv
    <3>2. n \notin Alias
      BY AddrAssumption
    <3> QED
      BY <1>2, <1>4, <2>1, <3>1, <3>2
  <2>2. CASE m # n
    BY <1>2, <1>3, <2>2 DEF LoopInv, HashInv
  <2> QED
    BY <2>1, <2>2
<1>8. \A m \in Node, i \in Slots \ {0} : addrTab'[m][i] \in (Alias \ MyAliases) \cup {NoAddr}
  BY <1>6 DEF HashInv
<1>9. ASSUME NEW m \in Node, NEW i \in Slots \ {0}, addrTab'[m][i] \in Addr \ lost'
      PROVE  m \in nodes'
  <2>1. addrTab'[m][i] = addrTab[m][i]
    BY <1>6, <1>9, NoAddrNotNode
  <2>2. m \in nodes
    BY <1>2, <1>9, <2>1 DEF HashInv
  <2>3. m # n
    BY <1>2, <1>3, <1>9, NoAddrNotNode
  <2> QED
    BY <1>2, <2>2, <2>3
<1>10. HashInv'
  <2>1. lost' \subseteq Alias \ MyAliases
    BY <1>2, <1>4 DEF HashInv
  <2> QED
    BY <1>5, <1>7, <1>8, <1>9, <2>1 DEF HashInv
<1>11. ASSUME NEW m \in Node \ disputed', m # n PROVE addrTab'[m] = addrTab[m]
  <2>1. addrTab'[m] \in TabType /\ addrTab[m] \in TabType
    BY <1>2, <1>3 DEF LoopInv, DbType, TcTypeOK, TabType
  <2>2. \A x \in Covered(n) : m \notin Owners(x)
    BY <1>2, <1>11 DEF Stripped
  <2>3. \A j \in Slots : addrTab'[m][j] = addrTab[m][j]
    BY <1>2, <1>3, <1>11, <2>2 DEF LoopInv
  <2> QED
    BY <2>1, <2>3 DEF TabType
<1> QED
  BY <1>2, <1>10, <1>11

LEMMA AddAliasHash ==
    ASSUME TcTypeOK, HashInv, NEW n \in nodes, NEW x \in Alias \ MyAliases, ADD_ALIAS(n, x)
    PROVE  /\ HashInv'
           /\ nodes' = nodes /\ links' = links /\ localAddr' = localAddr
           /\ localLinks' = RefreshFirst(localLinks, n, addrTab'[n])
           /\ disputed' = disputed
           /\ \A m \in Node : m # n => addrTab'[m] = addrTab[m]
<1>1. n \in Node /\ tc_get_node(n) = n /\ n # NoAddr /\ x \in Addr /\ x # NoAddr /\ x \notin Node
  BY MainAddress, NoAddrNotNode, AddrAssumption DEF TcTypeOK, Addr
<1>2. /\ tc_add_node_addr(n, x)
      /\ localLinks' = RefreshFirst(localLinks, n, addrTab'[n])
      /\ nodes' = nodes /\ links' = links /\ localAddr' = localAddr
      /\ lost' = lost /\ disputed' = disputed
  BY <1>1 DEF ADD_ALIAS, tc_add_alias, history
<1>3. CASE FreeSlots(addrTab[n]) = {}
  <2>1. addrTab' = addrTab /\ hash' = hash
    BY <1>2, <1>3 DEF tc_add_node_addr
  <2> QED
    BY <1>2, <2>1, HashSame
<1>4. CASE FreeSlots(addrTab[n]) # {}
  <2> DEFINE pos == Least(FreeSlots(addrTab[n]))
             l == hash[x]
             t == << <<n, pos>> >> \o l
  <2>1. pos \in Slots /\ pos # 0 /\ addrTab[n][pos] = NoAddr
    <3>1. pos \in FreeSlots(addrTab[n])
      BY <1>4, SlotsNat, LeastMember DEF FreeSlots
    <3> QED
      BY <3>1 DEF FreeSlots
  <2>2. /\ addrTab' = [addrTab EXCEPT ![n][pos] = x]
        /\ hash' = [hash EXCEPT ![x] = t]
    BY <1>2, <1>4 DEF tc_add_node_addr
  <2> HIDE DEF pos
  <2>3. l \in Seq(Node \X Slots) /\ Len(l) \in Nat /\ DOMAIN l = 1 .. Len(l)
    BY <1>1 DEF TcTypeOK
  <2>4. /\ DOMAIN t = 1 .. Len(l) + 1 /\ t[1] = <<n, pos>>
        /\ \A i \in DOMAIN t : i # 1 => i - 1 \in DOMAIN l /\ t[i] = l[i - 1]
        /\ \A i \in DOMAIN l : i + 1 \in DOMAIN t /\ t[i + 1] = l[i]
    BY <1>1, <2>1, <2>3
  <2> HIDE DEF t, l
  <2>5. \A q \in Addr : hash'[q] = IF q = x THEN t ELSE hash[q]
    BY <2>2 DEF TcTypeOK
  <2>6. /\ \A m \in Node : m # n => addrTab'[m] = addrTab[m]
        /\ \A m \in Node, i \in Slots :
              addrTab'[m][i] = IF m = n /\ i = pos THEN x ELSE addrTab[m][i]
    BY <1>1, <2>1, <2>2 DEF TcTypeOK
  <2>7. ASSUME NEW a \in Addr \ lost PROVE Matches(addrTab', hash', a)
    <3>1. Matches(addrTab, hash, a) /\ a # NoAddr
      BY NoAddrNotNode DEF HashInv
    <3>2. ASSUME NEW i \in DOMAIN hash[a]
          PROVE  hash[a][i] # <<n, pos>> /\ addrTab'[hash[a][i][1]][hash[a][i][2]] = a
      <4> DEFINE f == hash[a][i]
      <4>1. f[1] \in Node /\ f[2] \in Slots
        BY EntryType DEF TcTypeOK
      <4>2. addrTab[f[1]][f[2]] = a
        BY <3>1 DEF Matches
      <4> HIDE DEF f
      <4>3. ~(f[1] = n /\ f[2] = pos)
        BY <2>1, <3>1, <4>2
      <4>4. f # <<n, pos>> /\ addrTab'[f[1]][f[2]] = a
        BY <2>6, <4>1, <4>2, <4>3
      <4> QED
        BY <4>4 DEF f
    <3>3. CASE a # x
      <4>1. hash'[a] = hash[a]
        BY <2>5, <3>3
      <4>2. ASSUME NEW m \in Node, NEW j \in Slots, addrTab'[m][j] = a
            PROVE  \E i \in DOMAIN hash'[a] : hash'[a][i] = <<m, j>>
        <5>1. addrTab[m][j] = a
          BY <2>6, <3>3, <4>2
        <5>2. PICK i \in DOMAIN hash[a] : hash[a][i] = <<m, j>>
          BY <3>1, <5>1 DEF Matches
        <5> QED
          BY <4>1, <5>2
      <4>3. \A i, j \in DOMAIN hash'[a] : hash'[a][i] = hash'[a][j] => i = j
        BY <3>1, <4>1 DEF Matches
      <4> QED
        BY <3>2, <4>1, <4>2, <4>3 DEF Matches
    <3>4. CASE a = x
      <4>1. hash'[a] = t /\ hash[a] = l
        BY <2>5, <3>4 DEF l
      <4>2. ASSUME NEW i \in DOMAIN t, i # 1 PROVE t[i] # t[1]
        <5>1. i - 1 \in DOMAIN hash[a] /\ t[i] = hash[a][i - 1]
          BY <2>4, <4>1, <4>2
        <5> QED
          BY <2>4, <3>2, <5>1
      <4>3. \A i, j \in DOMAIN l : l[i] = l[j] => i = j
        BY <3>1, <4>1 DEF Matches
      <4>4. ASSUME NEW i \in DOMAIN t, NEW j \in DOMAIN t, t[i] = t[j] PROVE i = j
        <5>1. CASE i = 1 \/ j = 1
          BY <4>2, <4>4, <5>1, <2>4
        <5>2. CASE i # 1 /\ j # 1
          <6>1. i - 1 \in DOMAIN l /\ j - 1 \in DOMAIN l /\ l[i - 1] = l[j - 1]
            BY <2>4, <4>4, <5>2
          <6>2. i - 1 = j - 1 /\ i \in Nat /\ j \in Nat
            BY <2>3, <2>4, <4>3, <6>1
          <6> QED
            BY <6>2
        <5> QED
          BY <5>1, <5>2
      <4>5. ASSUME NEW i \in DOMAIN t PROVE addrTab'[t[i][1]][t[i][2]] = a
        <5>1. CASE i = 1
          BY <1>1, <2>1, <2>4, <2>6, <3>4, <5>1
        <5>2. CASE i # 1
          <6>1. i - 1 \in DOMAIN hash[a] /\ t[i] = hash[a][i - 1]
            BY <2>4, <4>1, <5>2
          <6> QED
            BY <3>2, <6>1
        <5> QED
          BY <5>1, <5>2
      <4>6. ASSUME NEW m \in Node, NEW j \in Slots, addrTab'[m][j] = a
            PROVE  \E i \in DOMAIN t : t[i] = <<m, j>>
        <5>1. CASE m = n /\ j = pos
          <6>1. 1 \in DOMAIN t
            BY <2>3, <2>4
          <6> QED
            BY <2>4, <5>1, <6>1
        <5>2. CASE ~(m = n /\ j = pos)
          <6>1. addrTab[m][j] = a
            BY <2>6, <4>6, <5>2
          <6>2. PICK i \in DOMAIN l : l[i] = <<m, j>>
            BY <3>1, <4>1, <6>1 DEF Matches
          <6> QED
            BY <2>4, <6>2
        <5> QED
          BY <5>1, <5>2
      <4> QED
        BY <4>1, <4>4, <4>5, <4>6 DEF Matches
    <3> QED
      BY <3>3, <3>4
  <2>8. \A m \in Node : addrTab'[m][0] = IF m \in nodes' THEN m ELSE NoAddr
    BY <1>2, <2>1, <2>6, SlotsNat DEF HashInv
  <2>9. \A m \in Node, i \in Slots \ {0} : addrTab'[m][i] \in (Alias \ MyAliases) \cup {NoAddr}
    BY <2>6 DEF HashInv
  <2>10. \A m \in Node, i \in Slots \ {0} : addrTab'[m][i] \in Addr \ lost => m \in nodes'
    BY <1>2, <2>6 DEF HashInv
  <2>11. HashInv'
    BY <1>2, <2>7, <2>8, <2>9, <2>10 DEF HashInv
  <2> QED
    BY <1>2, <2>6, <2>11
<1> QED
  BY <1>3, <1>4

LEMMA RemoveAliasHash ==
    ASSUME TcTypeOK, HashInv, NEW n \in nodes, NEW x \in Alias \ MyAliases, REMOVE_ALIAS(n, x)
    PROVE  /\ HashInv'
           /\ nodes' = nodes /\ links' = links /\ localAddr' = localAddr
           /\ localLinks' = RefreshFirst(localLinks, n, addrTab'[n])
           /\ disputed \subseteq disputed'
           /\ \A m \in Node \ disputed' : m # n => addrTab'[m] = addrTab[m]
<1> DEFINE s0 == [tab |-> addrTab, hash |-> hash]
           s == tc_rmv_node_addr(s0, x)
<1>1. n \in Node /\ tc_get_node(n) = n /\ n # NoAddr /\ x \in Addr /\ x # NoAddr /\ x \notin Node
  BY MainAddress, NoAddrNotNode, AddrAssumption DEF TcTypeOK, Addr
<1>2. /\ addrTab' = s.tab /\ hash' = s.hash
      /\ localLinks' = RefreshFirst(localLinks, n, s.tab[n])
      /\ nodes' = nodes /\ links' = links /\ localAddr' = localAddr
      /\ x \notin lost /\ lost' = lost
      /\ disputed' = disputed \cup ({tc_get_node(x)} \ {n, NoAddr})
  BY <1>1 DEF REMOVE_ALIAS, tc_remove_alias
<1>3. DbType(s0) /\ s0.hash = hash /\ s0.tab = addrTab
  BY DEF DbType, TcTypeOK, TabType
<1> HIDE DEF s0
<1>4. CASE hash[x] = <<>>
  <2>1. s = s0
    BY <1>3, <1>4 DEF tc_rmv_node_addr
  <2>2. addrTab' = addrTab /\ hash' = hash
    BY <1>2, <1>3, <2>1
  <2> QED
    BY <1>2, <2>2, HashSame
<1>5. CASE hash[x] # <<>>
  <2> DEFINE e == hash[x][1]
  <2>1. e = s0.hash[x][1] /\ s = tc_rmv_node_addr(s0, x)
    BY <1>3
  <2>2. Matches(s0.tab, s0.hash, x)
    BY <1>1, <1>2, <1>3 DEF HashInv
  <2> HIDE DEF e, s
  <2>3. /\ DbType(s)
        /\ e \in Node \X Slots /\ s0.tab[e[1]][e[2]] = x
        /\ \A m \in Node, j \in Slots : s.tab[m][j] = IF e = <<m, j>> THEN NoAddr ELSE s0.tab[m][j]
        /\ \A q \in Addr : Matches(s0.tab, s0.hash, q) => Matches(s.tab, s.hash, q)
    BY <1>1, <1>3, <1>5, <2>1, <2>2, RmvAddrMatches
  <2>4. tc_get_node(x) = e[1] /\ e[1] \in Node /\ e[1] # NoAddr
    BY <1>5, <2>3, NoAddrNotNode DEF tc_get_node, e
  <2>5. e[2] # 0
    <3>1. e[2] = 0 => x \in Node \cup {NoAddr}
      BY <1>3, <2>3, <2>4 DEF HashInv
    <3> QED
      BY <1>1, <3>1
  <2>6. \A m \in Node, i \in Slots : addrTab'[m][i] = IF e = <<m, i>> THEN NoAddr ELSE addrTab[m][i]
    BY <1>2, <1>3, <2>3
  <2>7. ASSUME NEW m \in Node \ disputed', m # n PROVE addrTab'[m] = addrTab[m]
    <3>1. addrTab'[m] \in TabType /\ addrTab[m] \in TabType
      BY <1>2, <2>3 DEF DbType, TcTypeOK, TabType
    <3>2. e[1] # m
      BY <1>2, <2>4, <2>7
    <3>3. \A j \in Slots : addrTab'[m][j] = addrTab[m][j]
      BY <2>6, <3>2
    <3> QED
      BY <3>1, <3>3 DEF TabType
  <2>8. \A a \in Addr \ lost' : Matches(addrTab', hash', a)
    BY <1>2, <1>3, <2>3 DEF HashInv
  <2>9. \A m \in Node : addrTab'[m][0] = IF m \in nodes' THEN m ELSE NoAddr
    BY <1>2, <2>5, <2>6, SlotsNat DEF HashInv
  <2>10. \A m \in Node, i \in Slots \ {0} : addrTab'[m][i] \in (Alias \ MyAliases) \cup {NoAddr}
    BY <2>6 DEF HashInv
  <2>11. \A m \in Node, i \in Slots \ {0} : addrTab'[m][i] \in Addr \ lost => m \in nodes'
    BY <1>2, <2>6, NoAddrNotNode DEF HashInv
  <2>12. HashInv'
    BY <1>2, <2>8, <2>9, <2>10, <2>11 DEF HashInv
  <2> QED
    BY <1>2, <2>7, <2>12
<1> QED
  BY <1>4, <1>5

\* Taking out a node that is not there changes nothing.
LEMMA RemoveNoNode ==
    ASSUME TcTypeOK, HashInv, NEW n \in Node \ nodes, REMOVE_NODE(n)
    PROVE  UNCHANGED <<tcVars, history>>
<1>1. tc_get_node(n) = NoAddr /\ hash[n] = <<>>
  BY MainAddress
<1>2. Covered(n) = {}
  <2> SUFFICES ASSUME NEW x \in Covered(n) PROVE FALSE
    OBVIOUS
  <2>1. PICK i \in DOMAIN hash[x] : hash[x][i][1] = n
    BY DEF Covered
  <2>2. x \in Addr \ lost /\ x # NoAddr
    BY NoAddrNotNode DEF Covered, Addr
  <2>3. hash[x][i][2] \in Slots
    BY <2>1, <2>2, EntryType DEF TcTypeOK
  <2>4. addrTab[n][hash[x][i][2]] = x
    BY <2>1, <2>2 DEF HashInv, Matches
  <2> QED
    BY <2>2, <2>3, <2>4 DEF HashInv
<1> QED
  BY <1>1, <1>2 DEF REMOVE_NODE, Stripped, tc_remove_node, tcVars, history

LEMMA HashStep ==
    ASSUME TcTypeOK, HashInv, [Next]_vars
    PROVE  HashInv'
<1>1. CASE RESET_TC
  <2>1. /\ nodes' = {} /\ lost' = {} /\ \A a \in Addr : hash'[a] = <<>>
        /\ \A n \in Node, i \in Slots : addrTab'[n][i] = NoAddr
    BY <1>1 DEF RESET_TC, tc_free_data, EmptyTab
  <2> QED
    BY <2>1, SlotsNat, NoAddrNotNode DEF HashInv, Matches
<1>2. CASE SET_LOCAL_ADDR
  BY <1>2, HashSame DEF SET_LOCAL_ADDR, tc_set_local_addr, history
<1>3. ASSUME NEW x \in MyAliases, SET_ALIAS_ADDR(x) PROVE HashInv'
  BY <1>3, HashSame DEF SET_ALIAS_ADDR, tc_set_local_alias, history
<1>4. ASSUME NEW n \in Node, ADD_NODE(n) PROVE HashInv'
  <2>1. CASE n \in nodes
    <3>1. tc_get_node(n) # NoAddr
      BY <2>1, MainAddress, NoAddrNotNode
    <3> QED
      BY <1>4, <3>1, HashSame DEF ADD_NODE, tc_add_node, tcVars, history
  <2>2. CASE n \notin nodes
    BY <1>4, <2>2, AddNodeHash
  <2> QED
    BY <2>1, <2>2
<1>5. ASSUME NEW n \in Node, REMOVE_NODE(n) PROVE HashInv'
  <2>1. CASE n \notin nodes
    BY <1>5, <2>1, RemoveNoNode, HashSame DEF tcVars, history
  <2>2. CASE n \in nodes
    BY <1>5, <2>2, RemoveNodeHash
  <2> QED
    BY <2>1, <2>2
<1>6. ASSUME NEW n \in Node, NEW d \in Node, ADD_LINK(n, d) \/ REMOVE_LINK(n, d) PROVE HashInv'
  BY <1>6, HashSame DEF ADD_LINK, REMOVE_LINK, tc_add_link, tc_remove_link, history
<1>7. ASSUME NEW n \in Node, NEW x \in Alias \ MyAliases, ADD_ALIAS(n, x) \/ REMOVE_ALIAS(n, x)
      PROVE  HashInv'
  <2>1. CASE n \notin nodes
    <3>1. tc_get_node(n) = NoAddr
      BY <2>1, MainAddress
    <3> QED
      BY <1>7, <3>1, HashSame DEF ADD_ALIAS, REMOVE_ALIAS, tc_add_alias, tc_remove_alias, tcVars,
         history
  <2>2. CASE n \in nodes
    BY <1>7, <2>2, AddAliasHash, RemoveAliasHash
  <2> QED
    BY <2>1, <2>2
<1>8. ASSUME NEW dg \in Datagrams, hk_local_out_hook(dg[1], dg[2]) PROVE HashInv'
  BY <1>8, HashSame DEF hk_local_out_hook, history
<1>9. CASE pth_find_datagram_path_write
  BY <1>9, HashSame DEF pth_find_datagram_path_write, history
<1>10. CASE UNCHANGED vars
  BY <1>10, HashSame DEF vars
<1> QED
  BY <1>1, <1>2, <1>3, <1>4, <1>5, <1>6, <1>7, <1>8, <1>9, <1>10 DEF Next, handleRead

LEMMA HashInit ==
    ASSUME Init
    PROVE  HashInv
<1>1. /\ nodes = {} /\ lost = {} /\ \A a \in Addr : hash[a] = <<>>
      /\ \A n \in Node, i \in Slots : addrTab[n][i] = NoAddr
  BY DEF Init, tc_init_data, EmptyTab
<1> QED
  BY <1>1, SlotsNat, NoAddrNotNode DEF HashInv, Matches

\* Whatever nodes and aliases are announced and taken back, an alias twice or by
\* two nodes too, an entry of the address hash leads to a node of the list that
\* holds the address (ser_path_tc.c tc_add_node_addr, tc_rmv_node_addr,
\* tc_remove_node), but for the entries of the aliases in lost: those whose node
\* tc_remove_node took out while the node's entry was not the newest one.
THEOREM HashAlwaysSound == Spec => []HashSound
<1>1. Init => HashInv
  BY HashInit
<1>2. TypeOK /\ HashInv /\ [Next]_vars => HashInv'
  BY HashStep DEF TypeOK
<1>3. TypeOK /\ HashInv => HashSound
  BY HashExplained DEF TypeOK
<1> QED
  BY <1>1, <1>2, <1>3, TypeCorrect, PTL DEF Spec

-----------------------------------------------------------------------------
(* The local links *)

\* A neighbour has a local link for each of its links.
Enough(ls, lk, d) == Cardinality(LinksTo(ls, d)) >= lk[<<Me, d>>]

\* A neighbour with address table tab has at most one link and one local link,
\* which is there only with the link and has the address chosen from the table.
Tidy(ls, lk, la, tab, d) ==
    /\ lk[<<Me, d>>] <= 1
    /\ \A i, j \in DOMAIN ls : ls[i].dst = d /\ ls[j].dst = d => i = j
    /\ \A i \in DOMAIN ls : ls[i].dst = d => lk[<<Me, d>>] > 0 /\ ls[i].alias = LinkAlias(la, tab)

\* LocalLinksExact is inductive once every link is known to be between two nodes
\* of the list, a neighbour that is not disputed to have no second link, and the
\* local addresses to be complete before the first node comes.
LinksInv ==
    /\ localAddr[0] \in {NoAddr, Me}
    /\ nodes # {} => localAddr[0] = Me
    /\ \A n, d \in Node : Linked(n, d) => n \in nodes /\ d \in nodes
    /\ localAddr[0] # Me => localLinks = <<>>
    /\ \A d \in Node : Enough(localLinks, links, d)
    /\ \A d \in Node \ disputed : Tidy(localLinks, links, localAddr, addrTab[d], d)

LEMMA LinksExplained ==
    ASSUME LinksInv
    PROVE  LocalLinksExact
<1> SUFFICES ASSUME localAddr[0] = Me, NEW d \in Node \ disputed,
                    NEW i \in LinksTo(localLinks, d)
             PROVE  Linked(Me, d) /\ localLinks[i].alias = LinkAlias(localAddr, addrTab[d])
  <2>1. ASSUME localAddr[0] = Me, NEW d \in Node
        PROVE  Cardinality(LinksTo(localLinks, d)) >= links[<<Me, d>>]
    BY DEF LinksInv, Enough
  <2> QED
    BY <2>1 DEF LocalLinksExact, LinksInv
<1>1. Tidy(localLinks, links, localAddr, addrTab[d], d)
  BY DEF LinksInv
<1> QED
  BY <1>1 DEF Tidy, Linked, LinksTo

\* big is small with one more element, at index k.
Inserted(big, small, k) ==
    \E f \in [DOMAIN small -> DOMAIN big] :
        /\ \A i \in DOMAIN small : f[i] # k /\ small[i] = big[f[i]]
        /\ \A i, j \in DOMAIN small : f[i] = f[j] => i = j
        /\ \A j \in DOMAIN big : j # k => \E i \in DOMAIN small : f[i] = j

\* Dropping the first local link to d takes one element out.
LEMMA DropFirstInserted ==
    ASSUME NEW ls \in Seq(LocalLinkType), NEW d, LinksTo(ls, d) # {}
    PROVE  \E k \in DOMAIN ls : ls[k].dst = d /\ Inserted(ls, DropFirst(ls, d), k)
<1> DEFINE k == Least(LinksTo(ls, d))
           r == DropFirst(ls, d)
           At(i) == IF i < k THEN i ELSE i + 1
<1>1. k \in 1 .. Len(ls) /\ ls[k].dst = d
  BY FirstLink
<1>2. r = SubSeq(ls, 1, k - 1) \o SubSeq(ls, k + 1, Len(ls))
  BY DEF DropFirst, RemoveIdx
<1> HIDE DEF k, r
<1>3. Len(ls) \in Nat /\ DOMAIN ls = 1 .. Len(ls)
  OBVIOUS
<1>4. DOMAIN r = 1 .. Len(ls) - 1 /\ \A i \in 1 .. Len(ls) - 1 : r[i] = ls[At(i)]
  <2> DEFINE u == SubSeq(ls, 1, k - 1)
             v == SubSeq(ls, k + 1, Len(ls))
  <2>1. /\ u \in Seq(LocalLinkType) /\ Len(u) = k - 1
        /\ \A i \in 1 .. k - 1 : u[i] = ls[i]
    <3>1. 1 \in Int /\ k - 1 \in Int /\ \A i \in 1 .. k - 1 : ls[i] \in LocalLinkType
      BY <1>1, <1>3
    <3>2. /\ Len(u) = IF 1 <= k - 1 THEN (k - 1) - 1 + 1 ELSE 0
          /\ u \in Seq(LocalLinkType) /\ \A i \in 1 .. (k - 1) - 1 + 1 : u[i] = ls[1 + i - 1]
      BY <3>1, SubSeqProperties
    <3> HIDE DEF u
    <3> QED
      BY <1>1, <1>3, <3>2
  <2>2. /\ v \in Seq(LocalLinkType) /\ Len(v) = Len(ls) - k
        /\ \A i \in 1 .. Len(ls) - k : v[i] = ls[i + k]
    <3>1. k + 1 \in Int /\ Len(ls) \in Int /\ \A i \in k + 1 .. Len(ls) : ls[i] \in LocalLinkType
      BY <1>1, <1>3
    <3>2. /\ Len(v) = IF k + 1 <= Len(ls) THEN Len(ls) - (k + 1) + 1 ELSE 0
          /\ v \in Seq(LocalLinkType)
          /\ \A i \in 1 .. Len(ls) - (k + 1) + 1 : v[i] = ls[(k + 1) + i - 1]
      BY <3>1, SubSeqProperties
    <3>a. Len(v) = IF k + 1 <= Len(ls) THEN Len(ls) - (k + 1) + 1 ELSE 0
      BY <3>2
    <3> HIDE DEF v
    <3>3. \A i \in 1 .. Len(ls) - k : (k + 1) + i - 1 = i + k
      BY <1>1, <1>3
    <3>4. Len(v) = Len(ls) - k
      <4>1. k \in Int /\ Len(ls) \in Int /\ k <= Len(ls)
        BY <1>1, <1>3
      <4> QED
        BY <3>a, <4>1
    <3>5. Len(ls) - (k + 1) + 1 = Len(ls) - k
      BY <1>1, <1>3
    <3>6. \A i \in 1 .. Len(ls) - k : v[i] = ls[i + k]
      BY <3>2, <3>3, <3>5
    <3> QED
      BY <3>2, <3>4, <3>6
  <2>3. r = u \o v
    BY <1>2
  <2> HIDE DEF u, v
  <2>4. DOMAIN r = 1 .. Len(u) + Len(v)
    BY <2>1, <2>2, <2>3
  <2>5. \A i \in 1 .. Len(u) + Len(v) : r[i] = IF i <= Len(u) THEN u[i] ELSE v[i - Len(u)]
    BY <2>1, <2>2, <2>3
  <2>6. Len(u) + Len(v) = Len(ls) - 1
    BY <1>1, <1>3, <2>1, <2>2
  <2>7. ASSUME NEW i \in 1 .. Len(ls) - 1 PROVE r[i] = ls[At(i)]
    <3>1. CASE i < k
      BY <1>1, <1>3, <2>1, <2>5, <2>6, <3>1
    <3>2. CASE ~(i < k)
      <4>1. i - Len(u) \in 1 .. Len(ls) - k /\ (i - Len(u)) + k = i + 1 /\ ~(i <= Len(u))
        BY <1>1, <1>3, <2>1, <3>2
      <4> QED
        BY <2>2, <2>5, <2>6, <3>2, <4>1
    <3> QED
      BY <3>1, <3>2
  <2> QED
    BY <2>4, <2>6, <2>7
<1>5. \A i \in DOMAIN r : At(i) \in DOMAIN ls /\ At(i) # k
  BY <1>1, <1>3, <1>4
<1>6. \A i, j \in DOMAIN r : At(i) = At(j) => i = j
  BY <1>1, <1>3, <1>4
<1>7. ASSUME NEW j \in DOMAIN ls, j # k
      PROVE  \E i \in DOMAIN r : At(i) = j
  <2>1. CASE j < k
    BY <1>1, <1>3, <1>4, <2>1
  <2>2. CASE j > k
    <3>1. j - 1 \in DOMAIN r /\ At(j - 1) = j
      BY <1>1, <1>3, <1>4, <2>2
    <3> QED
      BY <3>1
  <2> QED
    BY <1>1, <1>3, <1>7, <2>1, <2>2
<1>8. Inserted(ls, r, k)
  <2> DEFINE f == [i \in DOMAIN r |-> At(i)]
  <2> HIDE DEF At
  <2>1. f \in [DOMAIN r -> DOMAIN ls] /\ \A i \in DOMAIN r : f[i] = At(i)
    BY <1>5
  <2> HIDE DEF f
  <2>2. /\ \A i \in DOMAIN r : f[i] # k /\ r[i] = ls[f[i]]
        /\ \A i, j \in DOMAIN r : f[i] = f[j] => i = j
        /\ \A j \in DOMAIN ls : j # k => \E i \in DOMAIN r : f[i] = j
    BY <1>4, <1>5, <1>6, <1>7, <2>1
  <2> QED
    BY <2>1, <2>2 DEF Inserted
<1> QED
  BY <1>1, <1>3, <1>8 DEF r

\* So does taking the head off a list of local links.
LEMMA HeadInserted ==
    ASSUME NEW ls \in Seq(LocalLinkType), NEW l \in LocalLinkType
    PROVE  /\ <<l>> \o ls \in Seq(LocalLinkType) /\ 1 \in DOMAIN (<<l>> \o ls)
           /\ (<<l>> \o ls)[1] = l
           /\ Inserted(<<l>> \o ls, ls, 1)
<1> DEFINE big == <<l>> \o ls
           f == [i \in DOMAIN ls |-> i + 1]
<1>1. /\ big \in Seq(LocalLinkType) /\ 1 \in DOMAIN big /\ big[1] = l
      /\ Len(ls) \in Nat /\ DOMAIN ls = 1 .. Len(ls) /\ DOMAIN big = 1 .. Len(ls) + 1
      /\ \A i \in DOMAIN ls : big[i + 1] = ls[i]
  OBVIOUS
<1> HIDE DEF big
<1>2. f \in [DOMAIN ls -> DOMAIN big]
  BY <1>1
<1>3. \A i \in DOMAIN ls : f[i] # 1 /\ ls[i] = big[f[i]]
  BY <1>1
<1>4. \A i, j \in DOMAIN ls : f[i] = f[j] => i = j
  BY <1>1
<1>5. ASSUME NEW j \in DOMAIN big, j # 1 PROVE \E i \in DOMAIN ls : f[i] = j
  <2>1. j - 1 \in DOMAIN ls /\ f[j - 1] = j
    BY <1>1, <1>5
  <2> QED
    BY <2>1
<1>6. Inserted(big, ls, 1)
  <2> HIDE DEF f
  <2> QED
    BY <1>2, <1>3, <1>4, <1>5 DEF Inserted
<1> QED
  BY <1>1, <1>6 DEF big

\* The number of local links to a node, with and without the one element.
LEMMA InsertedCount ==
    ASSUME NEW big \in Seq(LocalLinkType), NEW small, NEW k \in DOMAIN big,
           Inserted(big, small, k), NEW e
    PROVE  /\ Cardinality(LinksTo(small, e)) \in Nat
           /\ Cardinality(LinksTo(big, e)) =
                 Cardinality(LinksTo(small, e)) + (IF big[k].dst = e THEN 1 ELSE 0)
<1> DEFINE S == LinksTo(small, e)
           T == LinksTo(big, e) \ {k}
<1>1. PICK f \in [DOMAIN small -> DOMAIN big] :
        /\ \A i \in DOMAIN small : f[i] # k /\ small[i] = big[f[i]]
        /\ \A i, j \in DOMAIN small : f[i] = f[j] => i = j
        /\ \A j \in DOMAIN big : j # k => \E i \in DOMAIN small : f[i] = j
  BY DEF Inserted
<1>2. S \subseteq DOMAIN small /\ LinksTo(big, e) \subseteq DOMAIN big
  BY DEF LinksTo
<1>3. IsFiniteSet(LinksTo(big, e)) /\ IsFiniteSet(T)
  <2>1. DOMAIN big = 1 .. Len(big) /\ Len(big) \in Int /\ 1 \in Int
    OBVIOUS
  <2>2. IsFiniteSet(DOMAIN big)
    BY <2>1, FS_Interval
  <2>3. IsFiniteSet(LinksTo(big, e))
    BY <1>2, <2>2, FS_Subset
  <2> QED
    BY <2>3, FS_RemoveElement
<1> DEFINE g == [j \in T |-> CHOOSE i \in DOMAIN small : f[i] = j]
<1>4. ASSUME NEW j \in T PROVE g[j] \in S /\ f[g[j]] = j
  <2>1. j \in DOMAIN big /\ j # k /\ big[j].dst = e
    BY DEF LinksTo
  <2>2. \E i \in DOMAIN small : f[i] = j
    BY <1>1, <2>1
  <2>3. g[j] \in DOMAIN small /\ f[g[j]] = j
    BY <2>2
  <2> HIDE DEF g
  <2> QED
    BY <1>1, <2>1, <2>3 DEF LinksTo
<1>5. g \in [T -> S]
  BY <1>4
<1> HIDE DEF g
<1>6. \A i \in S : f[i] \in T /\ g[f[i]] = i
  <2> SUFFICES ASSUME NEW i \in S PROVE f[i] \in T /\ g[f[i]] = i
    OBVIOUS
  <2>1. i \in DOMAIN small /\ small[i].dst = e
    BY DEF LinksTo
  <2>2. f[i] \in T
    BY <1>1, <2>1 DEF LinksTo
  <2>3. g[f[i]] \in DOMAIN small /\ f[g[f[i]]] = f[i]
    BY <1>2, <1>4, <2>2
  <2> QED
    BY <1>1, <2>1, <2>2, <2>3
<1>7. g \in Bijection(T, S)
  <2> HIDE DEF S, T
  <2>1. \A a, b \in T : g[a] = g[b] => a = b
    BY <1>4
  <2>2. \A i \in S : \E j \in T : g[j] = i
    BY <1>6
  <2> QED
    BY <1>5, <2>1, <2>2 DEF Bijection, Injection, Surjection, IsInjective
<1>8. Cardinality(S) = Cardinality(T) /\ Cardinality(T) \in Nat
  <2> HIDE DEF S, T
  <2>1. ExistsBijection(T, S)
    BY <1>7 DEF ExistsBijection
  <2> QED
    BY <1>3, <2>1, FS_Bijection, FS_CardinalityType
<1>9. Cardinality(T) = IF k \in LinksTo(big, e) THEN Cardinality(LinksTo(big, e)) - 1
                                               ELSE Cardinality(LinksTo(big, e))
  BY <1>3, FS_RemoveElement
<1>10. k \in LinksTo(big, e) <=> big[k].dst = e
  BY DEF LinksTo
<1>11. Cardinality(LinksTo(big, e)) \in Nat
  BY <1>3, FS_CardinalityType
<1> HIDE DEF S, T
<1>12. Cardinality(S) \in Nat
         /\ Cardinality(LinksTo(big, e)) = Cardinality(S) + (IF big[k].dst = e THEN 1 ELSE 0)
  BY <1>8, <1>9, <1>10, <1>11
<1> QED
  BY <1>12 DEF S

\* Refreshing the first local link to d leaves every other one, and where each
\* of them leads.
LEMMA RefreshFirstFacts ==
    ASSUME NEW ls \in Seq(LocalLinkType), NEW d, NEW tab
    PROVE  /\ DOMAIN RefreshFirst(ls, d, tab) = DOMAIN ls
           /\ \A i \in DOMAIN ls : RefreshFirst(ls, d, tab)[i].dst = ls[i].dst
           /\ \A i \in DOMAIN ls : ls[i].dst # d => RefreshFirst(ls, d, tab)[i] = ls[i]
           /\ (\A i, j \in DOMAIN ls : ls[i].dst = d /\ ls[j].dst = d => i = j) =>
                 \A i \in DOMAIN ls : ls[i].dst = d =>
                    RefreshFirst(ls, d, tab)[i] = tc_update_local_link(d, tab)
<1>1. CASE LinksTo(ls, d) = {}
  BY <1>1 DEF LinksTo, RefreshFirst
<1>2. CASE LinksTo(ls, d) # {}
  <2> DEFINE k == Least(LinksTo(ls, d))
  <2>1. k \in 1 .. Len(ls) /\ ls[k].dst = d
    BY <1>2, FirstLink
  <2>2. RefreshFirst(ls, d, tab) = [ls EXCEPT ![k] = tc_update_local_link(d, tab)]
    BY <1>2 DEF RefreshFirst
  <2>3. tc_update_local_link(d, tab).dst = d
    BY DEF tc_update_local_link
  <2> HIDE DEF k
  <2> QED
    BY <2>1, <2>2, <2>3
<1> QED
  BY <1>1, <1>2

LEMMA LinksSame ==
    ASSUME LinksInv, nodes' = nodes, links' = links, addrTab' = addrTab,
           localAddr' = localAddr, localLinks' = localLinks, disputed \subseteq disputed'
    PROVE  LinksInv'
BY DEF LinksInv, Linked

\* While there is no node there is no link.
LEMMA NoNodeNoLink ==
    ASSUME TcTypeOK, LinksInv, nodes = {}
    PROVE  \A n, d \in Node : links[<<n, d>>] = 0
<1> SUFFICES ASSUME NEW n \in Node, NEW d \in Node PROVE links[<<n, d>>] = 0
  OBVIOUS
<1>1. ~(links[<<n, d>>] > 0)
  BY DEF LinksInv, Linked
<1>2. links[<<n, d>>] \in Nat
  BY DEF TcTypeOK
<1> QED
  BY <1>1, <1>2

\* An empty list of local links is right for no link.
LEMMA NoLinksRight ==
    ASSUME NEW lk, NEW la, NEW tab, NEW d, lk[<<Me, d>>] = 0
    PROVE  Enough(<<>>, lk, d) /\ Tidy(<<>>, lk, la, tab, d)
<1>1. LinksTo(<<>>, d) = {}
  BY DEF LinksTo
<1> QED
  BY <1>1, FS_EmptySet DEF Enough, Tidy

LEMMA ResetLinks ==
    ASSUME RESET_TC
    PROVE  LinksInv'
<1>1. /\ nodes' = {} /\ localLinks' = <<>> /\ localAddr'[0] = NoAddr
      /\ \A n, d \in Node : links'[<<n, d>>] = 0
  BY SlotsNat DEF RESET_TC, tc_free_data, EmptyTab
<1>2. Me \in Node
  BY AddrAssumption
<1>3. \A d \in Node : Enough(localLinks', links', d) /\ Tidy(localLinks', links', localAddr', addrTab'[d], d)
  BY <1>1, <1>2, NoLinksRight
<1> QED
  BY <1>1, <1>3 DEF LinksInv, Linked

\* The local addresses change while there are no nodes.
LEMMA LocalAddrLinks ==
    ASSUME TcTypeOK, LinksInv, nodes = {}, nodes' = nodes, links' = links, addrTab' = addrTab,
           localLinks' = localLinks, disputed' = disputed, localAddr'[0] = Me,
           localAddr[0] # Me \/ \A d \in Node \ disputed : LinksTo(localLinks, d) = {}
    PROVE  LinksInv'
<1>1. \A n, d \in Node : links[<<n, d>>] = 0
  BY NoNodeNoLink
<1>2. Me \in Node
  BY AddrAssumption
<1>3. ASSUME NEW d \in Node \ disputed
      PROVE  Tidy(localLinks', links', localAddr', addrTab'[d], d)
  <2>1. LinksTo(localLinks, d) = {}
    BY DEF LinksInv, LinksTo
  <2>2. \A i \in DOMAIN localLinks : localLinks[i].dst # d
    BY <2>1 DEF LinksTo
  <2> QED
    BY <1>1, <1>2, <2>2 DEF Tidy
<1>4. \A n, d \in Node : ~(links'[<<n, d>>] > 0)
  <2>1. ASSUME NEW n \in Node, NEW d \in Node PROVE ~(links'[<<n, d>>] > 0)
    <3>1. links'[<<n, d>>] = 0
      BY <1>1
    <3> QED
      BY <3>1
  <2> QED
    BY <2>1
<1>5. \A d \in Node : Enough(localLinks', links', d)
  BY DEF LinksInv
<1> QED
  BY <1>3, <1>4, <1>5 DEF LinksInv, Linked

LEMMA AddNodeLinks ==
    ASSUME TcTypeOK, HashInv, LinksInv, NEW n \in Node, ADD_NODE(n)
    PROVE  LinksInv'
<1>1. CASE n \in nodes
  <2>1. tc_get_node(n) # NoAddr
    BY <1>1, MainAddress, NoAddrNotNode
  <2> QED
    BY <2>1, LinksSame DEF ADD_NODE, tc_add_node, tcVars, history
<1>2. CASE n \notin nodes
  <2>1. /\ nodes' = nodes \cup {n} /\ links' = links
        /\ localAddr' = localAddr /\ localLinks' = localLinks /\ disputed' = disputed
        /\ \A m \in Node : m # n => addrTab'[m] = addrTab[m]
    BY <1>2, AddNodeHash
  <2>2. localAddr[0] = Me /\ Me \in Node
    BY AddrAssumption DEF ADD_NODE, PrologueDone
  <2>3. ASSUME NEW d \in Node \ disputed
        PROVE  Tidy(localLinks, links, localAddr, addrTab'[d], d)
    <3>1. Tidy(localLinks, links, localAddr, addrTab[d], d)
      BY DEF LinksInv
    <3>2. CASE d # n
      BY <2>1, <3>1, <3>2
    <3>3. CASE d = n
      <4>1. ~(links[<<Me, n>>] > 0)
        BY <1>2, <2>2 DEF LinksInv, Linked
      <4> QED
        BY <3>1, <3>3, <4>1 DEF Tidy
    <3> QED
      BY <3>2, <3>3
  <2>4. \A a, b \in Node : Linked(a, b)' => a \in nodes' /\ b \in nodes'
    BY <2>1 DEF LinksInv, Linked
  <2> QED
    BY <2>1, <2>2, <2>3, <2>4 DEF LinksInv
<1> QED
  BY <1>1, <1>2

\* Taking the first local link to d out, with one of its links or all of them.
LEMMA DropLinks ==
    ASSUME TcTypeOK, NEW d \in Node, NEW la, NEW tabs, NEW lk \in [Node \X Node -> Nat],
           \A e \in Node : Enough(localLinks, links, e),
           \A e \in Node \ {d} : lk[<<Me, e>>] = links[<<Me, e>>],
           lk[<<Me, d>>] = 0 \/ lk[<<Me, d>>] = links[<<Me, d>>] - 1
    PROVE  /\ \A e \in Node : Enough(DropFirst(localLinks, d), lk, e)
           /\ \A e \in Node : Tidy(localLinks, links, la, tabs[e], e) =>
                                 Tidy(DropFirst(localLinks, d), lk, la, tabs[e], e)
<1> DEFINE ls == localLinks
           r == DropFirst(ls, d)
<1>1. ls \in Seq(LocalLinkType) /\ Me \in Node /\ links \in [Node \X Node -> Nat]
  BY AddrAssumption DEF TcTypeOK, LocalLinkType
<1>2. \A e \in Node : lk[<<Me, e>>] \in Nat /\ links[<<Me, e>>] \in Nat
  BY <1>1
<1>3. CASE LinksTo(ls, d) = {}
  <2>1. r = ls
    BY <1>3 DEF DropFirst
  <2>2. Cardinality(LinksTo(ls, d)) = 0
    BY <1>3, FS_EmptySet
  <2>3. links[<<Me, d>>] = 0
    BY <1>2, <2>2 DEF Enough
  <2>4. lk[<<Me, d>>] = 0
    BY <1>2, <2>3
  <2>5. \A e \in Node : lk[<<Me, e>>] = links[<<Me, e>>]
    BY <2>3, <2>4
  <2> QED
    BY <2>1, <2>5 DEF Enough, Tidy
<1>4. CASE LinksTo(ls, d) # {}
  <2>1. PICK k \in DOMAIN ls : ls[k].dst = d /\ Inserted(ls, r, k)
    BY <1>1, <1>4, DropFirstInserted
  <2>2. PICK f \in [DOMAIN r -> DOMAIN ls] :
           /\ \A i \in DOMAIN r : f[i] # k /\ r[i] = ls[f[i]]
           /\ \A i, j \in DOMAIN r : f[i] = f[j] => i = j
    BY <2>1 DEF Inserted
  <2>3. \A e \in Node : /\ Cardinality(LinksTo(r, e)) \in Nat
                        /\ Cardinality(LinksTo(ls, e)) =
                              Cardinality(LinksTo(r, e)) + (IF d = e THEN 1 ELSE 0)
    <3> HIDE DEF r
    <3> SUFFICES ASSUME NEW e \in Node
                 PROVE  /\ Cardinality(LinksTo(r, e)) \in Nat
                        /\ Cardinality(LinksTo(ls, e)) =
                              Cardinality(LinksTo(r, e)) + (IF d = e THEN 1 ELSE 0)
      OBVIOUS
    <3>1. /\ Cardinality(LinksTo(r, e)) \in Nat
          /\ Cardinality(LinksTo(ls, e)) =
                Cardinality(LinksTo(r, e)) + (IF ls[k].dst = e THEN 1 ELSE 0)
      BY <1>1, <2>1, InsertedCount
    <3> QED
      BY <2>1, <3>1
  <2> HIDE DEF r, ls
  <2>4. ASSUME NEW e \in Node PROVE Enough(r, lk, e)
    <3>1. Cardinality(LinksTo(ls, e)) >= links[<<Me, e>>]
      BY DEF Enough, ls
    <3>2. CASE e = d
      BY <1>2, <2>3, <3>1, <3>2 DEF Enough
    <3>3. CASE e # d
      <4>1. Cardinality(LinksTo(r, e)) = Cardinality(LinksTo(ls, e))
        BY <2>3, <3>3
      <4> QED
        BY <3>1, <3>3, <4>1 DEF Enough
    <3> QED
      BY <3>2, <3>3
  <2>5. ASSUME NEW e \in Node, Tidy(ls, links, la, tabs[e], e)
        PROVE  Tidy(r, lk, la, tabs[e], e)
    <3>1. \A i, j \in DOMAIN ls : ls[i].dst = e /\ ls[j].dst = e => i = j
      BY <2>5 DEF Tidy
    <3>2. \A i, j \in DOMAIN r : r[i].dst = e /\ r[j].dst = e => i = j
      BY <2>2, <3>1
    <3>3. \A i \in DOMAIN r : r[i].dst = e => e # d
      BY <2>1, <2>2, <3>1
    <3>4. lk[<<Me, e>>] <= 1
      BY <1>2, <2>5 DEF Tidy
    <3>5. ASSUME NEW i \in DOMAIN r, r[i].dst = e
          PROVE  lk[<<Me, e>>] > 0 /\ r[i].alias = LinkAlias(la, tabs[e])
      <4>1. f[i] \in DOMAIN ls /\ r[i] = ls[f[i]] /\ e # d
        BY <2>2, <3>3, <3>5
      <4>2. links[<<Me, e>>] > 0 /\ ls[f[i]].alias = LinkAlias(la, tabs[e])
        BY <2>5, <3>5, <4>1 DEF Tidy
      <4> QED
        BY <4>1, <4>2
    <3> QED
      BY <3>2, <3>4, <3>5 DEF Tidy
  <2> QED
    BY <2>4, <2>5 DEF r, ls
<1> QED
  BY <1>3, <1>4

LEMMA RemoveNodeLinks ==
    ASSUME TcTypeOK, HashInv, LinksInv, NEW n \in Node, REMOVE_NODE(n)
    PROVE  LinksInv'
<1>1. CASE n \notin nodes
  BY <1>1, RemoveNoNode, LinksSame DEF tcVars, history
<1>2. CASE n \in nodes
  <2>1. /\ nodes' = nodes \ {n} /\ localAddr' = localAddr /\ disputed \subseteq disputed'
        /\ links' = [e \in Node \X Node |-> IF n \in {e[1], e[2]} THEN 0 ELSE links[e]]
        /\ localLinks' = IF n = localAddr[0] THEN <<>> ELSE DropFirst(localLinks, n)
        /\ \A m \in Node \ disputed' : m # n => addrTab'[m] = addrTab[m]
    BY <1>2, RemoveNodeHash
  <2>2. localAddr[0] = Me /\ Me \in Node
    BY AddrAssumption DEF REMOVE_NODE, PrologueDone
  <2>3. \A m, d \in Node : links'[<<m, d>>] = IF n = m \/ n = d THEN 0 ELSE links[<<m, d>>]
    BY <2>1
  <2>4. \A m, d \in Node : Linked(m, d)' => m \in nodes' /\ d \in nodes'
    BY <2>1, <2>3 DEF LinksInv, Linked
  <2>5. CASE n = Me
    <3>1. \A d \in Node : Enough(localLinks', links', d)
                          /\ Tidy(localLinks', links', localAddr', addrTab'[d], d)
      BY <2>1, <2>2, <2>3, <2>5, NoLinksRight
    <3> QED
      BY <2>1, <2>2, <2>4, <3>1 DEF LinksInv
  <2>6. CASE n # Me
    <3>1. links' \in [Node \X Node -> Nat]
      BY <2>1 DEF TcTypeOK
    <3>2. localLinks' = DropFirst(localLinks, n)
      BY <2>1, <2>2, <2>6
    <3>3. \A e \in Node \ {n} : links'[<<Me, e>>] = links[<<Me, e>>]
      BY <2>2, <2>3, <2>6
    <3>4. links'[<<Me, n>>] = 0
      BY <2>2, <2>3
    <3>5. \A e \in Node : Enough(localLinks, links, e)
      BY DEF LinksInv
    <3>6. /\ \A e \in Node : Enough(localLinks', links', e)
          /\ \A e \in Node : Tidy(localLinks, links, localAddr, addrTab[e], e) =>
                                Tidy(localLinks', links', localAddr, addrTab[e], e)
      BY <3>1, <3>2, <3>3, <3>4, <3>5, DropLinks
    <3>7. ASSUME NEW d \in Node \ disputed'
          PROVE  Tidy(localLinks', links', localAddr', addrTab'[d], d)
      <4>1. Tidy(localLinks', links', localAddr, addrTab[d], d)
        BY <2>1, <3>6 DEF LinksInv
      <4>2. CASE d # n
        BY <2>1, <4>1, <4>2
      <4>3. CASE d = n
        <5>1. ~(links'[<<Me, n>>] > 0) /\ links'[<<Me, n>>] <= 1
          BY <3>4
        <5>2. \A i \in DOMAIN localLinks' : localLinks'[i].dst # n
          BY <4>1, <4>3, <5>1 DEF Tidy
        <5> QED
          BY <4>3, <5>1, <5>2 DEF Tidy
      <4> QED
        BY <4>2, <4>3
    <3> QED
      BY <2>1, <2>2, <2>4, <3>6, <3>7 DEF LinksInv
  <2> QED
    BY <2>5, <2>6
<1> QED
  BY <1>1, <1>2

\* An alias that comes or goes refreshes the first local link to its node.
LEMMA AliasLinks ==
    ASSUME TcTypeOK, HashInv, LinksInv, NEW n \in Node, NEW x \in Alias \ MyAliases,
           ADD_ALIAS(n, x) \/ REMOVE_ALIAS(n, x)
    PROVE  LinksInv'
<1>1. CASE n \notin nodes
  <2>1. tc_get_node(n) = NoAddr
    BY <1>1, MainAddress
  <2> QED
    BY <1>1, <2>1, LinksSame DEF ADD_ALIAS, REMOVE_ALIAS, tc_add_alias, tc_remove_alias, tcVars,
       history
<1>2. CASE n \in nodes
  <2>1. /\ nodes' = nodes /\ links' = links /\ localAddr' = localAddr /\ disputed \subseteq disputed'
        /\ localLinks' = RefreshFirst(localLinks, n, addrTab'[n])
        /\ \A m \in Node \ disputed' : m # n => addrTab'[m] = addrTab[m]
    BY <1>2, AddAliasHash, RemoveAliasHash
  <2>2. localLinks \in Seq(LocalLinkType)
    BY DEF TcTypeOK, LocalLinkType
  <2>3. /\ DOMAIN localLinks' = DOMAIN localLinks
        /\ \A i \in DOMAIN localLinks : localLinks'[i].dst = localLinks[i].dst
        /\ \A i \in DOMAIN localLinks : localLinks[i].dst # n => localLinks'[i] = localLinks[i]
        /\ (\A i, j \in DOMAIN localLinks : localLinks[i].dst = n /\ localLinks[j].dst = n => i = j)
              => \A i \in DOMAIN localLinks : localLinks[i].dst = n =>
                    localLinks'[i] = tc_update_local_link(n, addrTab'[n])
    BY <2>1, <2>2, RefreshFirstFacts
  <2>4. ASSUME NEW d \in Node PROVE Enough(localLinks', links', d)
    <3>1. LinksTo(localLinks', d) = LinksTo(localLinks, d)
      BY <2>3 DEF LinksTo
    <3> QED
      BY <2>1, <3>1 DEF LinksInv, Enough
  <2>5. ASSUME NEW d \in Node \ disputed'
        PROVE  Tidy(localLinks', links', localAddr', addrTab'[d], d)
    <3>1. Tidy(localLinks, links, localAddr, addrTab[d], d)
      BY <2>1 DEF LinksInv
    <3>2. CASE d # n
      <4>1. addrTab'[d] = addrTab[d]
        BY <2>1, <3>2
      <4> QED
        BY <2>1, <2>3, <3>1, <3>2, <4>1 DEF Tidy
    <3>3. CASE d = n
      <4>1. tc_update_local_link(n, addrTab'[n]).alias = LinkAlias(localAddr, addrTab'[n])
        BY DEF tc_update_local_link
      <4>2. \A i \in DOMAIN localLinks : localLinks[i].dst = n =>
               localLinks'[i].alias = LinkAlias(localAddr, addrTab'[n])
        BY <2>3, <3>1, <3>3, <4>1 DEF Tidy
      <4> QED
        BY <2>1, <2>3, <3>1, <3>3, <4>2 DEF Tidy
    <3> QED
      BY <3>2, <3>3
  <2>6. localAddr[0] = Me
    BY DEF ADD_ALIAS, REMOVE_ALIAS, PrologueDone
  <2>7. \A a, b \in Node : Linked(a, b)' => a \in nodes' /\ b \in nodes'
    BY <2>1 DEF LinksInv, Linked
  <2> QED
    BY <2>1, <2>4, <2>5, <2>6, <2>7 DEF LinksInv
<1> QED
  BY <1>1, <1>2

LEMMA AddLinkLinks ==
    ASSUME TcTypeOK, HashInv, LinksInv, NEW n \in Node, NEW d \in Node, ADD_LINK(n, d)
    PROVE  LinksInv'
<1>1. /\ localAddr[0] = Me /\ Me \in Node
      /\ nodes' = nodes /\ addrTab' = addrTab /\ localAddr' = localAddr
      /\ disputed' = IF n = Me /\ Linked(Me, d) THEN disputed \cup {d} ELSE disputed
  BY AddrAssumption DEF ADD_LINK, PrologueDone, tc_add_link
<1>2. CASE n \notin nodes \/ d \notin nodes
  <2>1. tc_get_node(n) = NoAddr \/ tc_get_node(d) = NoAddr
    BY <1>2, MainAddress
  <2> QED
    BY <1>1, <2>1, LinksSame DEF ADD_LINK, tc_add_link
<1>3. CASE n \in nodes /\ d \in nodes
  <2> DEFINE l == tc_update_local_link(d, addrTab[d])
  <2>1. tc_get_node(n) = n /\ tc_get_node(d) = d /\ n # NoAddr /\ d # NoAddr
    BY <1>3, MainAddress, NoAddrNotNode
  <2>2. /\ localLinks' = IF n = Me THEN <<l>> \o localLinks ELSE localLinks
        /\ links' = [links EXCEPT ![<<n, d>>] = @ + 1]
    BY <1>1, <2>1 DEF ADD_LINK, tc_add_link
  <2>3. \A a, b \in Node : /\ links[<<a, b>>] \in Nat
                           /\ links'[<<a, b>>] = IF a = n /\ b = d THEN links[<<a, b>>] + 1
                                                                   ELSE links[<<a, b>>]
    BY <2>2 DEF TcTypeOK
  <2>4. \A a, b \in Node : Linked(a, b)' => a \in nodes' /\ b \in nodes'
    BY <1>1, <1>3, <2>3 DEF LinksInv, Linked
  <2>5. CASE n # Me
    <3>1. \A e \in Node : links'[<<Me, e>>] = links[<<Me, e>>]
      BY <1>1, <2>3, <2>5
    <3>2. localLinks' = localLinks /\ disputed' = disputed
      BY <1>1, <2>2, <2>5
    <3>3. \A e \in Node : Enough(localLinks', links', e)
      BY <3>1, <3>2 DEF LinksInv, Enough
    <3>4. \A e \in Node \ disputed' : Tidy(localLinks', links', localAddr', addrTab'[e], e)
      BY <1>1, <3>1, <3>2 DEF LinksInv, Tidy
    <3> QED
      BY <1>1, <2>4, <3>3, <3>4 DEF LinksInv
  <2>6. CASE n = Me
    <3>1. l.dst = d /\ l.alias = LinkAlias(localAddr, addrTab[d]) /\ l \in LocalLinkType
      BY LinkAliasType DEF tc_update_local_link, LocalLinkType, TcTypeOK, TabType
    <3> HIDE DEF l
    <3>2. localLinks' = <<l>> \o localLinks /\ localLinks \in Seq(LocalLinkType)
      BY <2>2, <2>6 DEF TcTypeOK, LocalLinkType
    <3>3. /\ localLinks' \in Seq(LocalLinkType) /\ 1 \in DOMAIN localLinks'
          /\ localLinks'[1] = l /\ Inserted(localLinks', localLinks, 1)
      BY <3>1, <3>2, HeadInserted
    <3>4. PICK f \in [DOMAIN localLinks -> DOMAIN localLinks'] :
             /\ \A i \in DOMAIN localLinks : localLinks[i] = localLinks'[f[i]]
             /\ \A i, j \in DOMAIN localLinks : f[i] = f[j] => i = j
             /\ \A j \in DOMAIN localLinks' : j # 1 => \E i \in DOMAIN localLinks : f[i] = j
      BY <3>3 DEF Inserted
    <3>5. \A e \in Node : /\ Cardinality(LinksTo(localLinks, e)) \in Nat
                          /\ Cardinality(LinksTo(localLinks', e)) =
                                Cardinality(LinksTo(localLinks, e)) + (IF d = e THEN 1 ELSE 0)
      BY <3>1, <3>3, InsertedCount
    <3>6. ASSUME NEW e \in Node PROVE Enough(localLinks', links', e)
      <4>1. Cardinality(LinksTo(localLinks, e)) >= links[<<Me, e>>] /\ links[<<Me, e>>] \in Nat
        BY <1>1, <2>3 DEF LinksInv, Enough
      <4>2. links'[<<Me, e>>] = links[<<Me, e>>] + (IF d = e THEN 1 ELSE 0)
        BY <1>1, <2>3, <2>6
      <4> QED
        BY <3>5, <4>1, <4>2 DEF Enough
    <3>7. ASSUME NEW e \in Node \ disputed'
          PROVE  Tidy(localLinks', links', localAddr', addrTab'[e], e)
      <4>1. Tidy(localLinks, links, localAddr, addrTab[e], e)
        BY <1>1 DEF LinksInv
      <4>2. ASSUME NEW j \in DOMAIN localLinks', j # 1
            PROVE  \E i \in DOMAIN localLinks : f[i] = j /\ localLinks'[j] = localLinks[i]
        BY <3>4, <4>2
      <4>3. CASE e # d
        <5>1. \A j \in DOMAIN localLinks' : localLinks'[j].dst = e => j # 1
          BY <3>1, <3>3, <4>3
        <5>2. links'[<<Me, e>>] = links[<<Me, e>>]
          BY <1>1, <2>3, <4>3
        <5>3. ASSUME NEW i \in DOMAIN localLinks', NEW j \in DOMAIN localLinks',
                     localLinks'[i].dst = e, localLinks'[j].dst = e
              PROVE  i = j
          <6>1. PICK p \in DOMAIN localLinks : f[p] = i /\ localLinks'[i] = localLinks[p]
            BY <4>2, <5>1, <5>3
          <6>2. PICK q \in DOMAIN localLinks : f[q] = j /\ localLinks'[j] = localLinks[q]
            BY <4>2, <5>1, <5>3
          <6>3. p = q
            BY <4>1, <5>3, <6>1, <6>2 DEF Tidy
          <6> QED
            BY <6>1, <6>2, <6>3
        <5>4. ASSUME NEW j \in DOMAIN localLinks', localLinks'[j].dst = e
              PROVE  links[<<Me, e>>] > 0
                     /\ localLinks'[j].alias = LinkAlias(localAddr, addrTab[e])
          <6>1. PICK p \in DOMAIN localLinks : localLinks'[j] = localLinks[p]
            BY <4>2, <5>1, <5>4
          <6> QED
            BY <4>1, <5>4, <6>1 DEF Tidy
        <5>5. links[<<Me, e>>] <= 1
          BY <4>1 DEF Tidy
        <5> QED
          BY <1>1, <5>2, <5>3, <5>4, <5>5 DEF Tidy
      <4>4. CASE e = d
        <5>1. links[<<Me, d>>] = 0
          BY <1>1, <2>3, <2>6, <4>4 DEF Linked
        <5>2. links'[<<Me, d>>] = 1
          BY <1>1, <2>3, <2>6, <5>1
        <5>3. \A i \in DOMAIN localLinks : localLinks[i].dst # d
          BY <4>1, <4>4, <5>1 DEF Tidy
        <5>4. \A j \in DOMAIN localLinks' : localLinks'[j].dst = d => j = 1
          BY <4>2, <5>3
        <5> QED
          BY <1>1, <3>1, <3>3, <4>4, <5>2, <5>4 DEF Tidy
      <4> QED
        BY <4>3, <4>4
    <3> QED
      BY <1>1, <2>4, <3>6, <3>7 DEF LinksInv
  <2> QED
    BY <2>5, <2>6
<1> QED
  BY <1>2, <1>3

LEMMA RemoveLinkLinks ==
    ASSUME TcTypeOK, HashInv, LinksInv, NEW n \in Node, NEW d \in Node, REMOVE_LINK(n, d)
    PROVE  LinksInv'
<1>1. /\ localAddr[0] = Me /\ Me \in Node
      /\ nodes' = nodes /\ addrTab' = addrTab /\ localAddr' = localAddr /\ disputed' = disputed
  BY AddrAssumption DEF REMOVE_LINK, PrologueDone, tc_remove_link, history
<1>2. tc_get_node(n) = IF n \in nodes THEN n ELSE NoAddr
  BY MainAddress
<1>3. CASE n \notin nodes \/ links[<<n, d>>] = 0
  <2>1. links' = links /\ localLinks' = localLinks
    BY <1>2, <1>3 DEF REMOVE_LINK, tc_remove_link
  <2> QED
    BY <1>1, <2>1, LinksSame
<1>4. CASE n \in nodes /\ links[<<n, d>>] # 0
  <2>1. tc_get_node(n) = n /\ n # NoAddr
    BY <1>2, <1>4, NoAddrNotNode
  <2>2. /\ links' = [links EXCEPT ![<<n, d>>] = @ - 1]
        /\ localLinks' = IF n = Me THEN DropFirst(localLinks, d) ELSE localLinks
    BY <1>1, <1>4, <2>1 DEF REMOVE_LINK, tc_remove_link
  <2>3. \A a, b \in Node : /\ links[<<a, b>>] \in Nat
                           /\ links'[<<a, b>>] = IF a = n /\ b = d THEN links[<<a, b>>] - 1
                                                                   ELSE links[<<a, b>>]
    BY <2>2 DEF TcTypeOK
  <2>4. \A a, b \in Node : Linked(a, b)' => a \in nodes' /\ b \in nodes'
    BY <1>1, <1>4, <2>3 DEF LinksInv, Linked
  <2>5. \A e \in Node : Enough(localLinks, links, e)
    BY DEF LinksInv
  <2>6. CASE n # Me
    <3>1. \A e \in Node : links'[<<Me, e>>] = links[<<Me, e>>]
      BY <1>1, <2>3, <2>6
    <3>2. localLinks' = localLinks
      BY <2>2, <2>6
    <3>3. \A e \in Node : Enough(localLinks', links', e)
      BY <2>5, <3>1, <3>2 DEF Enough
    <3>4. \A e \in Node \ disputed' : Tidy(localLinks', links', localAddr', addrTab'[e], e)
      BY <1>1, <3>1, <3>2 DEF LinksInv, Tidy
    <3> QED
      BY <1>1, <2>4, <3>3, <3>4 DEF LinksInv
  <2>7. CASE n = Me
    <3>1. localLinks' = DropFirst(localLinks, d)
      BY <2>2, <2>7
    <3>2. links' \in [Node \X Node -> Nat]
      <4>1. links[<<n, d>>] - 1 \in Nat
        BY <1>4, <2>3
      <4> QED
        BY <2>2, <4>1 DEF TcTypeOK
    <3>3. /\ \A e \in Node \ {d} : links'[<<Me, e>>] = links[<<Me, e>>]
          /\ links'[<<Me, d>>] = links[<<Me, d>>] - 1
      BY <1>1, <2>3, <2>7
    <3>4. /\ \A e \in Node : Enough(localLinks', links', e)
          /\ \A e \in Node : Tidy(localLinks, links, localAddr, addrTab[e], e) =>
                                Tidy(localLinks', links', localAddr, addrTab[e], e)
      BY <2>5, <3>1, <3>2, <3>3, DropLinks
    <3> QED
      BY <1>1, <2>4, <3>4 DEF LinksInv
  <2> QED
    BY <2>6, <2>7
<1> QED
  BY <1>3, <1>4

LEMMA LinksStep ==
    ASSUME TcTypeOK, HashInv, LinksInv, [Next]_vars
    PROVE  LinksInv'
<1>1. CASE RESET_TC
  BY <1>1, ResetLinks
<1>2. CASE SET_LOCAL_ADDR
  <2>1. /\ localAddr[0] = NoAddr /\ localAddr' = [localAddr EXCEPT ![0] = Me]
        /\ nodes' = nodes /\ links' = links /\ localLinks' = localLinks /\ addrTab' = addrTab
        /\ disputed' = disputed
    BY <1>2 DEF SET_LOCAL_ADDR, tc_set_local_addr, history
  <2>2. nodes = {} /\ localAddr'[0] = Me /\ localAddr[0] # Me
    BY <2>1, SlotsNat, AddrAssumption, NoAddrNotNode DEF LinksInv, TcTypeOK
  <2> QED
    BY <2>1, <2>2, LocalAddrLinks
<1>3. ASSUME NEW x \in MyAliases, SET_ALIAS_ADDR(x) PROVE LinksInv'
  <2>1. /\ nodes = {} /\ localAddr[0] = Me
        /\ nodes' = nodes /\ links' = links /\ localLinks' = localLinks /\ addrTab' = addrTab
        /\ disputed' = disputed
    BY <1>3 DEF SET_ALIAS_ADDR, tc_set_local_alias, history
  <2>2. localAddr'[0] = Me
    <3>1. CASE FreeSlots(localAddr) = {}
      BY <1>3, <2>1, <3>1 DEF SET_ALIAS_ADDR, tc_set_local_alias
    <3>2. CASE FreeSlots(localAddr) # {}
      <4>1. Least(FreeSlots(localAddr)) \in FreeSlots(localAddr)
        BY <3>2, SlotsNat, LeastMember DEF FreeSlots
      <4>2. Least(FreeSlots(localAddr)) # 0
        BY <4>1 DEF FreeSlots
      <4> QED
        BY <1>3, <2>1, <3>2, <4>2, SlotsNat DEF SET_ALIAS_ADDR, tc_set_local_alias, TcTypeOK
    <3> QED
      BY <3>1, <3>2
  <2>3. ASSUME NEW d \in Node \ disputed PROVE LinksTo(localLinks, d) = {}
    <3>1. links[<<Me, d>>] = 0
      BY <2>1, NoNodeNoLink, AddrAssumption
    <3> QED
      BY <3>1 DEF LinksInv, Tidy, LinksTo
  <2> QED
    BY <2>1, <2>2, <2>3, LocalAddrLinks
<1>4. ASSUME NEW dg \in Datagrams, hk_local_out_hook(dg[1], dg[2]) PROVE LinksInv'
  BY <1>4, LinksSame DEF hk_local_out_hook, history
<1>5. CASE pth_find_datagram_path_write
  BY <1>5, LinksSame DEF pth_find_datagram_path_write, history
<1>6. CASE UNCHANGED vars
  BY <1>6, LinksSame DEF vars
<1> QED
  BY <1>1, <1>2, <1>3, <1>4, <1>5, <1>6, AddNodeLinks, RemoveNodeLinks, AddLinkLinks,
     RemoveLinkLinks, AliasLinks DEF Next, handleRead

LEMMA LinksInit ==
    ASSUME Init
    PROVE  LinksInv
<1>1. /\ nodes = {} /\ localLinks = <<>> /\ localAddr[0] = NoAddr
      /\ \A n, d \in Node : links[<<n, d>>] = 0
  BY SlotsNat DEF Init, tc_init_data, EmptyTab
<1>2. Me \in Node
  BY AddrAssumption
<1>3. \A d \in Node : Enough(localLinks, links, d) /\ Tidy(localLinks, links, localAddr, addrTab[d], d)
  BY <1>1, <1>2, NoLinksRight
<1> QED
  BY <1>1, <1>3 DEF LinksInv, Linked

\* The database's own invariant, with its types.
LEMMA DbAlways == Spec => [](TypeOK /\ HashInv /\ LinksInv)
<1>1. Init => HashInv /\ LinksInv
  BY HashInit, LinksInit
<1>2. TypeOK /\ HashInv /\ LinksInv /\ [Next]_vars => (HashInv /\ LinksInv)'
  BY HashStep, LinksStep DEF TypeOK
<1> QED
  BY <1>1, <1>2, TypeCorrect, PTL DEF Spec

\* A neighbour always has a local link for each of its links; one that is not
\* disputed has it exactly while it is linked, with the address that its present
\* aliases call for, whatever is announced twice or moved between other nodes
\* (ser_path_tc.c tc_update_local_link and the commands that call it).
THEOREM LocalLinksAlwaysExact == Spec => []LocalLinksExact
<1>1. TypeOK /\ HashInv /\ LinksInv => LocalLinksExact
  BY LinksExplained
<1> QED
  BY <1>1, DbAlways, PTL

-----------------------------------------------------------------------------
(* The routes *)

\* What SoundRoute says of the next hop.
HopReached ==
    \/ out'.path[1] \in disputed
    \/ \E i, j \in Slots :
          /\ addrTab[out'.path[1]][j] = out'.nextHop
          /\ localAddr[i] # NoAddr
          /\ Subnet[localAddr[i]] = Subnet[out'.nextHop]

\* What SoundRoute says of a step.
RouteStep ==
    (out' # out /\ out'.verdict = "mpolsr") =>
      /\ out'.path \in Paths(Me, IF pc = "idle" THEN GetNode(out'.dst) ELSE req.dst)
      /\ HopReached

\* A lookup between its two locks is one for a datagram of this host.
LookupInv == pc = "unlocked" => req.src = Me /\ req.srcLocal

\* The only source of a local datagram that is known to the database is this
\* host's main address.
LEMMA LocalSource ==
    ASSUME TcTypeOK, HashInv, LinksInv, NEW dg \in Datagrams, GetNode(dg[1]) # NoAddr
    PROVE  GetNode(dg[1]) = Me /\ localAddr[0] = Me
<1>1. dg[1] \in {Me} \cup MyAliases \cup {Loopback} /\ Me \in Node /\ Me \in Addr
  BY AddrAssumption DEF Datagrams, MyAddrs, Addr
<1>2. CASE dg[1] = Loopback
  BY <1>2, LoopbackAssumption DEF GetNode
<1>3. CASE dg[1] \in MyAliases
  <2>1. hash[dg[1]] = <<>>
    BY <1>3, LocalAlias
  <2> QED
    BY <2>1 DEF GetNode, tc_get_node
<1>4. CASE dg[1] = Me
  <2>1. GetNode(dg[1]) = tc_get_node(Me)
    BY <1>1, <1>4 DEF GetNode
  <2>2. Me \in nodes /\ tc_get_node(Me) = Me
    BY <1>1, <2>1, MainAddress
  <2> QED
    BY <2>1, <2>2 DEF LinksInv
<1> QED
  BY <1>1, <1>2, <1>3, <1>4

\* tc_update_local_link chooses an address of the neighbour on one of this
\* host's networks.
LEMMA LinkAliasReached ==
    ASSUME NEW la \in TabType, NEW tab \in TabType, LinkAlias(la, tab) # NoAddr
    PROVE  \E i, j \in Slots : /\ tab[j] = LinkAlias(la, tab)
                               /\ la[i] # NoAddr
                               /\ Subnet[la[i]] = Subnet[LinkAlias(la, tab)]
<1> DEFINE Match(i) == {j \in Slots : tab[j] # NoAddr /\ Subnet[tab[j]] = Subnet[la[i]]}
           ifaces == {i \in Slots : la[i] # NoAddr /\ Match(i) # {}}
           i0 == Least(ifaces)
           j0 == Least(Match(i0))
<1>1. ifaces # {} /\ LinkAlias(la, tab) = tab[j0]
  BY DEF LinkAlias
<1>2. i0 \in ifaces
  BY <1>1, SlotsNat, LeastMember
<1>3. Match(i0) # {} /\ Match(i0) \in SUBSET Nat
  BY <1>2, SlotsNat
<1>4. j0 \in Match(i0)
  BY <1>3, LeastMember
<1>5. i0 \in Slots /\ la[i0] # NoAddr /\ j0 \in Slots /\ Subnet[tab[j0]] = Subnet[la[i0]]
  BY <1>2, <1>4
<1> HIDE DEF i0, j0
<1> QED
  BY <1>1, <1>5

\* A datagram that pth_copy_path lets go takes the path it was given, towards
\* an address of the first hop unless that one is disputed.
LEMMA CopyPathSound ==
    ASSUME TypeOK, LinksInv, NEW p \in Seq(Node), NEW b, pth_copy_path(p, TRUE, b),
           out'.verdict = "mpolsr"
    PROVE  out'.path = p /\ out'.dst = b /\ HopReached
<1> DEFINE ls == LinksTo(localLinks, p[1])
           next == IF ls = {} THEN NoAddr ELSE localLinks[Least(ls)].alias
<1>1. p # <<>> /\ next # NoAddr
      /\ out' = [dst |-> b, verdict |-> "mpolsr", path |-> p, nextHop |-> next]
  BY DEF pth_copy_path, Drop
<1>2. p[1] \in Node /\ ls # {}
  BY <1>1
<1>3. localLinks \in Seq(LocalLinkType)
  BY DEF TypeOK, TcTypeOK, LocalLinkType
<1>4. Least(ls) \in DOMAIN localLinks /\ localLinks[Least(ls)].dst = p[1]
  BY <1>2, <1>3, FirstLink
<1>5. CASE p[1] \in disputed
  BY <1>1, <1>5 DEF HopReached
<1>6. CASE p[1] \notin disputed
  <2>1. next = LinkAlias(localAddr, addrTab[p[1]])
    <3>1. Tidy(localLinks, links, localAddr, addrTab[p[1]], p[1])
      BY <1>2, <1>6 DEF LinksInv
    <3> QED
      BY <1>2, <1>4, <3>1 DEF Tidy
  <2> HIDE DEF next, ls
  <2>2. localAddr \in TabType /\ addrTab[p[1]] \in TabType
    BY <1>2 DEF TypeOK, TcTypeOK, TabType
  <2>3. \E i, j \in Slots : /\ addrTab[p[1]][j] = next
                            /\ localAddr[i] # NoAddr
                            /\ Subnet[localAddr[i]] = Subnet[next]
    BY <1>1, <2>1, <2>2, LinkAliasReached
  <2> QED
    BY <1>1, <2>3 DEF HopReached
<1> QED
  BY <1>1, <1>5, <1>6

LEMMA HookRoute ==
    ASSUME TypeOK, CacheCoherent, HashInv, LinksInv, NEW dg \in Datagrams,
           hk_local_out_hook(dg[1], dg[2])
    PROVE  RouteStep /\ LookupInv'
<1> DEFINE s == GetNode(dg[1])
           d == GetNode(dg[2])
           key == <<s, d>>
           srcLocal == s = localAddr[0]
<1>1. TcTypeOK /\ pc = "idle"
  BY DEF TypeOK, hk_local_out_hook
<1>2. \/ out'.verdict \in {"drop", "accept"} /\ pc' = pc
      \/ /\ s # NoAddr /\ pc' = "unlocked" /\ out' = out
         /\ req' = [src |-> s, dst |-> d, srcLocal |-> srcLocal, asked |-> dg[2]]
      \/ /\ s # NoAddr /\ key \in DOMAIN cache /\ cache[key] # <<>> /\ pc' = pc
         /\ pth_copy_path(Head(cache[key]), srcLocal, dg[2])
  BY DEF hk_local_out_hook, Drop
<1> HIDE DEF s, d, srcLocal
<1>3. s # NoAddr => s = Me /\ srcLocal = TRUE
  BY <1>1, LocalSource DEF s, srcLocal
<1>4. CASE out'.verdict \in {"drop", "accept"} /\ pc' = pc
  BY <1>1, <1>4 DEF RouteStep, LookupInv
<1>5. CASE /\ s # NoAddr /\ pc' = "unlocked" /\ out' = out
           /\ req' = [src |-> s, dst |-> d, srcLocal |-> srcLocal, asked |-> dg[2]]
  BY <1>3, <1>5 DEF RouteStep, LookupInv
<1>6. CASE /\ s # NoAddr /\ key \in DOMAIN cache /\ cache[key] # <<>> /\ pc' = pc
           /\ pth_copy_path(Head(cache[key]), srcLocal, dg[2])
  <2> DEFINE p == Head(cache[key])
  <2>1. cache[key] \in Seq(Seq(Node))
    BY <1>6 DEF TypeOK, CacheTypeOK
  <2>2. p = cache[key][1] /\ 1 \in DOMAIN cache[key] /\ p \in Seq(Node)
    BY <1>6, <2>1
  <2>3. p \in Paths(Me, d)
    BY <1>3, <1>6, <2>2 DEF CacheCoherent
  <2> HIDE DEF p
  <2>4. ASSUME out'.verdict = "mpolsr" PROVE RouteStep
    <3>1. out'.path = p /\ out'.dst = dg[2] /\ HopReached
      BY <1>3, <1>6, <2>2, <2>4, CopyPathSound DEF p
    <3> QED
      BY <1>1, <2>3, <3>1 DEF RouteStep, d
  <2> QED
    BY <1>1, <1>6, <2>4 DEF RouteStep, LookupInv
<1> QED
  BY <1>2, <1>4, <1>5, <1>6

LEMMA WriteRoute ==
    ASSUME TypeOK, LinksInv, LookupInv, pth_find_datagram_path_write
    PROVE  RouteStep /\ LookupInv'
<1>1. pc = "unlocked" /\ pc' = "idle" /\ req.src = Me /\ req.srcLocal = TRUE
  <2>1. pc = "unlocked" /\ pc' = "idle"
    BY DEF pth_find_datagram_path_write
  <2>2. req \in [src : Node, dst : Node, srcLocal : BOOLEAN, asked : Addr]
    BY <2>1 DEF TypeOK, HookTypeOK
  <2> QED
    BY <2>1, <2>2 DEF LookupInv
<1>2. PICK ps \in KPaths(req.src, req.dst) \cup {<<>>} :
         IF ps = <<>> THEN Drop(req.asked) ELSE pth_copy_path(ps[1], req.srcLocal, req.asked)
  BY DEF pth_find_datagram_path_write
<1>3. CASE ps = <<>>
  BY <1>1, <1>2, <1>3 DEF RouteStep, LookupInv, Drop
<1>4. CASE ps # <<>>
  <2>1. /\ ps \in Seq(Seq(Node))
        /\ \A i \in DOMAIN ps : ps[i] \in Paths(Me, req.dst)
    BY <1>1, <1>2, <1>4, KPathsType DEF TypeOK, TcTypeOK
  <2>2. 1 \in DOMAIN ps /\ ps[1] \in Seq(Node) /\ ps[1] \in Paths(Me, req.dst)
    BY <1>4, <2>1
  <2>3. pth_copy_path(ps[1], TRUE, req.asked)
    BY <1>1, <1>2, <1>4
  <2>4. ASSUME out'.verdict = "mpolsr" PROVE RouteStep
    <3>1. out'.path = ps[1] /\ HopReached
      BY <2>2, <2>3, <2>4, CopyPathSound
    <3> QED
      BY <1>1, <2>2, <3>1 DEF RouteStep
  <2> QED
    BY <1>1, <2>4 DEF RouteStep, LookupInv
<1> QED
  BY <1>3, <1>4

LEMMA NextRoute ==
    ASSUME TypeOK, CacheCoherent, HashInv, LinksInv, LookupInv, [Next]_vars
    PROVE  [RouteStep]_vars /\ LookupInv'
<1>1. CASE handleRead
  <2>1. UNCHANGED hookVars
    BY <1>1, CommandHook
  <2> QED
    BY <2>1 DEF hookVars, RouteStep, LookupInv
<1>2. CASE UNCHANGED vars
  BY <1>2 DEF vars, LookupInv
<1> QED
  BY <1>1, <1>2, HookRoute, WriteRoute DEF Next

\* A datagram leaves the LOCAL_OUT hook only along a path that exists at that
\* moment, in whatever order commands arrived, also between the two locks of the
\* lookup, and towards an address of the first hop on one of this host's networks
\* as long as that hop's link was announced once and no other node's command took
\* an alias of it (ser_path.c pth_find_datagram_path, pth_copy_path).
THEOREM RoutesSound == Spec => SoundRoute
<1>1. Init => LookupInv
  BY DEF Init, LookupInv
<1>2. TypeOK /\ CacheCoherent /\ HashInv /\ LinksInv /\ LookupInv /\ [Next]_vars
        => [RouteStep]_vars /\ LookupInv'
  BY NextRoute
<1> QED
  BY <1>1, <1>2, DbAlways, CacheNeverStale, PTL DEF Spec, SoundRoute, RouteStep, HopReached
=============================================================================
