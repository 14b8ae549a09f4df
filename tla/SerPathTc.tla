----------------------------- MODULE SerPathTc -----------------------------
(***************************************************************************)
(* The topology database of the user-land MP-OLSR router (ser_path_tc.c):  *)
(* nodes, the address hash, the links, the local links and the path cache, *)
(* and one action for each function that changes them.  Every function     *)
(* holds g_ser_tc_lock from its first read that matters to its last write, *)
(* so each is one atomic step.                                             *)
(*                                                                         *)
(* Abstractions.  A node is named by its main address (slot 0 of its       *)
(* addr_tab), which never changes while the node exists.  The 256 hash     *)
(* buckets are kept per address: a lookup by IP only sees the relative     *)
(* order of the entries with that IP.  The node list and the two lists of  *)
(* links of a node become a set and a count of parallel links: their order *)
(* only decides between equally short paths (see KDijkstra).  Link costs   *)
(* are left out, the plugin sends 1 for every link.                        *)
(***************************************************************************)
EXTENDS Naturals, Sequences

CONSTANTS
    Node,       \* main (olsrd) addresses
    Alias,      \* addresses of the other interfaces
    NoAddr,     \* the IP 0, an empty slot
    Me,         \* the main address of this host
    MyAliases,  \* the other interface addresses of this host
    Subnet,     \* Subnet[a]: address a under the interface mask
    MaxAddr,    \* MAX_IP_ALIAS_BY_NODE
    ConfPath    \* g_conf_path, the number of paths to compute

Addr == Node \cup Alias
Slots == 0 .. MaxAddr - 1

ASSUME AddrAssumption ==
    /\ Node \cap Alias = {}
    /\ NoAddr \notin Addr
    /\ Me \in Node
    /\ MyAliases \subseteq Alias
    /\ DOMAIN Subnet = Addr

ASSUME SizeAssumption == MaxAddr \in 1..5 /\ ConfPath \in Nat \ {0}

VARIABLES
    nodes,      \* g_tc_node_lst
    addrTab,    \* addr_tab[MAX_IP_ALIAS_BY_NODE] of every node
    hash,       \* g_tc_addr_tab: per address its entries <<node, slot>>, newest first
    links,      \* number of parallel links between two nodes
    localAddr,  \* g_local_addr_tab
    localLinks, \* g_local_links, newest first
    cache       \* g_path_buffer: <<src, dst>> -> its paths, next one to use first

tcVars == <<nodes, addrTab, hash, links, localAddr, localLinks, cache>>

NoCache == [k \in {} |-> <<>>]

KeepCache == UNCHANGED cache       \* mutant: the reset is forgotten
ResetCache == cache' = NoCache

-----------------------------------------------------------------------------
(* Helpers *)

EmptyTab == [i \in Slots |-> NoAddr]

\* tc_get_node finds the newest entry of the address; an unknown one gives NoAddr
tc_get_node(a) == IF hash[a] = <<>> THEN NoAddr ELSE hash[a][1][1]

Least(S) == CHOOSE i \in S : \A j \in S : i <= j

\* tc_add_node_addr for an alias: the first free slot after the main address.
FreeSlotsPastEnd(tab) == {i \in 1..MaxAddr : i = MaxAddr \/ tab[i] = NoAddr}   \* mutant: <=
FreeSlots(tab) == {i \in Slots \ {0} : tab[i] = NoAddr}

tc_add_node_addr(n, a) ==
    LET free == FreeSlots(addrTab[n])
        pos  == Least(free)
    IN IF free = {}
       THEN UNCHANGED <<addrTab, hash>>
       ELSE /\ addrTab' = [addrTab EXCEPT ![n][pos] = a]
            /\ hash' = [hash EXCEPT ![a] = << <<n, pos>> >> \o @]

\* tc_rmv_node_addr drops the newest entry of the address, whichever node
\* owns it, and clears that owner's slot.  s is a pair [tab, hash].
tc_rmv_node_addr(s, a) ==
    IF s.hash[a] = <<>>
    THEN s
    ELSE LET e == s.hash[a][1]
         IN [tab  |-> [s.tab EXCEPT ![e[1]][e[2]] = NoAddr],
             hash |-> [s.hash EXCEPT ![a] = Tail(@)]]

RmvSlot(s, n, i) ==
    IF i \in Slots /\ s.tab[n][i] # NoAddr
    THEN tc_rmv_node_addr(s, s.tab[n][i])
    ELSE s

\* mutant: only the main address is taken out of the hash
RmvMainSlot(n) == RmvSlot([tab |-> addrTab, hash |-> hash], n, 0)

\* The loop of tc_remove_node over the five slots of the node.
RmvAllSlots(n) ==
    RmvSlot(RmvSlot(RmvSlot(RmvSlot(RmvSlot(
        [tab |-> addrTab, hash |-> hash], n, 0), n, 1), n, 2), n, 3), n, 4)

\* tc_update_local_link: the first pair of a local interface and an address
\* of the neighbour on the same network, or 0.
LinkAlias(la, tab) ==
    LET Match(i) == {j \in Slots : tab[j] # NoAddr /\ Subnet[tab[j]] = Subnet[la[i]]}
        ifaces   == {i \in Slots : la[i] # NoAddr /\ Match(i) # {}}
    IN IF ifaces = {} THEN NoAddr ELSE tab[Least(Match(Least(ifaces)))]

tc_update_local_link(n, tab) == [dst |-> n, alias |-> LinkAlias(localAddr, tab)]

LinksTo(ls, d) == {i \in DOMAIN ls : ls[i].dst = d}

RemoveIdx(s, i) == SubSeq(s, 1, i - 1) \o SubSeq(s, i + 1, Len(s))

DropNone(ls, d) == ls              \* mutant: the local link stays

\* unlink the first local link that reaches d, if there is one
DropFirst(ls, d) ==
    IF LinksTo(ls, d) = {} THEN ls ELSE RemoveIdx(ls, Least(LinksTo(ls, d)))

RefreshNone(ls, d, tab) == ls      \* mutant: the chosen alias is never refreshed

\* refresh the first local link that reaches d
RefreshFirst(ls, d, tab) ==
    IF LinksTo(ls, d) = {}
    THEN ls
    ELSE [ls EXCEPT ![Least(LinksTo(ls, d))] = tc_update_local_link(d, tab)]

-----------------------------------------------------------------------------
(* Operations, one per function of ser_path_tc.c *)

tc_init_data ==
    /\ nodes = {}
    /\ addrTab = [n \in Node |-> EmptyTab]
    /\ hash = [a \in Addr |-> <<>>]
    /\ links = [e \in Node \X Node |-> 0]
    /\ localAddr = EmptyTab
    /\ localLinks = <<>>
    /\ cache = NoCache

tc_free_data ==
    /\ nodes' = {}
    /\ addrTab' = [n \in Node |-> EmptyTab]
    /\ hash' = [a \in Addr |-> <<>>]
    /\ links' = [e \in Node \X Node |-> 0]
    /\ localAddr' = EmptyTab
    /\ localLinks' = <<>>
    /\ ResetCache

tc_add_node(n) ==
    IF tc_get_node(n) # NoAddr
    THEN UNCHANGED tcVars
    ELSE /\ ResetCache
         /\ addrTab' = [addrTab EXCEPT ![n] = [EmptyTab EXCEPT ![0] = n]]
         /\ hash' = [hash EXCEPT ![n] = << <<n, 0>> >> \o @]
         /\ nodes' = nodes \cup {n}
         /\ UNCHANGED <<links, localAddr, localLinks>>

tc_remove_node(a) ==
    LET n == tc_get_node(a)
        s == RmvAllSlots(n)
    IN IF n = NoAddr
       THEN UNCHANGED tcVars
       ELSE /\ localLinks' = IF a = localAddr[0] THEN <<>> ELSE DropFirst(localLinks, a)
            /\ ResetCache
            /\ nodes' = nodes \ {n}
            /\ addrTab' = s.tab
            /\ hash' = s.hash
            /\ links' = [e \in Node \X Node |-> IF n \in {e[1], e[2]} THEN 0 ELSE links[e]]
            /\ UNCHANGED localAddr

tc_add_alias(a, x) ==
    LET n == tc_get_node(a)
    IN IF n = NoAddr
       THEN UNCHANGED tcVars
       ELSE /\ tc_add_node_addr(n, x)
            /\ localLinks' = RefreshFirst(localLinks, a, addrTab'[n])
            /\ UNCHANGED <<nodes, links, localAddr, cache>>

tc_remove_alias(a, x) ==
    LET n == tc_get_node(a)
        s == tc_rmv_node_addr([tab |-> addrTab, hash |-> hash], x)
    IN IF n = NoAddr
       THEN UNCHANGED tcVars
       ELSE /\ addrTab' = s.tab
            /\ hash' = s.hash
            /\ localLinks' = RefreshFirst(localLinks, a, s.tab[n])
            /\ UNCHANGED <<nodes, links, localAddr, cache>>

tc_set_local_addr(a) ==
    /\ localAddr' = [localAddr EXCEPT ![0] = a]
    /\ UNCHANGED <<nodes, addrTab, hash, links, localLinks, cache>>

tc_set_local_alias(x) ==
    /\ localAddr' = IF FreeSlots(localAddr) = {}
                    THEN localAddr
                    ELSE [localAddr EXCEPT ![Least(FreeSlots(localAddr))] = x]
    /\ UNCHANGED <<nodes, addrTab, hash, links, localLinks, cache>>

tc_add_link(a, b) ==
    LET s == tc_get_node(a)
        d == tc_get_node(b)
    IN /\ ResetCache
       /\ IF s = NoAddr \/ d = NoAddr
          THEN UNCHANGED <<links, localLinks>>
          ELSE /\ localLinks' = IF a = localAddr[0]
                                THEN <<tc_update_local_link(d, addrTab[d])>> \o localLinks
                                ELSE localLinks
               /\ links' = [links EXCEPT ![<<s, d>>] = @ + 1]
       /\ UNCHANGED <<nodes, addrTab, hash, localAddr>>

tc_remove_link(a, b) ==
    LET s == tc_get_node(a)
    IN /\ ResetCache
       /\ IF s = NoAddr \/ b \notin Node \/ links[<<s, b>>] = 0
          THEN UNCHANGED <<links, localLinks>>
          ELSE /\ links' = [links EXCEPT ![<<s, b>>] = @ - 1]
               /\ localLinks' = IF a = localAddr[0] THEN DropFirst(localLinks, b)
                                                    ELSE localLinks
       /\ UNCHANGED <<nodes, addrTab, hash, localAddr>>
=============================================================================
