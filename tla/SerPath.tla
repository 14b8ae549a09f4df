------------------------------ MODULE SerPath ------------------------------
(***************************************************************************)
(* One ser_routing process: the io_service thread applies the commands of  *)
(* the olsrd plugin to the topology database (olsreventclient.cpp), the    *)
(* main thread looks paths up for the datagrams of the LOCAL_OUT hook      *)
(* (ser_path.c, hook_local_out.cpp).  The two share g_ser_tc_lock, which   *)
(* pth_find_datagram_path releases between its cache search and its path   *)
(* computation.                                                            *)
(***************************************************************************)
EXTENDS SerPathTc, FiniteSets

CONSTANTS
    Loopback,       \* 127.0.0.1
    LittleEndian,   \* byte order of the build
    MaxHops,        \* bound: hops of a path; a simple path never needs more than |Node| - 1
    MaxLinks,       \* bound: links in all, parallel ones counted, and local links
    MaxEntries,     \* bound: entries of an alias in the address hash
    Destination     \* bound: addresses the local applications send to

ASSUME LoopbackAssumption == Loopback \notin Addr \cup {NoAddr}
ASSUME BoundAssumption ==
    MaxHops \in Nat /\ MaxLinks \in Nat /\ MaxEntries \in Nat /\ Destination \subseteq Addr

VARIABLES
    pc,     \* "idle", or "unlocked" between READ_UNLOCK and WRITE_LOCK
    req,    \* what the lookup remembers across that gap
    buf,    \* first address in the hook's static path buffer
    out,    \* the last datagram: its destination, verdict, path and next hop
    \* history since the last RESET_TC
    lost,     \* aliases with a hash entry that outlived its node
    disputed  \* nodes linked twice to this host, or stripped of an alias by a
              \* command for another node

hookVars == <<pc, req, buf, out>>
history == <<lost, disputed>>
vars == <<nodes, addrTab, hash, links, localAddr, localLinks, cache, pc, req, buf, out,
          lost, disputed>>

MyAddrs == {Me} \cup MyAliases
NoReq == [src |-> NoAddr, dst |-> NoAddr, srcLocal |-> FALSE, asked |-> NoAddr]
NoOut == [dst |-> NoAddr, verdict |-> "none", path |-> <<>>, nextHop |-> NoAddr]

-----------------------------------------------------------------------------
(* The path computation, by what the code promises of it (KDijkstra checks *)
(* the algorithm itself): simple paths over current links, first a         *)
(* shortest one.                                                           *)

Linked(s, d) == links[<<s, d>>] > 0

IsSimplePath(s, p, d) ==
    /\ p[Len(p)] = d
    /\ \A i, j \in DOMAIN p : p[i] = p[j] => i = j
    /\ \A i \in DOMAIN p : p[i] # s /\ Linked(IF i = 1 THEN s ELSE p[i - 1], p[i])

\* All simple paths from s to d, without s itself; the empty path from s to s.
Paths(s, d) ==
    IF s \notin nodes \/ d \notin nodes THEN {}
    ELSE IF s = d THEN {<<>>}
    ELSE UNION {{p \in [1..n -> nodes] : IsSimplePath(s, p, d)} : n \in 1..MaxHops}

KPaths(s, d) ==
    {ps \in [1..ConfPath -> Paths(s, d)] : \A p \in Paths(s, d) : Len(ps[1]) <= Len(p)}

\* tc_k_dijstra leaves an entry in the cache even when it finds no path.
tc_k_dijstra(s, d, ps) ==
    /\ IF Paths(s, d) = {} THEN ps = <<>> ELSE ps \in KPaths(s, d)
    /\ cache' = [k \in DOMAIN cache \cup {<<s, d>>} |->
                    IF k = <<s, d>> THEN ps ELSE cache[k]]

-----------------------------------------------------------------------------
(* The main thread: LOCAL_OUT hook and path lookup *)

GetNode(a) == IF a \in Addr THEN tc_get_node(a) ELSE NoAddr

Drop(d) == out' = [dst |-> d, verdict |-> "drop", path |-> <<>>, nextHop |-> NoAddr]

\* mutant: the main address of the first hop is used as the next hop
pth_copy_path_main(p, srcLocal, d) ==
    /\ buf' = IF p = <<>> THEN buf ELSE p[1]
    /\ IF p = <<>>
       THEN Drop(d)
       ELSE out' = [dst |-> d, verdict |-> "mpolsr", path |-> p, nextHop |-> p[1]]

\* pth_copy_path and the verdict of the hook.  The first hop is read back from
\* the path buffer, which an empty path leaves as the previous lookup filled it.
pth_copy_path(p, srcLocal, d) ==
    LET hop  == IF p = <<>> THEN buf ELSE p[1]
        ls   == LinksTo(localLinks, hop)
        next == IF ~srcLocal THEN hop
                ELSE IF ls = {} THEN NoAddr ELSE localLinks[Least(ls)].alias
    IN /\ buf' = hop
       /\ IF srcLocal /\ next = NoAddr
          THEN Drop(d)
          ELSE IF p = <<>>
          THEN out' = [dst |-> d, verdict |-> "accept", path |-> <<>>, nextHop |-> NoAddr]
          ELSE out' = [dst |-> d, verdict |-> "mpolsr", path |-> p, nextHop |-> next]

SamePath(ps) == ps     \* mutant: lst_path is not moved on

\* The circular list of paths, moved on to the next one.
Rotate(ps) == Tail(ps) \o <<Head(ps)>>

\* hk_check_if_update compares the destination, in network byte order, with
\* INADDR_LOOPBACK in host byte order.
hk_check_if_update(d) == ~(d = Loopback /\ ~LittleEndian)

\* The hook up to the end of the read-locked section of the lookup.  With a lost
\* destination it would read the freed node: undefined, and not followed.
hk_local_out_hook(a, b) ==
    LET s   == GetNode(a)
        d   == GetNode(b)
        key == <<s, d>>
        srcLocal == s = localAddr[0]
    IN /\ pc = "idle" /\ b \notin lost
       /\ UNCHANGED <<nodes, addrTab, hash, links, localAddr, localLinks, history>>
       /\ IF ~hk_check_if_update(b)
          THEN /\ out' = [dst |-> b, verdict |-> "accept", path |-> <<>>, nextHop |-> NoAddr]
               /\ UNCHANGED <<cache, pc, req, buf>>
          ELSE IF s = NoAddr \/ d = NoAddr
          THEN Drop(b) /\ UNCHANGED <<cache, pc, req, buf>>
          ELSE IF key \notin DOMAIN cache
          THEN /\ pc' = "unlocked"
               /\ req' = [src |-> s, dst |-> d, srcLocal |-> srcLocal, asked |-> b]
               /\ UNCHANGED <<cache, buf, out>>
          ELSE IF cache[key] = <<>>
          THEN Drop(b) /\ UNCHANGED <<cache, pc, req, buf>>
          ELSE /\ cache' = [cache EXCEPT ![key] = Rotate(@)]
               /\ pth_copy_path(Head(cache[key]), srcLocal, b)
               /\ UNCHANGED <<pc, req>>

\* The write-locked rest of the lookup, on whatever topology there is by now.
pth_find_datagram_path_write ==
    /\ pc = "unlocked"
    /\ \E ps \in KPaths(req.src, req.dst) \cup {<<>>} :
          /\ tc_k_dijstra(req.src, req.dst, ps)
          /\ IF ps = <<>>
             THEN Drop(req.asked) /\ UNCHANGED buf
             ELSE pth_copy_path(ps[1], req.srcLocal, req.asked)
    /\ pc' = "idle"
    /\ req' = NoReq
    /\ UNCHANGED <<nodes, addrTab, hash, links, localAddr, localLinks, history>>

-----------------------------------------------------------------------------
(* The event thread: OlsrEventClient::handleRead, fed with the commands    *)
(* the plugin sends (external): after a reset the local addresses, then    *)
(* the topology, where a command may be repeated and may come before or    *)
(* after any other one.  olsrd keeps no MID entry for this host itself.    *)
(* A lost alias is only ever announced again: what looks it up may meet    *)
(* the freed node, which is undefined, and is not followed.                *)

LocalSet == {localAddr[i] : i \in Slots}
PrologueDone ==
    /\ localAddr[0] = Me
    /\ MyAliases \subseteq LocalSet \/ FreeSlots(localAddr) = {}

RESET_TC == tc_free_data /\ lost' = {} /\ disputed' = {} /\ UNCHANGED hookVars
SET_LOCAL_ADDR ==
    localAddr[0] = NoAddr /\ tc_set_local_addr(Me) /\ UNCHANGED <<hookVars, history>>
SET_ALIAS_ADDR(x) ==
    /\ localAddr[0] = Me /\ nodes = {} /\ x \notin LocalSet
    /\ tc_set_local_alias(x)
    /\ UNCHANGED <<hookVars, history>>
ADD_NODE(n) == PrologueDone /\ tc_add_node(n) /\ UNCHANGED <<hookVars, history>>

Owners(x) == {hash[x][i][1] : i \in DOMAIN hash[x]}

\* Aliases with an entry of n that is not their newest one: the loop of
\* tc_remove_node unlinks the newest instead.
Covered(n) == {x \in Alias \ lost : \E i \in DOMAIN hash[x] : i > 1 /\ hash[x][i][1] = n}

\* The other nodes that may lose an address to such an alias.
Stripped(n) == {m \in Node \ {n} : \E x \in Covered(n) : m \in Owners(x)}

REMOVE_NODE(n) ==
    /\ PrologueDone /\ \A i \in Slots : addrTab[n][i] \notin lost
    /\ tc_remove_node(n)
    /\ lost' = lost \cup Covered(n)
    /\ disputed' = disputed \cup Stripped(n)
    /\ UNCHANGED hookVars

\* every link, parallel ones numbered
AllLinks == {l \in (Node \X Node) \X (1 .. MaxLinks) : l[2] <= links[l[1]]}

ADD_LINK(n, d) ==
    /\ PrologueDone /\ n # d
    /\ Cardinality(AllLinks) < MaxLinks /\ Len(localLinks) < MaxLinks
    /\ tc_add_link(n, d)
    /\ disputed' = IF n = Me /\ Linked(Me, d) THEN disputed \cup {d} ELSE disputed
    /\ UNCHANGED <<hookVars, lost>>
REMOVE_LINK(n, d) ==
    PrologueDone /\ n # d /\ tc_remove_link(n, d) /\ UNCHANGED <<hookVars, history>>

ADD_ALIAS(n, x) ==
    /\ PrologueDone /\ Len(hash[x]) < MaxEntries
    /\ tc_add_alias(n, x)
    /\ UNCHANGED <<hookVars, history>>
REMOVE_ALIAS(n, x) ==
    /\ PrologueDone /\ x \notin lost
    /\ tc_remove_alias(n, x)
    /\ disputed' = IF n \in nodes THEN disputed \cup ({tc_get_node(x)} \ {n, NoAddr})
                                  ELSE disputed
    /\ UNCHANGED <<hookVars, lost>>

handleRead ==
    \/ RESET_TC
    \/ SET_LOCAL_ADDR
    \/ \E x \in MyAliases : SET_ALIAS_ADDR(x)
    \/ \E n \in Node : ADD_NODE(n) \/ REMOVE_NODE(n)
    \/ \E n, d \in Node : ADD_LINK(n, d) \/ REMOVE_LINK(n, d)
    \/ \E n \in Node \ {Me}, x \in Alias \ MyAliases : ADD_ALIAS(n, x) \/ REMOVE_ALIAS(n, x)

-----------------------------------------------------------------------------
Init ==
    /\ tc_init_data
    /\ pc = "idle" /\ req = NoReq /\ buf = NoAddr /\ out = NoOut
    /\ lost = {} /\ disputed = {}

Datagrams == (MyAddrs \X Destination) \cup {<<Loopback, Loopback>>}

Next ==
    \/ handleRead
    \/ \E dg \in Datagrams : hk_local_out_hook(dg[1], dg[2])
    \/ pth_find_datagram_path_write

Spec == Init /\ [][Next]_vars
-----------------------------------------------------------------------------
(* Properties *)

TcTypeOK ==
    /\ nodes \subseteq Node
    /\ addrTab \in [Node -> [Slots -> Addr \cup {NoAddr}]]
    /\ hash \in [Addr -> Seq(Node \X Slots)]
    /\ links \in [Node \X Node -> Nat]
    /\ localAddr \in [Slots -> Addr \cup {NoAddr}]
    /\ localLinks \in Seq([dst : Node, alias : Addr \cup {NoAddr}])

CacheTypeOK ==
    /\ DOMAIN cache \subseteq Node \X Node
    /\ \A k \in DOMAIN cache : cache[k] \in Seq(Seq(Node))

HookTypeOK ==
    /\ pc \in {"idle", "unlocked"}
    /\ req \in [src : Node, dst : Node, srcLocal : BOOLEAN, asked : Addr] \cup {NoReq}
    /\ pc = "unlocked" => req # NoReq
    /\ buf \in Node \cup {NoAddr}
    /\ out \in [dst : Addr \cup {Loopback, NoAddr}, path : Seq(Node),
                verdict : {"none", "drop", "accept", "mpolsr"},
                nextHop : Addr \cup {NoAddr}]

\* Type invariant: every list, table and index of the database and of the hook
\* stays within the declared structures, whatever the order of the commands.
TypeOK == TcTypeOK /\ CacheTypeOK /\ HookTypeOK /\ lost \subseteq Alias /\ disputed \subseteq Node

\* The path cache is never stale: a cached path is a simple path over the links
\* there are now, and an entry without paths ("already run tc_k_dijstra in a
\* previous call, but no path found") means that there is no path now.  The
\* functions of ser_path_tc.c that change nodes or links reset the cache; a
\* lookup that was between its two locks meanwhile must not undo that.
CacheCoherent ==
    \A k \in DOMAIN cache :
        IF cache[k] = <<>>
        THEN Paths(k[1], k[2]) = {}
        ELSE \A i \in DOMAIN cache[k] : cache[k][i] \in Paths(k[1], k[2])

\* The address hash and the address tables of the nodes describe each other: an
\* entry of g_tc_addr_tab belongs to a node of g_tc_node_lst (never to a freed
\* one) whose slot holds that address, also while an alias is announced twice or
\* has two owners.  The exception is an alias whose node was removed while the
\* node's entry was not the newest: tc_remove_node leaves that entry behind.
HashSound ==
    \A a \in Addr \ lost : \A i \in DOMAIN hash[a] :
        LET e == hash[a][i] IN e[1] \in nodes /\ addrTab[e[1]][e[2]] = a

\* g_local_links follows the links of this host.  Whatever the plugin repeats, a
\* neighbour has a local link for each of its links, so that pth_checkNextHop
\* refuses no present neighbour.  A neighbour whose link was announced once and
\* whose aliases no other node's command took away has a local link exactly while
\* it is linked, with the interface address tc_update_local_link would choose now:
\* alias commands that arrive after the link refresh it.
LocalLinksExact ==
    IF localAddr[0] # Me
    THEN localLinks = <<>>
    ELSE \A d \in Node :
            LET here == LinksTo(localLinks, d)
            IN /\ Cardinality(here) >= links[<<Me, d>>]
               /\ d \notin disputed =>
                     /\ here # {} => Linked(Me, d)
                     /\ \A i \in here : localLinks[i].alias = LinkAlias(localAddr, addrTab[d])

\* A datagram leaves the LOCAL_OUT hook only along a path that exists at that
\* moment, to the node that owned its destination address when the lookup began,
\* whatever the order of the commands and also when the topology changed between
\* the two locks of the lookup.  It goes to an address of the first hop on a
\* network of this host, unless the link or an alias of that hop is disputed.
SoundRoute ==
    [][ (out' # out /\ out'.verdict = "mpolsr") =>
          /\ out'.path \in Paths(Me, IF pc = "idle" THEN GetNode(out'.dst) ELSE req.dst)
          /\ \/ out'.path[1] \in disputed
             \/ \E i, j \in Slots :
                   /\ addrTab[out'.path[1]][j] = out'.nextHop
                   /\ localAddr[i] # NoAddr
                   /\ Subnet[localAddr[i]] = Subnet[out'.nextHop] ]_vars

-----------------------------------------------------------------------------
(* Liveness: an application that keeps sending to every node. *)

\* only pth_find_datagram_path_write takes such a step
FinishLookup == pc = "unlocked" /\ pc' = "idle"

FairSpec ==
    /\ Spec
    /\ WF_pc(FinishLookup)
    /\ \A d \in Destination \cap (Node \ {Me}) : WF_vars(hk_local_out_hook(Me, d))

NextHopOf(hop) ==
    LET ls == LinksTo(localLinks, hop)
    IN IF ls = {} THEN NoAddr ELSE localLinks[Least(ls)].alias

\* "change current path to use all path and not only the first": while a cache
\* entry stays, each of its paths whose first hop has an interface address is
\* used again and again.
SimpleRoutes(d) ==
    {p \in UNION {[1..n -> Node \ {Me}] : n \in 1..MaxHops} :
        p[Len(p)] = d /\ \A i, j \in DOMAIN p : p[i] = p[j] => i = j}

AllPathsUsed ==
    \A d \in Destination \cap (Node \ {Me}) : \A p \in SimpleRoutes(d) :
        <>[](/\ <<Me, d>> \in DOMAIN cache
             /\ \E i \in DOMAIN cache[<<Me, d>>] : cache[<<Me, d>>][i] = p
             /\ NextHopOf(p[1]) # NoAddr)
          => []<>(out.verdict = "mpolsr" /\ out.path = p)
=============================================================================
