----------------------------- MODULE PluginSync -----------------------------
(***************************************************************************)
(* olsrd's tables, the sereadmo plugin that reports their changes          *)
(* (ser_tc.c, ser_device.cpp, olsreventserver.cpp), the TCP connection and *)
(* the topology database of ser_routing at its other end (SerPathTc).      *)
(*                                                                         *)
(* The plugin runs in olsrd's main thread (olsrd_pcf_event) and, when a    *)
(* client connects, in its io_service thread (handleAccept).  Each of the  *)
(* two is one step here: the model has the schedules in which they do not  *)
(* overlap.  msgQueue_ is empty between them, for both end with dev_send.  *)
(***************************************************************************)
EXTENDS SerPathTc, FiniteSets, SequencesExt

CONSTANTS
    Bucket,      \* olsr_ip_hashing of the main addresses
    MaxChanges   \* bound: changes of olsrd's tables

ASSUME PluginAssumption == IsFiniteSet(Node) /\ IsFiniteSet(Alias) /\ DOMAIN Bucket = Node

VARIABLES
    entries,     \* olsrd: originators in tc_tree
    edges,       \* olsrd: the edges of their edge_trees
    sym,         \* olsrd: neighbours with status SYM
    mids,        \* olsrd: mid_set, pairs of main address and alias
    routed,      \* olsrd: the pairs of mids with an rt_path at their tc_entry
    changed,     \* olsrd: changes_neighborhood, changes_topology or changes_hna
    tab,         \* g_cur_ser_tc_tab: the nodes of each bucket, newest first
    freed,       \* freed nodes the table still leads to
    curLinks,    \* dst_tab of all nodes
    curMids,     \* g_cur_mid_tc
    connected,   \* the client is subscribed
    early,       \* history: it connected before the topology came up
    unflagged,   \* history: edges were revoked since the last report
    chan,        \* writeMsgs_ and what TCP holds
    changes      \* number of changes so far

olsrdVars == <<entries, edges, sym, mids, routed>>
pluginVars == <<tab, freed, curLinks, curMids>>
vars == <<nodes, addrTab, hash, links, localAddr, localLinks, cache, entries, edges, sym,
          mids, routed, changed, tab, freed, curLinks, curMids, connected, early, unflagged,
          chan, changes>>

Buckets == {Bucket[n] : n \in Node}
InTab(t) == {n \in Node : \E i \in DOMAIN t[Bucket[n]] : t[Bucket[n]][i] = n}

Cmd(type, a, b) == [type |-> type, addr_1 |-> a, addr_2 |-> b]
\* one command for each pair of S
AppendAll(type, S, cmds) ==
    LET q == SetToSeq(S)
    IN cmds \o [i \in DOMAIN q |-> Cmd(type, q[i][1], q[i][2])]

-----------------------------------------------------------------------------
(* The comparison of the tables with what was reported, on a record s of   *)
(* the plugin's tables, the active flags and the commands so far.          *)

\* tc_create_node unless the node is there, and its active flag
tc_create_node(s, n) ==
    [(IF n \in InTab(s.tab)
      THEN s
      ELSE [s EXCEPT !.tab[Bucket[n]] = <<n>> \o @,
                     !.cmds = Append(@, Cmd("ADD_NODE", n, NoAddr))])
     EXCEPT !.actNodes = @ \cup {n}]

\* "prise en compte du bug des liens voisins": a link of this host counts only
\* while its end is a symmetric neighbour.
tc_is_in_neighbourhood(n) == n \in sym
Ignored(e) == e[1] = Me /\ ~tc_is_in_neighbourhood(e[2])

\* mutant: the far end is not created
tc_addLink_src_only(e, s) ==
    IF Ignored(e) THEN s
    ELSE [tc_create_node(s, e[1]) EXCEPT
            !.actLinks = @ \cup {e},
            !.links = @ \cup {e},
            !.cmds = IF e \in s.links THEN @ ELSE Append(@, Cmd("ADD_LINK", e[1], e[2]))]

tc_addLink(e, s) ==
    IF Ignored(e) THEN s
    ELSE LET t == tc_create_node(tc_create_node(s, e[1]), e[2])
         IN [t EXCEPT !.actLinks = @ \cup {e},
                      !.links = @ \cup {e},
                      !.cmds = IF e \in s.links THEN @ ELSE Append(@, Cmd("ADD_LINK", e[1], e[2]))]

\* tc_addMid for every alias of olsrd's mid_set
tc_addMid(s) ==
    [s EXCEPT !.mids = @ \cup mids, !.cmds = AppendAll("ADD_ALIAS", mids \ s.mids, @)]

tc_remove_useless_mid(s) ==
    [s EXCEPT !.mids = mids, !.cmds = AppendAll("REMOVE_ALIAS", s.mids \ mids, @)]

\* A node that leaves its bucket: only the head of the bucket is unlinked, the
\* predecessor of any other one keeps its pointer to the freed node.
Unlink(s, n) ==
    IF Head(s.tab[Bucket[n]]) = n
    THEN [s EXCEPT !.tab[Bucket[n]] = Tail(@)]
    ELSE [s EXCEPT !.freed = @ \cup {n}]

\* mutant: a node is taken out, its links stay in the router
RemoveLinksNone(s, n) == s
RemoveLinks(s, n) ==
    LET old == {e \in s.links : e[1] = n /\ e \notin s.actLinks}
    IN [s EXCEPT !.links = @ \ old, !.cmds = AppendAll("REMOVE_LINK", old, @)]

\* One pass of the loop of tc_remove_useless_link.
RemoveUseless(n, s) ==
    LET t   == RemoveLinks(s, n)
        own == {p \in t.mids : p[1] = n}
    IN IF n \in s.actNodes THEN t
       ELSE Unlink([t EXCEPT !.mids = @ \ own,
                             !.cmds = Append(AppendAll("REMOVE_ALIAS", own, @),
                                             Cmd("REMOVE_NODE", n, NoAddr))], n)

tc_remove_useless_link(s) == FoldSet(RemoveUseless, s, InTab(s.tab))

tc_check_data ==
    LET s0 == [tab |-> tab, freed |-> freed, links |-> curLinks, mids |-> curMids,
               actNodes |-> {}, actLinks |-> {}, cmds |-> <<>>]
        s1 == FoldSet(tc_addLink, s0, edges)
    IN tc_remove_useless_link(tc_remove_useless_mid(tc_addMid(s1)))

-----------------------------------------------------------------------------
(* The plugin's two entry points *)

\* mutant: notify stops with one message left
dev_send_but_last(cmds) ==
    chan' = IF connected' /\ cmds # <<>> THEN chan \o SubSeq(cmds, 1, Len(cmds) - 1) ELSE chan
dev_send(cmds) == chan' = IF connected' THEN chan \o cmds ELSE <<>>

\* called from olsr_process_changes; undefined once the table leads to freed nodes
olsrd_pcf_event ==
    /\ changed /\ freed = {}
    /\ changed' = FALSE /\ unflagged' = FALSE
    /\ UNCHANGED <<tcVars, olsrdVars, connected, early, changes>>
    /\ \E s \in {tc_check_data} :
          /\ tab' = s.tab /\ freed' = s.freed /\ curLinks' = s.links /\ curMids' = s.mids
          /\ dev_send(s.cmds)

\* mutant: the reset comes after the address
dev_send_init_swapped == <<Cmd("SET_LOCAL_ADDR", Me, NoAddr), Cmd("RESET_TC", NoAddr, NoAddr)>>
dev_send_init ==
    AppendAll("SET_ALIAS_ADDR", MyAliases \X {NoAddr},
        <<Cmd("RESET_TC", NoAddr, NoAddr), Cmd("SET_LOCAL_ADDR", Me, NoAddr)>>)

tc_send_all_data ==
    AppendAll("ADD_ALIAS", mids,
        AppendAll("ADD_LINK", edges,
            AppendAll("ADD_NODE", entries \X {NoAddr}, <<>>)))

\* A ser_routing process starts with an empty database and connects.
handleAccept ==
    /\ ~connected
    /\ connected' = TRUE
    /\ early' = (edges = {} /\ mids = {} /\ curMids = {} /\ InTab(tab) = {})
    /\ dev_send(dev_send_init \o tc_send_all_data)
    /\ tc_free_data
    /\ UNCHANGED <<olsrdVars, pluginVars, changed, unflagged, changes>>

\* The process ends; handleRead or handleWrite of its listener fails.
Disconnect ==
    /\ connected
    /\ connected' = FALSE /\ early' = FALSE
    /\ dev_send(<<>>)
    /\ UNCHANGED <<tcVars, olsrdVars, pluginVars, changed, unflagged, changes>>

-----------------------------------------------------------------------------
(* The client: OlsrEventClient::handleRead *)

Apply(c) ==
    CASE c.type = "RESET_TC"       -> tc_free_data
      [] c.type = "SET_LOCAL_ADDR" -> tc_set_local_addr(c.addr_1)
      [] c.type = "SET_ALIAS_ADDR" -> tc_set_local_alias(c.addr_1)
      [] c.type = "ADD_NODE"       -> tc_add_node(c.addr_1)
      [] c.type = "REMOVE_NODE"    -> tc_remove_node(c.addr_1)
      [] c.type = "ADD_LINK"       -> tc_add_link(c.addr_1, c.addr_2)
      [] c.type = "REMOVE_LINK"    -> tc_remove_link(c.addr_1, c.addr_2)
      [] c.type = "ADD_ALIAS"      -> tc_add_alias(c.addr_1, c.addr_2)
      [] c.type = "REMOVE_ALIAS"   -> tc_remove_alias(c.addr_1, c.addr_2)

handleRead ==
    /\ chan # <<>>
    /\ Apply(Head(chan))
    /\ chan' = Tail(chan)
    /\ UNCHANGED <<olsrdVars, pluginVars, changed, connected, early, unflagged, changes>>

-----------------------------------------------------------------------------
(* olsrd's tables, as far as the plugin reads them: what the functions     *)
(* that change them do to the sets of edges, neighbours and aliases, in    *)
(* any order messages and timers may call them.                            *)

Change(flag) ==
    /\ changes < MaxChanges
    /\ changes' = changes + 1
    /\ changed' = (changed \/ flag)
    /\ UNCHANGED <<tcVars, pluginVars, connected, early, chan>>

Changed == Change(TRUE) /\ UNCHANGED unflagged

\* the far end of an edge need not be an originator itself; olsrd adds an edge
\* of this host for a symmetric neighbour
EdgeUp(s, d) ==
    /\ Changed
    /\ <<s, d>> \notin edges /\ (s = Me => d \in sym)
    /\ edges' = edges \cup {<<s, d>>} /\ entries' = entries \cup {s}
    /\ UNCHANGED <<sym, mids, routed>>

\* olsrd never deletes the edge to a neighbour that is no longer symmetric
EdgeDown(s, d) ==
    /\ Changed
    /\ <<s, d>> \in edges /\ (s = Me => d \in sym)
    /\ edges' = edges \ {<<s, d>>}
    /\ UNCHANGED <<entries, sym, mids, routed>>

\* olsr_input_tc does not look at what olsr_delete_revoked_tc_edges answers
EdgeRevoked(s, d) ==
    /\ Change(FALSE)
    /\ unflagged' = TRUE
    /\ s # Me /\ <<s, d>> \in edges
    /\ edges' = edges \ {<<s, d>>}
    /\ UNCHANGED <<entries, sym, mids, routed>>

EntryExpires(s) ==
    /\ Changed
    /\ s \in entries \ {Me}
    /\ entries' = entries \ {s}
    /\ edges' = {e \in edges : e[1] # s}
    /\ routed' = {p \in routed : p[1] # s}
    /\ UNCHANGED <<sym, mids>>

NeighbourStatus(n) ==
    /\ Changed
    /\ sym' = IF n \in sym THEN sym \ {n} ELSE sym \cup {n}
    /\ UNCHANGED <<entries, edges, mids, routed>>

\* An alias is inserted unless it belongs to any node yet; its rt_path hangs off
\* a tc_entry, which is made for it.  The declared aliases are no neighbours'
\* addresses, so that the neighbour table stays as it is.
insert_mid_alias(n, D) == {<<n, x>> : x \in {x \in D : \A o \in Node : <<o, x>> \notin mids}}
olsr_prune_aliases(n, D) == {p \in mids : p[1] = n /\ p[2] \notin D}

\* n declares the aliases D, in a message that comes from a symmetric neighbour
olsr_process_received_mid(n, D) ==
    LET new == insert_mid_alias(n, D)
        old == olsr_prune_aliases(n, D)
    IN /\ sym # {}
       /\ new \cup old # {}
       /\ Changed
       /\ mids' = (mids \cup new) \ old
       /\ routed' = (routed \cup new) \ old
       /\ entries' = IF new = {} THEN entries ELSE entries \cup {n}
       /\ UNCHANGED <<edges, sym>>

\* The change is flagged by the deletion of an rt_path, which may have gone with
\* its tc_entry before.
olsr_delete_mid_entry(n) ==
    LET own == {p \in mids : p[1] = n}
    IN /\ own # {}
       /\ Change(own \cap routed # {})
       /\ mids' = mids \ own
       /\ routed' = routed \ own
       /\ UNCHANGED <<entries, edges, sym, unflagged>>

Olsrd ==
    \/ \E s \in Node, d \in Node :
          s # d /\ (EdgeUp(s, d) \/ EdgeDown(s, d) \/ EdgeRevoked(s, d))
    \/ \E n \in Node \ {Me} :
          \/ EntryExpires(n) \/ NeighbourStatus(n) \/ olsr_delete_mid_entry(n)
          \/ \E D \in SUBSET (Alias \ MyAliases) : olsr_process_received_mid(n, D)

-----------------------------------------------------------------------------
Init ==
    /\ tc_init_data
    /\ entries = {Me} /\ edges = {} /\ sym = {} /\ mids = {} /\ routed = {} /\ changed = FALSE
    /\ tab = [b \in Buckets |-> <<>>]
    /\ freed = {} /\ curLinks = {} /\ curMids = {}
    /\ connected = FALSE /\ early = FALSE /\ unflagged = FALSE
    /\ chan = <<>> /\ changes = 0

Next == Olsrd \/ olsrd_pcf_event \/ handleAccept \/ Disconnect \/ handleRead

Spec == Init /\ [][Next]_vars

-----------------------------------------------------------------------------
(* Properties *)

\* everything reported has arrived
Quiet == connected /\ ~changed /\ chan = <<>>

\* what the router should know: the edges of olsrd without those it ignores
Reported == {e \in edges : ~Ignored(e)}
SameLinks == \A e \in Node \X Node : links[e] = IF e \in Reported THEN 1 ELSE 0

\* A router that was connected before the topology came up has, whenever
\* everything reported has arrived, each link of olsrd's tables exactly once and
\* no other, however nodes, links and neighbours came and went in between.  The
\* exception is a link that was revoked after the last report.
LinksInSync == (Quiet /\ early /\ ~unflagged) => SameLinks

\* a step that hands the client its next command
Delivery == chan # <<>> /\ connected' = connected /\ chan' = Tail(chan)

\* the commands the client answers with MSG_FAILED, but for a REMOVE_LINK that
\* comes after the REMOVE_NODE of the link's far end and is not needed any more
Fails(c) ==
    \/ c.type = "REMOVE_NODE" /\ tc_get_node(c.addr_1) = NoAddr
    \/ c.type = "ADD_LINK" /\ NoAddr \in {tc_get_node(c.addr_1), tc_get_node(c.addr_2)}

\* "Failed to find src node for new tc link" and "Failed to find tc node to remove"
\* never happen to a router that was connected before the topology came up: each
\* command finds the nodes it is about.
CommandsApply == [][ Delivery /\ early => ~Fails(Head(chan)) ]_vars

\* The local addresses come before the topology, also for a router that connects
\* late, to a table that changes meanwhile: what tc_add_link compares with is there
\* when the first node is, and no link of this host goes without its local link.
PrologueFirst ==
    /\ nodes # {} => localAddr[0] = Me /\ \A x \in MyAliases : \E i \in Slots : localAddr[i] = x
    /\ \A d \in Node : links[<<Me, d>>] > 0 => LinksTo(localLinks, d) # {}

\* olsrd's main loop processes changes in every round (only olsrd_pcf_event does),
\* and TCP delivers (only handleRead does).
Processing == changed /\ freed = {} /\ changed' = FALSE
FairSpec == Spec /\ WF_changed(Processing) /\ WF_chan(Delivery)

\* Once olsrd's tables stop changing, a router that stays connected has their
\* links for good, unless the last change was a revocation: the last batch of
\* commands is not left behind in a queue.
CatchesUp == <>[](connected /\ early /\ ~unflagged) => <>[]SameLinks

-----------------------------------------------------------------------------
(* What the code says and does not keep *)

\* "Failed to find dst node for new tc link", "Failed to add node alias": a link or
\* an alias is sent to a router that knows its nodes.  What the router refuses is
\* not sent again.
NothingRefused ==
    [][ Delivery =>
          /\ Head(chan).type = "ADD_LINK" => ~Fails(Head(chan))
          /\ Head(chan).type = "ADD_ALIAS" => tc_get_node(Head(chan).addr_1) # NoAddr ]_vars
=============================================================================
