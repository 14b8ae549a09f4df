----------------------------- MODULE KDijkstra -----------------------------
(***************************************************************************)
(* The path computation of the router (ser_path_djk.c): ConfPath rounds of *)
(* Dijkstra's algorithm from Src, each followed by a walk back from Dst    *)
(* that fills the buffer of the new path and raises the costs of the links *)
(* at its nodes for the next round.                                        *)
(*                                                                         *)
(* One run of tc_k_dijstra, from the search of the destination to the      *)
(* return, on every graph of Graphs.  The node list and the link lists     *)
(* have the order the topology commands left them in; it only decides      *)
(* between nodes of equal cost, so Relax chooses any of them.  Parallel    *)
(* links, and the failure of an allocation, are left out.                  *)
(***************************************************************************)
EXTENDS Integers, Sequences, FiniteSets

CONSTANTS
    Node,       \* g_tc_node_lst
    Null,       \* the null pointer
    Src, Dst,   \* the two nodes of the lookup
    Graphs,     \* the sets of links to run on
    ConfPath,   \* g_conf_path
    ConfFp,     \* g_conf_fp: penalty of a link of the path
    ConfFe,     \* g_conf_fe: penalty of another link into a node of the path
    StaleHops,  \* bound: what an earlier lookup may have left in dijkstra_hops
    MaxCost,    \* the largest unsigned long, written -1 in the code
    MaxHops     \* bound of the reference definition: no simple path is longer

ASSUME NodeAssumption == Src \in Node /\ Dst \in Node /\ Null \notin Node /\ IsFiniteSet(Node)
ASSUME GraphAssumption == \A g \in Graphs : g \subseteq {e \in Node \X Node : e[1] # e[2]}
ASSUME ConfAssumption ==
    /\ ConfPath \in Nat \ {0}
    /\ ConfFp \in Nat \ {0}
    /\ ConfFe \in Nat \ {0}
    /\ MaxCost \in Nat \ {0}
    /\ StaleHops \subseteq Nat
    /\ MaxHops \in Nat /\ Cardinality(Node) <= MaxHops + 1

VARIABLES
    pc,         \* the loop the code is in
    links,      \* the links of the topology
    linkCost,   \* dijkstra_cost of each link
    nextCost,   \* dijkstra_cost_p1 of each link
    todo,       \* the nodes of node_list: not processed yet
    cost,       \* dijkstra_cost of each node
    pred,       \* dijkstra_path of each node, Null for none
    hops,       \* dijkstra_hops of each node
    node, prev, \* the walk: its node and the one before, Null for none
    idx,        \* the walk: where buff points to in the path buffer
    path,       \* the buffer of the new path, Null where it is not written
    paths       \* the circular list of the cache entry, from lst_path on

vars == <<pc, links, linkCost, nextCost, todo, cost, pred, hops, node, prev, idx, path, paths>>

Unsigned(x) == x % (MaxCost + 1)
FP(c) == Unsigned(c * ConfFp)
FE(c) == Unsigned(c * ConfFe)

-----------------------------------------------------------------------------
Init ==
    /\ links \in Graphs
    /\ linkCost = [e \in links |-> 1]
    /\ nextCost = [e \in links |-> 1]
    /\ hops \in {h \in [Node -> StaleHops \cup {0}] : h[Src] = 0}
    /\ pc = "round"
    /\ todo = {}
    /\ cost = [n \in Node |-> 0]
    /\ pred = [n \in Node |-> Null]
    /\ node = Null /\ prev = Null
    /\ idx = 0
    /\ path = <<>>
    /\ paths = <<>>

\* mutant: dijkstra_cost keeps the values of the round before
StartRoundStale ==
    /\ pc = "round"
    /\ pc' = "loop"
    /\ todo' = Node
    /\ cost' = IF paths # <<>> THEN cost
               ELSE [n \in Node |-> IF n = Src THEN 0 ELSE MaxCost]
    /\ pred' = [n \in Node |-> Null]
    /\ UNCHANGED <<links, linkCost, nextCost, hops, node, prev, idx, path, paths>>

\* dijkstra: init node list to process and node cost
StartRound ==
    /\ pc = "round"
    /\ pc' = "loop"
    /\ todo' = Node
    /\ cost' = [n \in Node |-> IF n = Src THEN 0 ELSE MaxCost]
    /\ pred' = [n \in Node |-> Null]
    /\ UNCHANGED <<links, linkCost, nextCost, hops, node, prev, idx, path, paths>>

LeastCostNodesAny == {n \in todo : cost[n] < MaxCost}   \* mutant: any node with a cost

\* find node with least cost; no node costs less than the initial -1 once only
\* unreachable ones are left
LeastCostNodes == {n \in todo : cost[n] < MaxCost /\ \A o \in todo : cost[n] <= cost[o]}

RestAll(n) == todo         \* mutant: the node is not unlinked

\* remove min node from list to process
Rest(n) == todo \ {n}

HopsSame(n) == hops[n]     \* mutant: the hop itself is not counted
HopsVia(n) == hops[n] + 1

\* the neighbours of n that its links bring nearer: update min node neighbourhood
Nearer(n) ==
    {d \in todo \ {n} : <<n, d>> \in links /\ Unsigned(cost[n] + linkCost[<<n, d>>]) < cost[d]}

Relax ==
    /\ pc = "loop"
    /\ \E n \in LeastCostNodes :
          /\ todo' = Rest(n)
          /\ cost' = [d \in Node |-> IF d \in Nearer(n) THEN Unsigned(cost[n] + linkCost[<<n, d>>])
                                                       ELSE cost[d]]
          /\ pred' = [d \in Node |-> IF d \in Nearer(n) THEN n ELSE pred[d]]
          /\ hops' = [d \in Node |-> IF d \in Nearer(n) THEN HopsVia(n) ELSE hops[d]]
    /\ UNCHANGED <<pc, links, linkCost, nextCost, node, prev, idx, path, paths>>

FirstIdx == hops[Dst]

\* retrieve path from src to dst nodes: allocate a buffer of dijkstra_hops
\* addresses and start at its last one, or give up when dst was not reached
EndRound ==
    /\ pc = "loop"
    /\ LeastCostNodes = {}
    /\ IF cost[Dst] = MaxCost
       THEN pc' = "done" /\ UNCHANGED <<node, prev, idx, path>>
       ELSE /\ pc' = "walk"
            /\ node' = Dst
            /\ prev' = Null
            /\ idx' = FirstIdx
            /\ path' = [i \in 1..hops[Dst] |-> Null]
    /\ UNCHANGED <<links, linkCost, nextCost, todo, cost, pred, hops, paths>>

NotPenalised(n, p, e) == nextCost[e]      \* mutant: the costs stay as they are

\* update link cost: the links into prev, then the link back from prev to node
Penalised(n, p, e) ==
    IF e = <<p, n>> THEN FP(linkCost[e])
    ELSE IF e[2] # p THEN nextCost[e]
    ELSE IF e[1] = n THEN FP(linkCost[e]) ELSE FE(linkCost[e])

\* One step of the walk from dst back to src
Walk ==
    /\ pc = "walk"
    /\ node # Null
    /\ IF pred[node] # Null
       THEN path' = [path EXCEPT ![idx] = node] /\ idx' = idx - 1
       ELSE UNCHANGED <<path, idx>>
    /\ nextCost' = IF prev = Null THEN nextCost
                   ELSE [e \in links |-> Penalised(node, prev, e)]
    /\ prev' = node
    /\ node' = pred[node]
    /\ UNCHANGED <<pc, links, linkCost, todo, cost, pred, hops, paths>>

\* update cache entry: the first path opens the ring, a later one goes behind it
Store ==
    /\ pc = "walk"
    /\ node = Null
    /\ linkCost' = nextCost
    /\ paths' = IF paths = <<>> THEN <<path>> ELSE <<Head(paths), path>> \o Tail(paths)
    /\ pc' = IF Len(paths) + 1 = ConfPath THEN "done" ELSE "round"
    /\ UNCHANGED <<links, nextCost, todo, cost, pred, hops, node, prev, idx, path>>

Next == StartRound \/ Relax \/ EndRound \/ Walk \/ Store

Spec == Init /\ [][Next]_vars

\* nothing but the lookup itself runs while it holds the write lock
FairSpec == Spec /\ WF_vars(Next)

-----------------------------------------------------------------------------
(* Properties *)

CostRange == 0..MaxCost
MaybeNode == Node \cup {Null}

\* Type invariant; in particular every cost fits its unsigned long and every
\* entry of a path is written.
TypeOK ==
    /\ pc \in {"round", "loop", "walk", "done"}
    /\ links \subseteq Node \X Node
    /\ linkCost \in [links -> Nat] /\ nextCost \in [links -> Nat]
    /\ todo \subseteq Node
    /\ cost \in [Node -> Nat]
    /\ pred \in [Node -> MaybeNode]
    /\ hops \in [Node -> Nat]
    /\ node \in MaybeNode /\ prev \in MaybeNode
    /\ idx \in Int
    /\ path \in Seq(MaybeNode)
    /\ paths \in Seq(Seq(Node))

\* The walk back from dst writes exactly the dijkstra_hops addresses the path
\* buffer was allocated for: no write before its first or after its last entry,
\* and none left out.  dijkstra_hops is never reset between two lookups.
BufferFits ==
    pc = "walk" =>
        IF node = Null
        THEN \A i \in DOMAIN path : path[i] # Null
        ELSE pred[node] # Null => idx \in DOMAIN path

\* The link that leads to entry i of p
Hop(p, i) == <<IF i = 1 THEN Src ELSE p[i - 1], p[i]>>

\* A simple path over links, without its source
IsPath(p) ==
    /\ IF p = <<>> THEN Src = Dst ELSE p[Len(p)] = Dst
    /\ \A i, j \in DOMAIN p : p[i] = p[j] => i = j
    /\ \A i \in DOMAIN p : p[i] # Src /\ Hop(p, i) \in links

\* Every path in the cache entry leads from src to dst over links of the topology
\* and meets no node twice: the datagram cannot loop.
PathsSimple == \A k \in DOMAIN paths : IsPath(paths[k])

-----------------------------------------------------------------------------
(* Reference definitions *)

AllPaths == {p \in UNION {[1..h -> Node] : h \in 0..MaxHops} : IsPath(p)}

\* What the way to each entry of p costs
CostsAlong(p) ==
    LET sum[i \in 0..Len(p)] == IF i = 0 THEN 0 ELSE sum[i - 1] + linkCost[Hop(p, i)]
    IN sum
PathCost(p) == CostsAlong(p)[Len(p)]

\* The path of a round is a cheapest one for the link costs of that round.
LeastCost ==
    (pc = "walk" /\ node = Null) => \A p \in AllPaths : PathCost(path) <= PathCost(p)

\* What the path cache relies on: each round finds a cheapest path for the costs
\* the rounds before have left, and in the end there are no paths in the entry
\* exactly when there is no path, otherwise ConfPath, the first one a shortest.
Contract ==
    /\ LeastCost
    /\ pc = "done" =>
          IF AllPaths = {}
          THEN paths = <<>>
          ELSE /\ Len(paths) = ConfPath
               /\ \A p \in AllPaths : Len(paths[1]) <= Len(p)

Nodes(p) == {p[i] : i \in DOMAIN p} \ {Dst}

\* The point of the penalties: the second path (the last of the ring) is another
\* one whenever there is another path that shares no inner node with the first and
\* is, with the penalty of its last link, shorter than the penalised first one.
SecondPathDiffers ==
    (pc = "done" /\ Len(paths) > 1 /\ Src # Dst) =>
        \A q \in AllPaths :
            (/\ q # paths[1] /\ Nodes(q) \cap Nodes(paths[1]) = {}
             /\ Len(q) - 1 + ConfFe < ConfFp * Len(paths[1])) => paths[Len(paths)] # paths[1]

\* The three nested loops end, on every graph.
Termination == <>(pc = "done")
=============================================================================
