---------------------------- MODULE MCKDijkstra ----------------------------
(* KDijkstra on all directed graphs of four nodes, and on all undirected   *)
(* graphs of five nodes, which have disjoint paths of different lengths.   *)
EXTENDS KDijkstra, TLC

CONSTANTS s, a, b, c, d

Pairs(S) == {e \in S \X S : e[1] # e[2]}

Directed == SUBSET Pairs({s, a, b, d})

Undirected ==
    {{e \in Pairs(Node) : {e[1], e[2]} \in E} : E \in SUBSET {{e[1], e[2]} : e \in Pairs(Node)}}

MCGraphs == Directed \cup Undirected
=============================================================================
