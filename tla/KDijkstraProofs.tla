-------------------------- MODULE KDijkstraProofs --------------------------
(***************************************************************************)
(* Proofs about KDijkstra for every graph, every number of paths and every *)
(* penalty.                                                                *)
(*                                                                         *)
(* The walk stays inside the path buffer, and what it leaves there is a    *)
(* simple path: processed nodes form a tree rooted in Src in which         *)
(* dijkstra_hops is the depth (Tree), so the walk from Dst meets nodes of  *)
(* depth idx, idx - 1, ..., 1 and then Src (Walked).                       *)
(*                                                                         *)
(* Each round finds a cheapest path (CheapInv), and the penalties of the   *)
(* first one make the second another one where they should (SecondInv), as *)
(* long as no cost wraps around (CostsFit).                                *)
(***************************************************************************)
EXTENDS KDijkstra, TLAPS, FiniteSetTheorems, NaturalsInduction, WellFoundedInduction

HasPred(n) ==
    /\ pred[n] \in Node \ todo
    /\ n # Src
    /\ <<pred[n], n>> \in links
    /\ hops[n] = hops[pred[n]] + 1

Tree ==
    pc \in {"loop", "walk"} =>
        /\ pred[Src] = Null
        /\ cost[Src] = 0
        /\ \A n \in Node : pred[n] # Null => HasPred(n)
        /\ \A n \in Node \ {Src} : pred[n] = Null => n \in todo /\ cost[n] = MaxCost

From == IF node = Null THEN Src ELSE node

\* entry i of the path buffer is written, at depth i, and linked to the one before
Written(i) ==
    /\ path[i] \in Node \ {Src}
    /\ hops[path[i]] = i
    /\ <<IF i = idx + 1 THEN From ELSE path[i - 1], path[i]>> \in links

Walked ==
    pc = "walk" =>
        /\ Len(path) = hops[Dst]
        /\ idx \in 0..Len(path)
        /\ idx = hops[From]
        /\ node # Null => node = Src \/ pred[node] # Null
        /\ IF idx = Len(path) THEN From = Dst ELSE path[Len(path)] = Dst
        /\ \A i \in (idx + 1)..Len(path) : Written(i)

Inv == TypeOK /\ hops[Src] = 0 /\ Tree /\ Walked /\ PathsSimple

-----------------------------------------------------------------------------
LEMMA UnsignedType == \A x \in Nat : Unsigned(x) \in Nat
BY ConfAssumption DEF Unsigned

\* entry k of a concatenation
LEMMA ConcatEntry ==
    ASSUME NEW S, NEW h \in Seq(S), NEW t \in Seq(S), NEW k \in 1..(Len(h) + Len(t))
    PROVE  (h \o t)[k] = IF k <= Len(h) THEN h[k] ELSE t[k - Len(h)]
OBVIOUS

LEMMA ConcatType ==
    ASSUME NEW S, NEW h \in Seq(S), NEW t \in Seq(S)
    PROVE  h \o t \in Seq(S) /\ Len(h \o t) = Len(h) + Len(t)
OBVIOUS

LEMMA InitInv == Init => Inv
<1> SUFFICES ASSUME Init PROVE Inv
  OBVIOUS
<1>1. links \subseteq Node \X Node
  BY GraphAssumption DEF Init
<1>2. hops \in [Node -> Nat] /\ hops[Src] = 0
  <2>1. StaleHops \cup {0} \subseteq Nat
    BY ConfAssumption
  <2>2. hops \in [Node -> StaleHops \cup {0}] /\ hops[Src] = 0
    BY DEF Init
  <2> QED
    BY <2>1, <2>2
<1>3. path \in Seq(MaybeNode) /\ paths \in Seq(Seq(Node))
  BY DEF Init
<1>4. TypeOK
  BY <1>1, <1>2, <1>3 DEF Init, TypeOK, MaybeNode
<1> QED
  BY <1>2, <1>4 DEF Init, Inv, Tree, Walked, PathsSimple

LEMMA StartRoundInv == Inv /\ StartRound => Inv'
<1> SUFFICES ASSUME Inv, StartRound PROVE Inv'
  OBVIOUS
<1> USE NodeAssumption, ConfAssumption
<1>1. TypeOK'
  BY DEF Inv, StartRound, TypeOK, MaybeNode
<1>2. Tree' /\ Walked' /\ hops'[Src] = 0
  BY DEF Inv, StartRound, TypeOK, Tree, Walked
<1>3. PathsSimple'
  BY DEF Inv, StartRound, PathsSimple, IsPath
<1> QED
  BY <1>1, <1>2, <1>3 DEF Inv

LEMMA RelaxInv == Inv /\ Relax => Inv'
<1> SUFFICES ASSUME Inv, Relax PROVE Inv'
  OBVIOUS
<1> USE NodeAssumption, ConfAssumption
<1>1. PICK n \in LeastCostNodes :
          /\ todo' = Rest(n)
          /\ cost' = [d \in Node |-> IF d \in Nearer(n) THEN Unsigned(cost[n] + linkCost[<<n, d>>])
                                                       ELSE cost[d]]
          /\ pred' = [d \in Node |-> IF d \in Nearer(n) THEN n ELSE pred[d]]
          /\ hops' = [d \in Node |-> IF d \in Nearer(n) THEN HopsVia(n) ELSE hops[d]]
  BY DEF Relax
<1>2. n \in todo /\ n \in Node /\ cost[n] < MaxCost
  BY <1>1 DEF LeastCostNodes, Inv, TypeOK
<1>3. \A d \in Nearer(n) : d \in todo \ {n} /\ <<n, d>> \in links
                           /\ Unsigned(cost[n] + linkCost[<<n, d>>]) \in Nat
  <2> SUFFICES ASSUME NEW d \in Nearer(n)
               PROVE d \in todo \ {n} /\ <<n, d>> \in links
                           /\ Unsigned(cost[n] + linkCost[<<n, d>>]) \in Nat
    OBVIOUS
  <2>1. d \in todo \ {n} /\ <<n, d>> \in links
    BY DEF Nearer
  <2>2. cost[n] + linkCost[<<n, d>>] \in Nat
    BY <1>2, <2>1, SMTT(20) DEF Inv, TypeOK
  <2> QED
    BY <2>1, <2>2, UnsignedType
<1>4. Src \notin Nearer(n)
  <2> SUFFICES ASSUME Src \in Nearer(n) PROVE FALSE
    OBVIOUS
  <2>1. cost[Src] = 0
    BY DEF Inv, Tree, Relax
  <2> QED
    BY <1>3, <2>1 DEF Nearer
<1>5. TypeOK'
  <2>1. cost' \in [Node -> Nat] /\ pred' \in [Node -> MaybeNode]
    BY <1>1, <1>2, <1>3 DEF Inv, TypeOK, MaybeNode
  <2>2. hops' \in [Node -> Nat]
    BY <1>1, <1>2 DEF Inv, TypeOK, HopsVia
  <2>3. todo' \subseteq Node
    BY <1>1 DEF Inv, TypeOK, Rest
  <2> QED
    BY <2>1, <2>2, <2>3 DEF Inv, TypeOK, Relax
<1>6. hops'[Src] = 0
  BY <1>1, <1>4 DEF Inv, TypeOK
<1>7. Tree'
  <2>1. pred'[Src] = Null /\ cost'[Src] = 0
    BY <1>1, <1>4 DEF Inv, TypeOK, Tree, Relax
  <2>2. ASSUME NEW d \in Node, pred'[d] # Null PROVE HasPred(d)'
    <3>1. CASE d \in Nearer(n)
      <4>1. pred'[d] = n /\ hops'[d] = hops[n] + 1 /\ hops'[n] = hops[n]
        BY <3>1, <1>1, <1>2, <1>3 DEF HopsVia, Inv, TypeOK
      <4>2. n \in Node \ todo' /\ <<n, d>> \in links' /\ d # Src
        BY <3>1, <1>1, <1>2, <1>3, <1>4 DEF Rest, Relax
      <4> QED
        BY <4>1, <4>2 DEF HasPred
    <3>2. CASE d \notin Nearer(n)
      <4>1. pred'[d] = pred[d] /\ hops'[d] = hops[d]
        BY <3>2, <1>1 DEF Inv, TypeOK
      <4>2. HasPred(d)
        BY <2>2, <4>1 DEF Inv, Tree, Relax
      <4>3. hops'[pred[d]] = hops[pred[d]]
        BY <4>2, <1>1, <1>3 DEF HasPred, Inv, TypeOK
      <4> QED
        BY <4>1, <4>2, <4>3, <1>1 DEF HasPred, Rest, Relax
    <3> QED
      BY <3>1, <3>2
  <2>3. ASSUME NEW d \in Node \ {Src}, pred'[d] = Null
        PROVE d \in todo' /\ cost'[d] = MaxCost
    <3>1. d \notin Nearer(n) /\ pred[d] = Null
      BY <2>3, <1>1, <1>2 DEF Inv, TypeOK
    <3>2. d \in todo /\ cost[d] = MaxCost
      BY <3>1 DEF Inv, Tree, Relax
    <3> QED
      BY <3>1, <3>2, <1>1, <1>2 DEF Rest, Inv, TypeOK
  <2> QED
    BY <2>1, <2>2, <2>3 DEF Tree
<1>8. Walked'
  BY DEF Walked, Relax
<1>9. PathsSimple'
  BY DEF Inv, Relax, PathsSimple, IsPath
<1> QED
  BY <1>5, <1>6, <1>7, <1>8, <1>9 DEF Inv

LEMMA EndRoundInv == Inv /\ EndRound => Inv'
<1> SUFFICES ASSUME Inv, EndRound PROVE Inv'
  OBVIOUS
<1> USE NodeAssumption, ConfAssumption
<1>9. PathsSimple'
  BY DEF Inv, EndRound, PathsSimple, IsPath
<1>1. CASE cost[Dst] = MaxCost
  BY <1>1, <1>9 DEF Inv, EndRound, TypeOK, Tree, Walked
<1>2. CASE cost[Dst] # MaxCost
  <2>1. hops[Dst] \in Nat /\ path' = [i \in 1..hops[Dst] |-> Null]
        /\ idx' = hops[Dst] /\ node' = Dst /\ pc = "loop" /\ pc' = "walk"
        /\ UNCHANGED <<links, linkCost, nextCost, todo, cost, pred, hops, paths>>
    BY <1>2 DEF Inv, TypeOK, EndRound, FirstIdx
  <2>2. path' \in Seq(MaybeNode) /\ Len(path') = hops[Dst]
    BY <2>1, SMT DEF MaybeNode
  <2>3. TypeOK'
    BY <1>2, <2>1, <2>2 DEF Inv, TypeOK, EndRound, MaybeNode
  <2>4. Tree'
    BY <2>1 DEF Inv, Tree, HasPred
  <2>5. Dst = Src \/ pred[Dst] # Null
    BY <1>2, <2>1 DEF Inv, Tree
  <2>6. From' = Dst /\ Dst # Null
    BY <2>1 DEF From
  <2>7. Walked'
    BY <2>1, <2>2, <2>5, <2>6 DEF Walked
  <2> QED
    BY <1>9, <2>1, <2>3, <2>4, <2>7 DEF Inv
<1> QED
  BY <1>1, <1>2

LEMMA PenaltyType ==
    ASSUME TypeOK
    PROVE  \A n, p : [e \in links |-> Penalised(n, p, e)] \in [links -> Nat]
<1> SUFFICES ASSUME NEW n, NEW p, NEW e \in links PROVE Penalised(n, p, e) \in Nat
  OBVIOUS
<1>1. linkCost[e] \in Nat /\ nextCost[e] \in Nat
  BY DEF TypeOK
<1>2. linkCost[e] * ConfFp \in Nat /\ linkCost[e] * ConfFe \in Nat
  BY <1>1, ConfAssumption
<1> QED
  BY <1>1, <1>2, UnsignedType DEF Penalised, FP, FE

LEMMA WalkInv == Inv /\ Walk => Inv'
<1> SUFFICES ASSUME Inv, Walk PROVE Inv'
  OBVIOUS
<1> USE NodeAssumption, ConfAssumption
<1>1. /\ pc = "walk" /\ pc' = "walk" /\ node \in Node /\ node # Null
      /\ prev' = node /\ node' = pred[node] /\ pred[node] \in MaybeNode
      /\ UNCHANGED <<links, linkCost, todo, cost, pred, hops, paths>>
  BY DEF Walk, Inv, TypeOK, MaybeNode
<1>2. /\ Len(path) = hops[Dst] /\ idx \in 0..Len(path) /\ idx = hops[node]
      /\ node = Src \/ pred[node] # Null
      /\ IF idx = Len(path) THEN node = Dst ELSE path[Len(path)] = Dst
      /\ \A i \in (idx + 1)..Len(path) : Written(i)
      /\ From = node
  BY <1>1 DEF Inv, Walked, From
<1>3. nextCost' \in [links -> Nat]
  <2>1. [e \in links |-> Penalised(node, prev, e)] \in [links -> Nat] /\ nextCost \in [links -> Nat]
    <3>1. nextCost \in [links -> Nat]
      BY DEF Inv, TypeOK
    <3>2. TypeOK
      BY DEF Inv
    <3>3. \A n, p : [e \in links |-> Penalised(n, p, e)] \in [links -> Nat]
      BY <3>2, PenaltyType
    <3> QED
      BY <3>1, <3>3
  <2>2. nextCost' = nextCost \/ nextCost' = [e \in links |-> Penalised(node, prev, e)]
    BY DEF Walk
  <2> QED
    BY <2>1, <2>2
<1>4. Tree'
  BY <1>1 DEF Inv, Tree, HasPred
<1>5. PathsSimple'
  BY <1>1 DEF Inv, PathsSimple, IsPath
<1>6. CASE pred[node] # Null
  <2>1. HasPred(node)
    BY <1>1, <1>6 DEF Inv, Tree
  <2>2. path' = [path EXCEPT ![idx] = node] /\ idx' = idx - 1
    BY <1>6 DEF Walk
  <2>3. pred[node] \in Node /\ hops[pred[node]] \in Nat /\ hops[node] = hops[pred[node]] + 1
    BY <2>1 DEF HasPred, Inv, TypeOK
  <2>4. idx \in 1..Len(path) /\ path \in Seq(MaybeNode)
    BY <1>2, <2>3 DEF Inv, TypeOK
  <2>5. path' \in Seq(MaybeNode) /\ Len(path') = Len(path)
        /\ path'[idx] = node /\ \A i \in 1..Len(path) : i # idx => path'[i] = path[i]
    BY <2>2, <2>4, <1>1, SMT DEF MaybeNode
  <2>6. From' = pred[node] /\ From' # Null
    BY <1>1, <2>3 DEF From
  <2>7. TypeOK'
    <3>1. idx' \in Int /\ path' \in Seq(MaybeNode)
      BY <2>2, <2>4, <2>5
    <3>2. node' \in MaybeNode /\ prev' \in MaybeNode
      BY <1>1 DEF Inv, TypeOK
    <3> QED
      BY <1>1, <1>3, <3>1, <3>2 DEF Inv, TypeOK
  <2>8. ASSUME NEW i \in (idx' + 1)..Len(path') PROVE Written(i)'
    <3>1. i \in idx..Len(path) /\ i \in Nat
      BY <2>2, <2>4, <2>5
    <3>2. CASE i = idx
      <4>1. i = idx' + 1 /\ path'[i] = node /\ hops'[node] = i
        BY <3>2, <2>2, <2>4, <2>5, <1>1, <1>2
      <4>2. node # Src /\ <<From', node>> \in links'
        BY <2>1, <2>6, <1>1 DEF HasPred
      <4> QED
        BY <4>1, <4>2, <1>1 DEF Written
    <3>3. CASE i # idx
      <4>1. Written(i) /\ path'[i] = path[i] /\ i # idx' + 1
        BY <3>1, <3>3, <1>2, <2>2, <2>4, <2>5
      <4>2. path'[i - 1] = IF i = idx + 1 THEN From ELSE path[i - 1]
        BY <3>1, <3>3, <2>4, <2>5, <1>2
      <4> QED
        BY <4>1, <4>2, <1>1 DEF Written
    <3> QED
      BY <3>2, <3>3
  <2>9. path'[Len(path')] = Dst /\ idx' # Len(path')
    BY <1>2, <2>2, <2>4, <2>5
  <2>10. idx' \in 0..Len(path') /\ idx' = hops'[From']
    BY <1>1, <1>2, <2>2, <2>3, <2>4, <2>5, <2>6
  <2>11. pred[node] = Src \/ pred[pred[node]] # Null
    BY <2>1, <2>3, <1>1 DEF Inv, Tree, HasPred
  <2>12. Walked'
    BY <1>1, <1>2, <2>5, <2>8, <2>9, <2>10, <2>11 DEF Walked
  <2> QED
    BY <1>1, <1>4, <1>5, <2>7, <2>12 DEF Inv
<1>7. CASE pred[node] = Null
  <2>1. node = Src /\ From' = Src /\ UNCHANGED <<path, idx>>
    BY <1>1, <1>2, <1>7 DEF Walk, From
  <2>2. TypeOK'
    BY <1>1, <1>3, <2>1 DEF Inv, TypeOK, MaybeNode
  <2>3. \A i \in (idx + 1)..Len(path) : Written(i)'
    BY <1>1, <1>2, <2>1 DEF Written
  <2>4. Walked'
    BY <1>1, <1>2, <1>7, <2>1, <2>3 DEF Walked
  <2> QED
    BY <1>1, <1>4, <1>5, <2>2, <2>4 DEF Inv
<1> QED
  BY <1>6, <1>7

\* What the walk leaves in the buffer is a simple path.
LEMMA WalkedPath ==
    ASSUME Inv, pc = "walk", node = Null
    PROVE  IsPath(path) /\ path \in Seq(Node)
<1> USE NodeAssumption
<1>1. /\ idx = 0 /\ path \in Seq(MaybeNode) /\ Len(path) \in Nat
      /\ IF 0 = Len(path) THEN Src = Dst ELSE path[Len(path)] = Dst
      /\ \A i \in 1..Len(path) : Written(i)
      /\ From = Src
  BY DEF Inv, Walked, From, TypeOK
<1>2. DOMAIN path = 1..Len(path)
  BY <1>1
<1>3. \A i \in DOMAIN path : path[i] \in Node /\ path[i] # Src /\ hops[path[i]] = i
  BY <1>1, <1>2 DEF Written
<1>4. \A i, j \in DOMAIN path : path[i] = path[j] => i = j
  BY <1>3
<1>5. \A i \in DOMAIN path : <<IF i = 1 THEN Src ELSE path[i - 1], path[i]>> \in links
  <2> TAKE i \in DOMAIN path
  <2>1. Written(i) /\ i \in Nat
    BY <1>1, <1>2
  <2> QED
    BY <2>1, <1>1 DEF Written
<1>6. path \in Seq(Node)
  BY <1>1, <1>2, <1>3, SMT
<1>7. IF path = <<>> THEN Src = Dst ELSE path[Len(path)] = Dst
  BY <1>1
<1> QED
  BY <1>3, <1>4, <1>5, <1>6, <1>7 DEF IsPath, Hop

LEMMA StoreInv == Inv /\ Store => Inv'
<1> SUFFICES ASSUME Inv, Store PROVE Inv'
  OBVIOUS
<1> USE NodeAssumption, ConfAssumption
<1>1. IsPath(path) /\ path \in Seq(Node)
  BY WalkedPath DEF Store
<1>2. paths \in Seq(Seq(Node)) /\ \A k \in DOMAIN paths : IsPath(paths[k])
  BY DEF Inv, TypeOK, PathsSimple
<1>3. paths' \in Seq(Seq(Node)) /\ \A k \in DOMAIN paths' : paths'[k] = path
                                      \/ \E j \in DOMAIN paths : paths'[k] = paths[j]
  <2>1. CASE paths = <<>>
    BY <2>1, <1>1 DEF Store
  <2>2. CASE paths # <<>>
    <3>1. paths' = <<Head(paths), path>> \o Tail(paths)
      BY <2>2 DEF Store
    <3>2. Head(paths) \in Seq(Node) /\ Tail(paths) \in Seq(Seq(Node)) /\ Head(paths) = paths[1]
          /\ 1 \in DOMAIN paths /\ Len(Tail(paths)) = Len(paths) - 1
          /\ \A i \in 1..Len(Tail(paths)) : Tail(paths)[i] = paths[i + 1] /\ i + 1 \in DOMAIN paths
      BY <1>2, <2>2
    <3> DEFINE h == <<Head(paths), path>>
               t == Tail(paths)
               S == Seq(Node)
    <3>3. h \in Seq(S) /\ Len(h) = 2 /\ h[1] = paths[1] /\ h[2] = path
      BY <1>1, <3>2
    <3>4. t \in Seq(S) /\ \A i \in 1..Len(t) : t[i] = paths[i + 1] /\ i + 1 \in DOMAIN paths
      BY <3>2
    <3>5. paths' = h \o t
      BY <3>1
    <3> HIDE DEF h, t, S
    <3>6. paths' \in Seq(Seq(Node)) /\ DOMAIN paths' = 1..(2 + Len(t))
      <4>1. h \o t \in Seq(S) /\ Len(h \o t) = 2 + Len(t)
        BY <3>3, <3>4, ConcatType
      <4>2. paths' \in Seq(S) /\ DOMAIN paths' = 1..(2 + Len(t))
        BY <3>5, <4>1
      <4> QED
        BY <4>2 DEF S
    <3>7. ASSUME NEW k \in DOMAIN paths'
          PROVE paths'[k] = path \/ \E j \in DOMAIN paths : paths'[k] = paths[j]
      <4>0. k \in 1..(2 + Len(t)) /\ Len(t) \in Nat
        BY <3>4, <3>6
      <4>1. (h \o t)[k] = IF k <= 2 THEN h[k] ELSE t[k - 2]
        <5>1. k \in 1..(Len(h) + Len(t))
          BY <4>0, <3>3
        <5>2. (h \o t)[k] = IF k <= Len(h) THEN h[k] ELSE t[k - Len(h)]
          <6>1. h \in Seq(S) /\ t \in Seq(S)
            BY <3>3, <3>4
          <6> QED
            BY <5>1, <6>1, ConcatEntry
        <5> QED
          BY <5>2, <3>3
      <4>2. CASE k = 1
        <5>1. paths'[1] = h[1]
          BY <4>1, <4>2, <3>5
        <5> QED
          BY <4>2, <5>1, <3>2, <3>3
      <4>3. CASE k = 2
        BY <4>1, <4>3, <3>3, <3>5
      <4>4. CASE k > 2
        <5>1. k - 2 \in 1..Len(t) /\ paths'[k] = t[k - 2]
          BY <4>0, <4>1, <4>4, <3>5
        <5> QED
          BY <5>1, <3>4
      <4> QED
        BY <4>0, <4>2, <4>3, <4>4
    <3> QED
      BY <3>6, <3>7
  <2> QED
    BY <2>1, <2>2
<1>4. \A p : IsPath(p)' <=> IsPath(p)
  BY DEF IsPath, Store
<1>5. PathsSimple'
  BY <1>1, <1>2, <1>3, <1>4 DEF PathsSimple
<1>6. TypeOK'
  BY <1>3 DEF Inv, TypeOK, Store
<1>7. Tree' /\ Walked' /\ hops'[Src] = 0
  BY DEF Inv, Store, Tree, Walked
<1> QED
  BY <1>5, <1>6, <1>7 DEF Inv

LEMMA InvStep == Inv /\ [Next]_vars => Inv'
<1> SUFFICES ASSUME Inv, [Next]_vars PROVE Inv'
  OBVIOUS
<1>1. CASE UNCHANGED vars
  BY <1>1 DEF vars, Inv, TypeOK, Tree, HasPred, Walked, Written, From, PathsSimple, IsPath, MaybeNode
<1> QED
  BY <1>1, StartRoundInv, RelaxInv, EndRoundInv, WalkInv, StoreInv DEF Next

LEMMA InvAlways == Spec => []Inv
BY InitInv, InvStep, PTL DEF Spec

\* On every graph the fields of the nodes, the links and the paths of
\* tc_k_dijstra keep to their types; in particular a finished path has no hole.
THEOREM KDijkstraTypeCorrect == Spec => []TypeOK
<1>1. Inv => TypeOK
  BY DEF Inv
<1> QED
  BY <1>1, InvAlways, PTL

\* On every graph and whatever dijkstra_hops an earlier lookup left, the walk of
\* tc_k_dijstra writes each entry of the path buffer and nothing else.
THEOREM WalkInBuffer == Spec => []BufferFits
<1>1. Inv => BufferFits
  <2> SUFFICES ASSUME Inv, pc = "walk"
               PROVE IF node = Null THEN \A i \in DOMAIN path : path[i] # Null
                     ELSE pred[node] # Null => idx \in DOMAIN path
    BY DEF BufferFits
  <2>1. CASE node = Null
    <3>1. path \in Seq(Node)
      BY <2>1, WalkedPath
    <3> QED
      BY <2>1, <3>1, NodeAssumption
  <2>2. CASE node # Null /\ pred[node] # Null
    <3>1. HasPred(node) /\ node \in Node
      BY <2>2 DEF Inv, Tree, TypeOK, MaybeNode
    <3>2. hops[pred[node]] \in Nat /\ idx = hops[pred[node]] + 1 /\ idx \in 0..Len(path)
      BY <2>2, <3>1 DEF HasPred, Inv, TypeOK, Walked, From
    <3>3. DOMAIN path = 1..Len(path) /\ Len(path) \in Nat
      BY DEF Inv, TypeOK
    <3> QED
      BY <2>2, <3>2, <3>3
  <2> QED
    BY <2>1, <2>2
<1> QED
  BY <1>1, InvAlways, PTL

\* Every path tc_k_dijstra puts into the cache is a simple path from src to dst.
THEOREM CachedPathsSimple == Spec => []PathsSimple
<1>1. Inv => PathsSimple
  BY DEF Inv
<1> QED
  BY <1>1, InvAlways, PTL

-----------------------------------------------------------------------------
(***************************************************************************)
(* Cheapest paths.                                                         *)
(*                                                                         *)
(* The costs are unsigned longs: what Dijkstra's algorithm promises holds  *)
(* as long as no sum and no penalty wraps around.  Where L[r] bounds the   *)
(* costs of the links after r penalties, a path of them has to fit.        *)
(***************************************************************************)

CostsFit(L) ==
    /\ L \in [0..ConfPath -> Nat] /\ L[0] >= 1
    /\ \A r \in 0..(ConfPath - 1) : L[r] * ConfFp <= L[r + 1] /\ L[r] * ConfFe <= L[r + 1]
    /\ \A r \in 0..ConfPath : L[r] * Cardinality(Node) < MaxCost

Processed == Node \ todo

Prices(L) ==
    pc # "done" =>
        /\ Len(paths) < ConfPath
        /\ \A e \in links : linkCost[e] <= L[Len(paths)] /\ nextCost[e] <= L[Len(paths) + 1]
        /\ pc # "walk" => nextCost = linkCost

\* the cost and the hops of a node do not exceed what the processed nodes allow
Bounded(L) ==
    \A n \in Node :
        /\ cost[n] <= MaxCost
        /\ cost[n] < MaxCost => /\ cost[n] <= L[Len(paths)] * Cardinality(Processed)
                                /\ hops[n] <= Cardinality(Processed)
        /\ n \in Processed => cost[n] < MaxCost /\ hops[n] < Cardinality(Processed)

\* no link from a processed node leads anywhere at less than the cost there, and
\* what is not processed yet costs no less than what is
Settled ==
    \A n \in Processed :
        /\ \A d \in todo : cost[n] <= cost[d]
        /\ \A d \in Node : <<n, d>> \in links =>
              cost[d] < MaxCost /\ cost[d] <= cost[n] + linkCost[<<n, d>>]

Summed == \A n \in Node : pred[n] # Null => cost[n] = cost[pred[n]] + linkCost[<<pred[n], n>>]

Distances(L) == pc \in {"loop", "walk"} => Bounded(L) /\ Settled /\ Summed

\* the walk follows dijkstra_path once all that can be reached is processed
Chain ==
    pc = "walk" =>
        /\ \A n \in todo : cost[n] = MaxCost
        /\ cost[Dst] < MaxCost
        /\ \A i \in (idx + 1)..Len(path) : pred[path[i]] = IF i = idx + 1 THEN From ELSE path[i - 1]

FirstShortest ==
    /\ paths = <<>> => \A e \in links : linkCost[e] = 1
    /\ paths # <<>> => AllPaths # {} /\ \A p \in AllPaths : Len(paths[1]) <= Len(p)
    /\ pc = "done" => (paths = <<>> /\ AllPaths = {}) \/ Len(paths) = ConfPath

CheapInv(L) == Inv /\ Prices(L) /\ Distances(L) /\ Chain /\ FirstShortest

-----------------------------------------------------------------------------
(* Numbers *)

LEMMA Induction ==
    ASSUME NEW n \in Nat, NEW S, 0 \in S, \A i \in 1..n : i - 1 \in S => i \in S
    PROVE  \A i \in 0..n : i \in S
<1> DEFINE Lt == {q \in Nat \X Nat : q[1] < q[2]}
           T == {i \in 0..n : i \notin S}
<1>1. OpToRel(<, Nat) = Lt
  BY Zenon DEF OpToRel
<1>2. IsWellFoundedOn(Lt, Nat)
  BY <1>1, NatLessThanWellFounded
<1> SUFFICES ASSUME T # {} PROVE FALSE
  OBVIOUS
<1>3. T \subseteq Nat
  OBVIOUS
<1> HIDE DEF Lt
<1>4. PICK i \in T : \A j \in T : ~(<<j, i>> \in Lt)
  BY <1>2, <1>3, WFMin
<1>5. i \in 1..n /\ i - 1 \in Nat
  BY <1>4
<1>6. i - 1 \in S
  <2>1. <<i - 1, i>> \in Lt
    BY <1>5 DEF Lt
  <2> QED
    BY <1>4, <1>5, <2>1
<1> QED
  BY <1>4, <1>5, <1>6

\* the least cost of a set of nodes
LEMMA LeastCostOf ==
    ASSUME NEW S, S # {}, NEW f \in [S -> Nat]
    PROVE  \E n \in S : \A o \in S : f[n] <= f[o]
<1> DEFINE Lt == {q \in Nat \X Nat : q[1] < q[2]}
           T == {f[o] : o \in S}
<1>1. OpToRel(<, Nat) = Lt
  BY Zenon DEF OpToRel
<1>2. IsWellFoundedOn(Lt, Nat)
  BY <1>1, NatLessThanWellFounded
<1>3. T \subseteq Nat /\ T # {}
  OBVIOUS
<1> HIDE DEF Lt, T
<1>4. PICK i \in T : \A j \in T : ~(<<j, i>> \in Lt)
  BY <1>2, <1>3, WFMin
<1>5. PICK n \in S : i = f[n]
  BY <1>4 DEF T
<1>6. ASSUME NEW o \in S PROVE f[n] <= f[o]
  <2>1. f[o] \in T /\ f[o] \in Nat /\ f[n] \in Nat
    BY DEF T
  <2>2. f[o] < f[n] => <<f[o], f[n]>> \in Lt
    BY <2>1 DEF Lt
  <2> QED
    BY <1>4, <1>5, <2>1, <2>2
<1> QED
  BY <1>6

LEMMA Product ==
    ASSUME NEW a \in Nat, NEW b \in Nat, NEW c \in Nat, a <= b
    PROVE  a * c <= b * c /\ a * c \in Nat /\ c * (a + 1) = c * a + c /\ (c > 0 => a <= a * c)
<1>1. a * c \in Nat /\ c * (a + 1) = c * a + c
  OBVIOUS
<1>2. a * c <= b * c
  OBVIOUS
<1>3. c > 0 => a <= a * c
  OBVIOUS
<1> QED
  BY <1>1, <1>2, <1>3

\* nothing wraps below MaxCost
LEMMA UnsignedSmall ==
    ASSUME NEW x \in Nat, x <= MaxCost
    PROVE  Unsigned(x) = x
BY ConfAssumption DEF Unsigned

LEMMA NodeCount == Cardinality(Node) \in Nat \ {0}
<1>1. Cardinality(Node) \in Nat /\ (Cardinality(Node) = 0 <=> Node = {})
  BY NodeAssumption, FS_CardinalityType, FS_EmptySet
<1> QED
  BY <1>1, NodeAssumption

\* the costs of a round, and what a penalty makes of them
LEMMA RoundLimits ==
    ASSUME NEW L, CostsFit(L), NEW r \in 0..(ConfPath - 1)
    PROVE  /\ L[r] \in Nat /\ L[r + 1] \in Nat
           /\ L[r] <= L[r + 1] /\ L[r + 1] < MaxCost
           /\ L[r] * Cardinality(Node) < MaxCost
           /\ \A c \in Nat : c <= L[r] => FP(c) <= L[r + 1] /\ FE(c) <= L[r + 1]
<1>1. r \in 0..ConfPath /\ r + 1 \in 0..ConfPath
  BY ConfAssumption
<1>2. /\ L[r] \in Nat /\ L[r + 1] \in Nat
      /\ L[r] * ConfFp <= L[r + 1] /\ L[r] * ConfFe <= L[r + 1]
      /\ L[r] * Cardinality(Node) < MaxCost /\ L[r + 1] * Cardinality(Node) < MaxCost
  BY <1>1 DEF CostsFit
<1>3. /\ ConfFp \in Nat /\ ConfFp > 0 /\ ConfFe \in Nat /\ MaxCost \in Nat
      /\ Cardinality(Node) \in Nat /\ Cardinality(Node) > 0
  BY ConfAssumption, NodeCount
<1>4. L[r] <= L[r] * ConfFp /\ L[r] * ConfFp \in Nat
  BY <1>2, <1>3, Product
<1>5. L[r + 1] <= L[r + 1] * Cardinality(Node) /\ L[r + 1] * Cardinality(Node) \in Nat
  BY <1>2, <1>3, Product
<1>6. L[r] <= L[r + 1] /\ L[r + 1] < MaxCost
  BY <1>2, <1>3, <1>4, <1>5
<1>7. ASSUME NEW c \in Nat, c <= L[r] PROVE FP(c) <= L[r + 1] /\ FE(c) <= L[r + 1]
  <2>1. c * ConfFp \in Nat /\ c * ConfFp <= L[r] * ConfFp /\ c * ConfFe \in Nat /\ c * ConfFe <= L[r] * ConfFe
    BY <1>2, <1>3, <1>7, Product
  <2>2. L[r] * ConfFe \in Nat
    BY <1>2, <1>3, Product
  <2>3. /\ c * ConfFp <= L[r + 1] /\ c * ConfFp <= MaxCost
        /\ c * ConfFe <= L[r + 1] /\ c * ConfFe <= MaxCost
    BY <1>2, <1>3, <1>4, <1>6, <2>1, <2>2
  <2>4. FP(c) = c * ConfFp /\ FE(c) = c * ConfFe
    BY <2>1, <2>3, UnsignedSmall DEF FP, FE
  <2> QED
    BY <2>3, <2>4
<1> QED
  BY <1>2, <1>6, <1>7

-----------------------------------------------------------------------------
(* The costs along a path *)

SumsUpTo(p, f, n) == f = [i \in 0..n |-> IF i = 0 THEN 0 ELSE f[i - 1] + linkCost[Hop(p, i)]]

LEMMA SumsExist ==
    ASSUME NEW p, NEW n \in Nat
    PROVE  \E f : SumsUpTo(p, f, n)
<1> DEFINE S == {k \in Nat : \E f : SumsUpTo(p, f, k)}
<1>1. 0 \in S
  <2> DEFINE g == [i \in 0..0 |-> 0]
  <2>1. SumsUpTo(p, g, 0)
    BY DEF SumsUpTo
  <2> QED
    BY <2>1
<1>2. ASSUME NEW k \in 1..n, k - 1 \in S PROVE k \in S
  <2>1. PICK f : SumsUpTo(p, f, k - 1)
    BY <1>2
  <2> DEFINE g == [i \in 0..k |-> IF i = k THEN f[k - 1] + linkCost[Hop(p, i)] ELSE f[i]]
  <2>2. \A i \in 0..k : g[i] = IF i = 0 THEN 0 ELSE g[i - 1] + linkCost[Hop(p, i)]
    BY <2>1 DEF SumsUpTo
  <2>3. SumsUpTo(p, g, k)
    BY <2>2 DEF SumsUpTo
  <2> QED
    BY <2>3
<1> HIDE DEF S
<1>3. n \in S
  BY <1>1, <1>2, Induction
<1> QED
  BY <1>3 DEF S

LEMMA CostsAlongPath ==
    ASSUME NEW p, Len(p) \in Nat
    PROVE  /\ CostsAlong(p)[0] = 0
           /\ \A i \in 1..Len(p) : CostsAlong(p)[i] = CostsAlong(p)[i - 1] + linkCost[Hop(p, i)]
<1>1. CostsAlong(p) = CHOOSE f : SumsUpTo(p, f, Len(p))
  BY DEF CostsAlong, SumsUpTo
<1>2. \E f : SumsUpTo(p, f, Len(p))
  BY SumsExist
<1>3. SumsUpTo(p, CostsAlong(p), Len(p))
  BY <1>1, <1>2
<1> DEFINE s == CostsAlong(p)
<1>4. s = [i \in 0..Len(p) |-> IF i = 0 THEN 0 ELSE s[i - 1] + linkCost[Hop(p, i)]]
  BY <1>3 DEF SumsUpTo
<1> HIDE DEF s
<1>5. s[0] = 0 /\ \A i \in 1..Len(p) : s[i] = s[i - 1] + linkCost[Hop(p, i)]
  BY <1>4
<1> QED
  BY <1>5 DEF s

\* the node after i hops
At(p, i) == IF i = 0 THEN Src ELSE p[i]

LEMMA PathFacts ==
    ASSUME NEW p \in AllPaths, TypeOK
    PROVE  /\ p \in Seq(Node) /\ Len(p) \in Nat /\ DOMAIN p = 1..Len(p)
           /\ At(p, 0) = Src /\ At(p, Len(p)) = Dst
           /\ \A i \in 1..Len(p) : /\ At(p, i) \in Node /\ Hop(p, i) \in links
                                   /\ Hop(p, i) = <<At(p, i - 1), At(p, i)>>
           /\ \A i \in 0..Len(p) : At(p, i) \in Node /\ CostsAlong(p)[i] \in Nat
<1> USE NodeAssumption
<1>1. PICK h \in 0..MaxHops : p \in [1..h -> Node]
  BY DEF AllPaths
<1>2. IsPath(p)
  BY DEF AllPaths
<1>3. h \in Nat
  BY <1>1, ConfAssumption
<1>4. p \in Seq(Node) /\ Len(p) = h /\ DOMAIN p = 1..Len(p)
  BY <1>1, <1>3
<1>5. At(p, 0) = Src /\ At(p, Len(p)) = Dst
  BY <1>2, <1>3, <1>4 DEF At, IsPath
<1>6. ASSUME NEW i \in 1..Len(p)
      PROVE  At(p, i) \in Node /\ Hop(p, i) \in links /\ Hop(p, i) = <<At(p, i - 1), At(p, i)>>
  <2>1. i \in DOMAIN p /\ i # 0 /\ (i - 1 = 0 <=> i = 1)
    BY <1>3, <1>4
  <2>2. p[i] \in Node
    BY <1>4
  <2>3. Hop(p, i) \in links
    BY <1>2, <2>1 DEF IsPath
  <2> QED
    BY <2>1, <2>2, <2>3 DEF At, Hop
<1>7. \A i \in 0..Len(p) : At(p, i) \in Node
  BY <1>3, <1>4, <1>5, <1>6
<1> DEFINE S == {i \in Nat : CostsAlong(p)[i] \in Nat}
<1>8. 0 \in S
  BY <1>3, <1>4, CostsAlongPath
<1>9. ASSUME NEW i \in 1..Len(p), i - 1 \in S PROVE i \in S
  <2>1. linkCost[Hop(p, i)] \in Nat
    BY <1>6 DEF TypeOK
  <2>2. CostsAlong(p)[i] = CostsAlong(p)[i - 1] + linkCost[Hop(p, i)]
    BY <1>3, <1>4, CostsAlongPath
  <2> QED
    BY <1>9, <2>1, <2>2
<1>10. Len(p) \in Nat
  BY <1>3, <1>4
<1> HIDE DEF S
<1>11. \A i \in 0..Len(p) : i \in S
  BY <1>8, <1>9, <1>10, Induction
<1>12. \A i \in 0..Len(p) : CostsAlong(p)[i] \in Nat
  BY <1>11 DEF S
<1> QED
  BY <1>4, <1>5, <1>6, <1>7, <1>10, <1>12

\* Once all nodes that can be reached are processed, no path to Dst is cheaper
\* than the cost found there.
LEMMA LowerBound ==
    ASSUME NEW L, Inv, Distances(L), pc \in {"loop", "walk"}, \A n \in todo : cost[n] = MaxCost,
           NEW p \in AllPaths
    PROVE  cost[Dst] < MaxCost /\ cost[Dst] <= PathCost(p)
<1> USE NodeAssumption
<1> DEFINE s == CostsAlong(p)
           S == {i \in Nat : At(p, i) \in Processed /\ cost[At(p, i)] <= s[i]}
<1>1. TypeOK /\ Bounded(L) /\ Settled /\ cost[Src] = 0 /\ MaxCost \in Nat /\ MaxCost > 0
  BY ConfAssumption DEF Inv, Distances, Tree
<1>2. /\ Len(p) \in Nat /\ At(p, 0) = Src /\ At(p, Len(p)) = Dst
      /\ \A i \in 1..Len(p) : /\ At(p, i) \in Node /\ Hop(p, i) \in links
                              /\ Hop(p, i) = <<At(p, i - 1), At(p, i)>>
      /\ \A i \in 0..Len(p) : At(p, i) \in Node /\ s[i] \in Nat
  BY <1>1, PathFacts
<1>3. s[0] = 0 /\ \A i \in 1..Len(p) : s[i] = s[i - 1] + linkCost[Hop(p, i)]
  BY <1>2, CostsAlongPath
<1> HIDE DEF s
<1>4. 0 \in S
  <2>1. Src \in Processed
    BY <1>1 DEF Processed
  <2> QED
    BY <1>1, <1>2, <1>3, <2>1
<1>5. ASSUME NEW i \in 1..Len(p), i - 1 \in S PROVE i \in S
  <2> DEFINE n == At(p, i - 1)
             d == At(p, i)
  <2>1. n \in Processed /\ cost[n] <= s[i - 1] /\ d \in Node /\ <<n, d>> \in links /\ Hop(p, i) = <<n, d>>
    BY <1>2, <1>5
  <2>2. i \in Nat /\ i - 1 \in 0..Len(p) /\ s[i] = s[i - 1] + linkCost[<<n, d>>]
    BY <1>2, <1>3, <2>1
  <2>3. s[i - 1] \in Nat /\ n \in Node
    BY <1>2, <2>2
  <2> HIDE DEF n, d
  <2>4. cost[d] < MaxCost /\ cost[d] <= cost[n] + linkCost[<<n, d>>]
    BY <1>1, <2>1 DEF Settled
  <2>5. cost[n] \in Nat /\ cost[d] \in Nat /\ linkCost[<<n, d>>] \in Nat
    BY <1>1, <2>1, <2>3 DEF TypeOK
  <2>6. d \in Processed
    BY <1>1, <2>1, <2>4, <2>5 DEF Processed
  <2>7. cost[d] <= s[i]
    BY <2>1, <2>2, <2>3, <2>4, <2>5
  <2> QED
    BY <2>2, <2>6, <2>7 DEF d
<1> HIDE DEF S
<1>6. Len(p) \in S
  <2>1. \A i \in 0..Len(p) : i \in S
    BY <1>2, <1>4, <1>5, Induction
  <2> QED
    BY <1>2, <2>1
<1>7. Dst \in Processed /\ cost[Dst] <= s[Len(p)]
  BY <1>2, <1>6 DEF S
<1>8. cost[Dst] < MaxCost
  BY <1>1, <1>7 DEF Bounded
<1> QED
  BY <1>7, <1>8 DEF PathCost, s

\* The path the walk has written costs what was found at Dst.
LEMMA WalkedCost ==
    ASSUME NEW L, Inv, Distances(L), Chain, pc = "walk", node = Null
    PROVE  path \in AllPaths /\ PathCost(path) = cost[Dst]
<1> USE NodeAssumption
<1> DEFINE s == CostsAlong(path)
           S == {i \in Nat : cost[At(path, i)] = s[i]}
<1>1. TypeOK /\ Bounded(L) /\ Settled /\ Summed /\ cost[Src] = 0 /\ pred[Src] = Null
  BY DEF Inv, Distances, Tree
<1>2. /\ Len(path) = hops[Dst] /\ idx = 0 /\ Len(path) \in Nat /\ path \in Seq(MaybeNode)
  BY DEF Inv, Walked, From, TypeOK
<1>3. IsPath(path) /\ path \in Seq(Node)
  BY WalkedPath
<1>4. path \in AllPaths
  <2>1. Dst \in Processed
    BY ConfAssumption DEF Chain, Processed
  <2>2. hops[Dst] < Cardinality(Processed) /\ hops[Dst] \in Nat
    BY <1>1, <2>1 DEF Bounded, TypeOK
  <2>3. Cardinality(Processed) <= Cardinality(Node) /\ Cardinality(Processed) \in Nat
    <3>1. Processed \in SUBSET Node
      BY DEF Processed
    <3> QED
      BY <3>1, FS_Subset, FS_CardinalityType
  <2>4. Len(path) \in 0..MaxHops
    BY <1>2, <2>2, <2>3, ConfAssumption, NodeCount
  <2>5. path \in [1..Len(path) -> Node]
    BY <1>2, <1>3
  <2> QED
    BY <1>3, <2>4, <2>5 DEF AllPaths
<1>5. /\ At(path, 0) = Src /\ At(path, Len(path)) = Dst
      /\ \A i \in 1..Len(path) : At(path, i) \in Node /\ Hop(path, i) = <<At(path, i - 1), At(path, i)>>
  BY <1>1, <1>4, PathFacts
<1>6. s[0] = 0 /\ \A i \in 1..Len(path) : s[i] = s[i - 1] + linkCost[Hop(path, i)]
  BY <1>2, CostsAlongPath
<1> HIDE DEF s
<1>7. 0 \in S
  BY <1>1, <1>5, <1>6
<1>8. ASSUME NEW i \in 1..Len(path), i - 1 \in S PROVE i \in S
  <2> DEFINE n == At(path, i - 1)
             d == At(path, i)
  <2>1. pred[path[i]] = IF i = idx + 1 THEN From ELSE path[i - 1]
    BY <1>2 DEF Chain
  <2>2. i # 0 /\ (i = 1 <=> i - 1 = 0) /\ From = Src /\ i \in Nat
    BY <1>2 DEF From
  <2>3. pred[d] = n
    BY <1>2, <2>1, <2>2 DEF At
  <2>4. d \in Node /\ Hop(path, i) = <<n, d>> /\ cost[n] = s[i - 1]
    BY <1>5, <1>8
  <2>5. n # Null
    <3>1. i - 1 = 0 \/ i - 1 \in 1..Len(path)
      BY <1>2
    <3> QED
      BY <1>5, <3>1
  <2> HIDE DEF n, d
  <2>6. cost[d] = cost[n] + linkCost[<<n, d>>]
    BY <1>1, <2>3, <2>4, <2>5 DEF Summed
  <2>7. cost[d] = s[i]
    BY <1>6, <2>4, <2>6
  <2> QED
    BY <2>2, <2>7 DEF d
<1> HIDE DEF S
<1>9. Len(path) \in S
  <2>1. \A i \in 0..Len(path) : i \in S
    BY <1>2, <1>7, <1>8, Induction
  <2> QED
    BY <1>2, <2>1
<1> QED
  BY <1>4, <1>5, <1>9 DEF S, PathCost, s

LEMMA UnitCosts ==
    ASSUME TypeOK, \A e \in links : linkCost[e] = 1, NEW p \in AllPaths
    PROVE  PathCost(p) = Len(p)
<1> DEFINE s == CostsAlong(p)
           S == {i \in Nat : s[i] = i}
<1>1. Len(p) \in Nat /\ \A i \in 1..Len(p) : Hop(p, i) \in links
  BY PathFacts
<1>2. s[0] = 0 /\ \A i \in 1..Len(p) : s[i] = s[i - 1] + linkCost[Hop(p, i)]
  BY <1>1, CostsAlongPath
<1> HIDE DEF s
<1>3. 0 \in S
  BY <1>2
<1>4. ASSUME NEW i \in 1..Len(p), i - 1 \in S PROVE i \in S
  BY <1>1, <1>2, <1>4
<1> HIDE DEF S
<1>5. \A i \in 0..Len(p) : i \in S
  BY <1>1, <1>3, <1>4, Induction
<1>6. Len(p) \in S
  BY <1>1, <1>5
<1> QED
  BY <1>6 DEF S, PathCost, s

LEMMA SamePaths == links' = links => AllPaths' = AllPaths
<1> SUFFICES ASSUME links' = links PROVE AllPaths' = AllPaths
  OBVIOUS
<1>1. \A p : IsPath(p)' <=> IsPath(p)
  BY DEF IsPath, Hop
<1> QED
  BY <1>1 DEF AllPaths

-----------------------------------------------------------------------------
(* Each step keeps the invariant *)

LEMMA InitCheap ==
    ASSUME NEW L, CostsFit(L), Init
    PROVE  CheapInv(L)
<1>1. Inv
  BY InitInv
<1>2. paths = <<>> /\ Len(paths) = 0 /\ pc = "round"
  BY DEF Init
<1>3. \A e \in links : linkCost[e] = 1 /\ nextCost[e] = 1
  BY DEF Init
<1>4. nextCost = linkCost
  BY DEF Init
<1>5. 0 < ConfPath /\ L[0] \in Nat /\ L[1] \in Nat /\ L[0] >= 1 /\ L[1] >= 1
  <2>1. 0 \in 0..(ConfPath - 1) /\ L[0] >= 1
    BY ConfAssumption DEF CostsFit
  <2>2. L[0] \in Nat /\ L[0 + 1] \in Nat /\ L[0] <= L[0 + 1]
    BY <2>1, RoundLimits
  <2> QED
    BY <2>1, <2>2, ConfAssumption
<1>6. Prices(L)
  BY <1>2, <1>3, <1>4, <1>5 DEF Prices
<1> QED
  BY <1>1, <1>2, <1>3, <1>6 DEF CheapInv, Distances, Chain, FirstShortest

LEMMA StartRoundCheap ==
    ASSUME NEW L, CostsFit(L), CheapInv(L), StartRound
    PROVE  CheapInv(L)'
<1> USE NodeAssumption
<1>1. Inv'
  BY StartRoundInv DEF CheapInv
<1>2. /\ pc = "round" /\ pc' = "loop" /\ todo' = Node
      /\ cost' = [n \in Node |-> IF n = Src THEN 0 ELSE MaxCost]
      /\ pred' = [n \in Node |-> Null]
      /\ UNCHANGED <<links, linkCost, nextCost, hops, paths>>
  BY DEF StartRound
<1>3. Prices(L)'
  BY <1>2 DEF CheapInv, Prices
<1>4. Processed' = {} /\ Cardinality(Processed') = 0
  BY <1>2, FS_EmptySet DEF Processed
<1>5. hops[Src] = 0 /\ MaxCost \in Nat /\ L[Len(paths)] \in Nat
  <2>1. Len(paths) \in 0..(ConfPath - 1)
    BY <1>2, ConfAssumption DEF CheapInv, Inv, TypeOK, Prices
  <2> QED
    BY <2>1, RoundLimits, ConfAssumption DEF CheapInv, Inv
<1>6. Bounded(L)'
  <2> SUFFICES ASSUME NEW n \in Node
               PROVE  /\ cost'[n] <= MaxCost
                      /\ cost'[n] < MaxCost => /\ cost'[n] <= L[Len(paths')] * Cardinality(Processed')
                                               /\ hops'[n] <= Cardinality(Processed')
                      /\ n \notin Processed'
    BY DEF Bounded
  <2>1. L[Len(paths')] * Cardinality(Processed') = 0
    BY <1>2, <1>4, <1>5
  <2> QED
    BY <1>2, <1>4, <1>5, <2>1
<1>7. Settled' /\ Summed'
  BY <1>2, <1>4 DEF Settled, Summed
<1>8. FirstShortest'
  BY <1>2, SamePaths DEF CheapInv, FirstShortest
<1> QED
  BY <1>1, <1>2, <1>3, <1>6, <1>7, <1>8 DEF CheapInv, Distances, Chain

LEMMA RelaxCheap ==
    ASSUME NEW L, CostsFit(L), CheapInv(L), Relax
    PROVE  CheapInv(L)'
<1> USE NodeAssumption
<1>1. Inv'
  BY RelaxInv DEF CheapInv
<1>2. PICK n \in LeastCostNodes :
          /\ todo' = Rest(n)
          /\ cost' = [d \in Node |-> IF d \in Nearer(n) THEN Unsigned(cost[n] + linkCost[<<n, d>>])
                                                       ELSE cost[d]]
          /\ pred' = [d \in Node |-> IF d \in Nearer(n) THEN n ELSE pred[d]]
          /\ hops' = [d \in Node |-> IF d \in Nearer(n) THEN HopsVia(n) ELSE hops[d]]
  BY DEF Relax
<1>3. pc = "loop" /\ UNCHANGED <<pc, links, linkCost, nextCost, paths>>
  BY DEF Relax
<1>4. /\ TypeOK /\ Bounded(L) /\ Settled /\ Summed /\ MaxCost \in Nat
      /\ cost \in [Node -> Nat] /\ hops \in [Node -> Nat] /\ linkCost \in [links -> Nat]
      /\ todo \subseteq Node
  BY <1>3, ConfAssumption DEF CheapInv, Inv, Distances, TypeOK
<1>5. /\ n \in todo /\ n \in Node /\ cost[n] < MaxCost
      /\ \A o \in todo : cost[n] <= cost[o]
  BY <1>2, <1>4 DEF LeastCostNodes
<1> DEFINE C == L[Len(paths)]
           k == Cardinality(Processed)
<1>6. /\ C \in Nat /\ C * Cardinality(Node) < MaxCost /\ \A e \in links : linkCost[e] <= C
  <2>1. Len(paths) \in 0..(ConfPath - 1)
    BY <1>3, ConfAssumption DEF CheapInv, Inv, TypeOK, Prices
  <2> QED
    BY <1>3, <2>1, RoundLimits DEF CheapInv, Prices
<1>7. /\ Processed' = Processed \cup {n} /\ n \notin Processed
      /\ k \in Nat /\ Cardinality(Processed') = k + 1 /\ k + 1 <= Cardinality(Node)
      /\ Cardinality(Node) \in Nat
  <2>1. Processed' = Processed \cup {n} /\ n \notin Processed
    BY <1>2, <1>5 DEF Processed, Rest
  <2>2. Processed \in SUBSET Node /\ Processed' \in SUBSET Node
    BY DEF Processed
  <2>3. IsFiniteSet(Processed) /\ Cardinality(Processed) \in Nat
    BY <2>2, FS_Subset, FS_CardinalityType
  <2>4. Cardinality(Processed \cup {n}) = Cardinality(Processed) + 1
    BY <2>1, <2>3, FS_AddElement
  <2>5. Cardinality(Processed') <= Cardinality(Node)
    BY <2>2, FS_Subset
  <2> QED
    BY <2>1, <2>3, <2>4, <2>5, NodeCount
<1>8. /\ C * k \in Nat /\ C * (k + 1) = C * k + C /\ C * (k + 1) < MaxCost /\ C * (k + 1) \in Nat
  <2>1. C * k \in Nat /\ C * (k + 1) = C * k + C
    <3> HIDE DEF C, k
    <3> QED
      BY <1>6, <1>7, Product
  <2>2. (k + 1) * C <= Cardinality(Node) * C
    <3> HIDE DEF C, k
    <3> QED
      BY <1>6, <1>7, Product
  <2>3. C * (k + 1) = (k + 1) * C /\ C * Cardinality(Node) = Cardinality(Node) * C
    <3> HIDE DEF C, k
    <3> QED
      BY <1>6, <1>7
  <2> HIDE DEF C, k
  <2> QED
    BY <1>4, <1>6, <1>7, <2>1, <2>2, <2>3
<1> HIDE DEF C, k
<1>9. ASSUME NEW d \in Node, <<n, d>> \in links
      PROVE  /\ cost[n] + linkCost[<<n, d>>] \in Nat
             /\ cost[n] + linkCost[<<n, d>>] <= C * (k + 1)
             /\ cost[n] + linkCost[<<n, d>>] < MaxCost
             /\ Unsigned(cost[n] + linkCost[<<n, d>>]) = cost[n] + linkCost[<<n, d>>]
  <2>1. cost[n] \in Nat /\ linkCost[<<n, d>>] \in Nat /\ linkCost[<<n, d>>] <= C
    BY <1>4, <1>5, <1>6, <1>9
  <2>2. cost[n] <= C * k
    BY <1>4, <1>5 DEF Bounded, C, k
  <2>3. /\ cost[n] + linkCost[<<n, d>>] \in Nat
        /\ cost[n] + linkCost[<<n, d>>] <= C * (k + 1)
        /\ cost[n] + linkCost[<<n, d>>] < MaxCost
    BY <1>4, <1>6, <1>8, <2>1, <2>2
  <2> QED
    BY <1>4, <2>3, UnsignedSmall
<1>10. ASSUME NEW d \in Node
       PROVE  \/ /\ d \in todo /\ d # n /\ <<n, d>> \in links /\ pred'[d] = n
                 /\ cost'[d] = cost[n] + linkCost[<<n, d>>] /\ cost'[d] < cost[d]
                 /\ hops'[d] = hops[n] + 1
              \/ /\ cost'[d] = cost[d] /\ pred'[d] = pred[d] /\ hops'[d] = hops[d]
                 /\ d \in todo /\ d # n /\ <<n, d>> \in links =>
                       cost[d] <= cost[n] + linkCost[<<n, d>>]
  <2>1. CASE d \in Nearer(n)
    <3>1. d \in todo /\ d # n /\ <<n, d>> \in links /\ Unsigned(cost[n] + linkCost[<<n, d>>]) < cost[d]
      BY <2>1 DEF Nearer
    <3>2. cost'[d] = Unsigned(cost[n] + linkCost[<<n, d>>]) /\ pred'[d] = n /\ hops'[d] = hops[n] + 1
      BY <1>2, <2>1 DEF HopsVia
    <3> QED
      BY <1>9, <3>1, <3>2
  <2>2. CASE d \notin Nearer(n)
    <3>1. cost'[d] = cost[d] /\ pred'[d] = pred[d] /\ hops'[d] = hops[d]
      BY <1>2, <2>2
    <3>2. ASSUME d \in todo /\ d # n /\ <<n, d>> \in links
          PROVE  cost[d] <= cost[n] + linkCost[<<n, d>>]
      <4>1. ~(Unsigned(cost[n] + linkCost[<<n, d>>]) < cost[d])
        BY <2>2, <3>2 DEF Nearer
      <4>2. cost[d] \in Nat
        BY <1>4
      <4> QED
        BY <1>9, <3>2, <4>1, <4>2
    <3> QED
      BY <3>1, <3>2
  <2> QED
    BY <2>1, <2>2
<1>11. ASSUME NEW d \in Node
       PROVE  /\ cost'[d] \in Nat /\ cost'[d] <= cost[d]
              /\ d \notin todo \/ d = n => cost'[d] = cost[d] /\ hops'[d] = hops[d]
  <2>1. cost[d] \in Nat /\ cost'[d] \in Nat
    BY <1>1, <1>4 DEF Inv, TypeOK
  <2>2. CASE d \in todo /\ d # n /\ cost'[d] < cost[d]
    BY <2>1, <2>2
  <2>3. CASE cost'[d] = cost[d] /\ hops'[d] = hops[d]
    BY <2>1, <2>3
  <2> QED
    BY <1>10, <2>2, <2>3
<1>12. Bounded(L)'
  <2> SUFFICES ASSUME NEW d \in Node
               PROVE  /\ cost'[d] <= MaxCost
                      /\ cost'[d] < MaxCost => cost'[d] <= C * (k + 1) /\ hops'[d] <= k + 1
                      /\ d \in Processed' => cost'[d] < MaxCost /\ hops'[d] < k + 1
    BY <1>3, <1>7 DEF Bounded, C
  <2>1. /\ cost[d] <= MaxCost /\ cost[d] \in Nat /\ hops[d] \in Nat
        /\ cost[d] < MaxCost => cost[d] <= C * k /\ hops[d] <= k
        /\ d \in Processed => cost[d] < MaxCost /\ hops[d] < k
    BY <1>4 DEF Bounded, C, k
  <2>2. hops[n] \in Nat /\ hops[n] <= k
    BY <1>4, <1>5 DEF Bounded, k
  <2>3. cost'[d] <= MaxCost
    BY <1>4, <1>11, <2>1
  <2>4. ASSUME cost'[d] < MaxCost PROVE cost'[d] <= C * (k + 1) /\ hops'[d] <= k + 1
    <3>1. CASE <<n, d>> \in links /\ cost'[d] = cost[n] + linkCost[<<n, d>>] /\ hops'[d] = hops[n] + 1
      BY <1>7, <1>9, <2>2, <3>1
    <3>2. CASE cost'[d] = cost[d] /\ hops'[d] = hops[d]
      <4>1. cost[d] <= C * k /\ hops[d] <= k
        BY <2>1, <2>4, <3>2
      <4> QED
        BY <1>6, <1>7, <1>8, <2>1, <3>2, <4>1
    <3> QED
      BY <1>10, <3>1, <3>2
  <2>5. ASSUME d \in Processed' PROVE cost'[d] < MaxCost /\ hops'[d] < k + 1
    <3>1. d = n \/ d \in Processed
      BY <1>7, <2>5
    <3>2. cost'[d] = cost[d] /\ hops'[d] = hops[d]
      BY <1>11, <3>1 DEF Processed
    <3> QED
      BY <1>5, <1>7, <2>1, <2>2, <3>1, <3>2
  <2> QED
    BY <2>3, <2>4, <2>5
<1>13. Settled'
  <2>1. ASSUME NEW m \in Processed', NEW d \in todo' PROVE cost'[m] <= cost'[d]
    <3>1. m = n \/ m \in Processed
      BY <1>7
    <3>2. d \in todo /\ d # n /\ d \in Node /\ m \in Node
      BY <1>2, <1>4 DEF Rest, Processed
    <3>3. cost'[m] = cost[m] /\ cost[m] <= cost[n]
      <4>1. cost'[m] = cost[m]
        BY <1>11, <3>1, <3>2 DEF Processed
      <4>2. cost[m] <= cost[n]
        BY <1>4, <1>5, <3>1 DEF Settled
      <4> QED
        BY <4>1, <4>2
    <3>4. cost[n] <= cost'[d]
      <4>1. cost[n] <= cost[d]
        BY <1>5, <3>2
      <4>2. cost[n] \in Nat /\ (<<n, d>> \in links => linkCost[<<n, d>>] \in Nat)
        BY <1>4, <1>5
      <4> QED
        BY <1>10, <3>2, <4>1, <4>2
    <3>5. cost[m] \in Nat /\ cost[n] \in Nat /\ cost'[d] \in Nat
      BY <1>4, <1>5, <1>11, <3>2
    <3> QED
      BY <3>3, <3>4, <3>5
  <2>2. ASSUME NEW m \in Processed', NEW d \in Node, <<m, d>> \in links'
        PROVE  cost'[d] < MaxCost /\ cost'[d] <= cost'[m] + linkCost'[<<m, d>>]
    <3>1. m = n \/ m \in Processed
      BY <1>7
    <3>2. m \in Node /\ <<m, d>> \in links /\ linkCost'[<<m, d>>] = linkCost[<<m, d>>] /\ linkCost[<<m, d>>] \in Nat
      BY <1>3, <1>4, <2>2 DEF Processed
    <3>3. cost'[m] = cost[m] /\ cost[m] \in Nat /\ cost[d] \in Nat /\ cost'[d] \in Nat /\ cost'[d] <= cost[d]
      BY <1>4, <1>11, <3>1, <3>2 DEF Processed
    <3>4. CASE m \in Processed
      <4>1. cost[d] < MaxCost /\ cost[d] <= cost[m] + linkCost[<<m, d>>]
        BY <1>4, <3>2, <3>4 DEF Settled
      <4> QED
        BY <1>4, <3>2, <3>3, <4>1
    <3>5. CASE m = n
      <4>1. cost'[d] <= cost[n] + linkCost[<<n, d>>]
        <5>1. CASE d \in todo /\ d # n
          BY <1>10, <3>2, <3>3, <3>5, <5>1
        <5>2. CASE d = n
          BY <3>2, <3>3, <3>5, <5>2
        <5>3. CASE d \notin todo
          <6>1. d \in Processed
            BY <5>3 DEF Processed
          <6>2. cost[d] <= cost[n]
            BY <1>4, <1>5, <6>1 DEF Settled
          <6> QED
            BY <3>2, <3>3, <3>5, <6>2
        <5> QED
          BY <5>1, <5>2, <5>3
      <4>2. cost[n] + linkCost[<<n, d>>] < MaxCost /\ cost[n] + linkCost[<<n, d>>] \in Nat
        BY <1>9, <3>2, <3>5
      <4> QED
        BY <1>4, <3>2, <3>3, <3>5, <4>1, <4>2
    <3> QED
      BY <3>1, <3>4, <3>5
  <2> QED
    BY <2>1, <2>2 DEF Settled
<1>14. Summed'
  <2> SUFFICES ASSUME NEW d \in Node, pred'[d] # Null
               PROVE  cost'[d] = cost'[pred'[d]] + linkCost'[<<pred'[d], d>>]
    BY DEF Summed
  <2>1. CASE pred'[d] = n /\ cost'[d] = cost[n] + linkCost[<<n, d>>]
    BY <1>3, <1>5, <1>11, <2>1
  <2>2. CASE cost'[d] = cost[d] /\ pred'[d] = pred[d]
    <3>1. HasPred(d)
      BY <1>3, <2>2 DEF CheapInv, Inv, Tree
    <3>2. pred[d] \in Node /\ pred[d] \notin todo
      BY <3>1 DEF HasPred
    <3>3. cost'[pred[d]] = cost[pred[d]]
      BY <1>11, <3>2
    <3>4. cost[d] = cost[pred[d]] + linkCost[<<pred[d], d>>]
      BY <1>4, <2>2 DEF Summed
    <3> QED
      BY <1>3, <2>2, <3>3, <3>4
  <2> QED
    BY <1>10, <2>1, <2>2
<1>15. Prices(L)'
  BY <1>3 DEF CheapInv, Prices
<1>16. FirstShortest'
  BY <1>3, SamePaths DEF CheapInv, FirstShortest
<1> QED
  BY <1>1, <1>3, <1>12, <1>13, <1>14, <1>15, <1>16 DEF CheapInv, Distances, Chain

LEMMA EndRoundCheap ==
    ASSUME NEW L, CostsFit(L), CheapInv(L), EndRound
    PROVE  CheapInv(L)'
<1> USE NodeAssumption
<1>1. Inv'
  BY EndRoundInv DEF CheapInv
<1>2. /\ pc = "loop" /\ LeastCostNodes = {}
      /\ UNCHANGED <<links, linkCost, nextCost, todo, cost, pred, hops, paths>>
  BY DEF EndRound
<1>3. /\ TypeOK /\ Bounded(L) /\ MaxCost \in Nat /\ cost \in [Node -> Nat] /\ todo \subseteq Node
      /\ Inv /\ Distances(L) /\ FirstShortest
  BY <1>2, ConfAssumption DEF CheapInv, Inv, Distances, TypeOK
<1>4. \A n \in todo : cost[n] = MaxCost
  <2> DEFINE S == {n \in todo : cost[n] < MaxCost}
             f == [n \in S |-> cost[n]]
  <2>1. S = {}
    <3> SUFFICES ASSUME S # {} PROVE FALSE
      OBVIOUS
    <3>1. f \in [S -> Nat]
      BY <1>3
    <3>2. PICK n \in S : \A o \in S : f[n] <= f[o]
      <4> HIDE DEF S, f
      <4> QED
        BY <3>1, LeastCostOf
    <3>3. ASSUME NEW o \in todo PROVE cost[n] <= cost[o]
      <4>1. cost[n] \in Nat /\ cost[o] \in Nat /\ cost[n] < MaxCost
        BY <1>3, <3>2
      <4>2. CASE o \in S
        BY <3>2, <4>2
      <4>3. CASE o \notin S
        BY <1>3, <4>1, <4>3
      <4> QED
        BY <4>2, <4>3
    <3>4. n \in LeastCostNodes
      BY <3>2, <3>3 DEF LeastCostNodes
    <3> QED
      BY <1>2, <3>4
  <2>2. ASSUME NEW n \in todo PROVE cost[n] = MaxCost
    BY <1>3, <2>1 DEF Bounded
  <2> QED
    BY <2>2
<1>5. Distances(L)'
  <2>1. Bounded(L)' /\ Settled' /\ Summed'
    BY <1>2 DEF CheapInv, Distances, Bounded, Settled, Summed, Processed
  <2> QED
    BY <2>1 DEF Distances
<1>6. /\ paths' = <<>> => \A e \in links' : linkCost'[e] = 1
      /\ paths' # <<>> => AllPaths' # {} /\ \A p \in AllPaths' : Len(paths'[1]) <= Len(p)
  BY <1>2, <1>3, SamePaths DEF FirstShortest
<1>7. CASE cost[Dst] = MaxCost
  <2>1. pc' = "done"
    BY <1>7 DEF EndRound
  <2>2. AllPaths = {}
    <3> SUFFICES ASSUME NEW p \in AllPaths PROVE FALSE
      OBVIOUS
    <3>1. cost[Dst] < MaxCost
      BY <1>2, <1>3, <1>4, LowerBound
    <3> QED
      BY <1>3, <1>7, <3>1
  <2>3. paths = <<>>
    BY <1>3, <2>2 DEF FirstShortest
  <2>4. FirstShortest'
    BY <1>2, <1>6, <2>2, <2>3, SamePaths DEF FirstShortest
  <2> QED
    BY <1>1, <1>5, <2>1, <2>4 DEF CheapInv, Prices, Chain
<1>8. CASE cost[Dst] # MaxCost
  <2>1. pc' = "walk" /\ idx' = hops[Dst] /\ path' = [i \in 1..hops[Dst] |-> Null]
    BY <1>8 DEF EndRound, FirstIdx
  <2>2. hops[Dst] \in Nat /\ Len(path') = hops[Dst]
    BY <1>3, <2>1 DEF TypeOK
  <2>3. (idx' + 1)..Len(path') = {}
    BY <2>1, <2>2
  <2>4. cost[Dst] < MaxCost
    BY <1>3, <1>8 DEF Bounded
  <2>5. Chain'
    BY <1>2, <1>4, <2>3, <2>4 DEF Chain
  <2>6. Prices(L)'
    BY <1>2, <2>1 DEF CheapInv, Prices
  <2>7. FirstShortest'
    BY <1>6, <2>1 DEF FirstShortest
  <2> QED
    BY <1>1, <1>5, <2>5, <2>6, <2>7 DEF CheapInv
<1> QED
  BY <1>7, <1>8

LEMMA WalkCheap ==
    ASSUME NEW L, CostsFit(L), CheapInv(L), Walk
    PROVE  CheapInv(L)'
<1> USE NodeAssumption
<1>1. Inv'
  BY WalkInv DEF CheapInv
<1>2. /\ pc = "walk" /\ pc' = "walk" /\ node # Null /\ node' = pred[node]
      /\ UNCHANGED <<links, linkCost, todo, cost, pred, hops, paths>>
  BY DEF Walk
<1>3. /\ Inv /\ TypeOK /\ Walked /\ Tree /\ Chain /\ node \in Node
      /\ linkCost \in [links -> Nat] /\ nextCost \in [links -> Nat]
  BY <1>2 DEF CheapInv, Inv, TypeOK, MaybeNode
<1>4. Distances(L)'
  BY <1>2 DEF CheapInv, Distances, Bounded, Settled, Summed, Processed
<1>5. FirstShortest'
  BY <1>2, SamePaths DEF CheapInv, FirstShortest
<1>6. Prices(L)'
  <2>1. /\ Len(paths) \in 0..(ConfPath - 1)
        /\ \A e \in links : linkCost[e] <= L[Len(paths)] /\ nextCost[e] <= L[Len(paths) + 1]
    BY <1>2, <1>3, ConfAssumption DEF CheapInv, TypeOK, Prices
  <2>2. \A c \in Nat : c <= L[Len(paths)] => FP(c) <= L[Len(paths) + 1] /\ FE(c) <= L[Len(paths) + 1]
    BY <2>1, RoundLimits
  <2>3. ASSUME NEW e \in links PROVE nextCost'[e] <= L[Len(paths) + 1]
    <3>1. /\ linkCost[e] \in Nat /\ linkCost[e] <= L[Len(paths)] /\ nextCost[e] <= L[Len(paths) + 1]
      BY <1>3, <2>1
    <3>2. nextCost'[e] \in {nextCost[e], FP(linkCost[e]), FE(linkCost[e])}
      BY DEF Walk, Penalised
    <3> QED
      BY <2>2, <3>1, <3>2
  <2>4. Len(paths) < ConfPath
    BY <1>2 DEF CheapInv, Prices
  <2> QED
    BY <1>2, <2>1, <2>3, <2>4 DEF Prices
<1>7. /\ idx \in 0..Len(path) /\ path \in Seq(MaybeNode) /\ Len(path) \in Nat /\ From = node
      /\ \A i \in (idx + 1)..Len(path) : pred[path[i]] = IF i = idx + 1 THEN node ELSE path[i - 1]
  BY <1>2, <1>3 DEF Walked, Chain, TypeOK, From
<1>8. \A i \in (idx' + 1)..Len(path') : pred[path'[i]] = IF i = idx' + 1 THEN From' ELSE path'[i - 1]
  <2>1. CASE pred[node] # Null
    <3>1. path' = [path EXCEPT ![idx] = node] /\ idx' = idx - 1
      BY <2>1 DEF Walk
    <3>2. HasPred(node)
      BY <1>2, <1>3, <2>1 DEF Tree
    <3>3. hops[node] = hops[pred[node]] + 1 /\ hops[pred[node]] \in Nat /\ idx = hops[node]
      BY <1>2, <1>3, <1>7, <3>2 DEF HasPred, TypeOK, Walked
    <3>4. idx \in 1..Len(path)
      BY <1>7, <3>3
    <3>5. /\ Len(path') = Len(path) /\ path'[idx] = node
          /\ \A i \in 1..Len(path) : i # idx => path'[i] = path[i]
      BY <1>7, <3>1, <3>4
    <3>6. From' = pred[node]
      BY <1>2, <2>1 DEF From
    <3>7. ASSUME NEW i \in (idx' + 1)..Len(path')
          PROVE  pred[path'[i]] = IF i = idx' + 1 THEN From' ELSE path'[i - 1]
      <4>1. i \in idx..Len(path) /\ idx' + 1 = idx
        BY <3>1, <3>4, <3>5
      <4>2. CASE i = idx
        BY <3>5, <3>6, <4>1, <4>2
      <4>3. CASE i # idx
        <5>1. i \in (idx + 1)..Len(path) /\ i \in 1..Len(path) /\ i - 1 \in 1..Len(path)
          BY <3>4, <4>1, <4>3
        <5>2. path'[i] = path[i] /\ pred[path[i]] = IF i = idx + 1 THEN node ELSE path[i - 1]
          BY <1>7, <3>5, <4>3, <5>1
        <5>3. path'[i - 1] = IF i = idx + 1 THEN node ELSE path[i - 1]
          BY <3>4, <3>5, <5>1
        <5> QED
          BY <4>1, <4>3, <5>2, <5>3
      <4> QED
        BY <4>2, <4>3
    <3> QED
      BY <3>7
  <2>2. CASE pred[node] = Null
    <3>1. UNCHANGED <<path, idx>> /\ node = Src /\ From' = Src
      BY <1>2, <1>3, <2>2 DEF Walk, Walked, From
    <3> QED
      BY <1>7, <3>1
  <2> QED
    BY <2>1, <2>2
<1>9. Chain'
  BY <1>2, <1>3, <1>8 DEF Chain
<1> QED
  BY <1>1, <1>4, <1>5, <1>6, <1>9 DEF CheapInv

\* where the path of a round goes in the ring
LEMMA StoredPaths ==
    ASSUME TypeOK, Store, path \in Seq(Node)
    PROVE  /\ Len(paths') = Len(paths) + 1 /\ paths' # <<>> /\ Len(paths) \in Nat
           /\ paths = <<>> => paths'[1] = path
           /\ paths # <<>> => /\ paths'[1] = paths[1]
                              /\ Len(paths) = 1 => paths'[2] = path
                              /\ Len(paths) > 1 => paths'[Len(paths) + 1] = paths[Len(paths)]
<1>1. paths \in Seq(Seq(Node)) /\ Len(paths) \in Nat
  BY DEF TypeOK
<1>2. CASE paths = <<>>
  BY <1>2 DEF Store
<1>3. CASE paths # <<>>
  <2> DEFINE h == <<Head(paths), path>>
             t == Tail(paths)
             S == Seq(Node)
  <2>1. h \in Seq(S) /\ Len(h) = 2 /\ h[1] = paths[1] /\ h[2] = path
    BY <1>1, <1>3
  <2>2. /\ t \in Seq(S) /\ Len(t) = Len(paths) - 1 /\ Len(paths) >= 1
        /\ \A i \in 1..Len(t) : t[i] = paths[i + 1]
    BY <1>1, <1>3
  <2>3. paths' = h \o t
    BY <1>3 DEF Store
  <2> HIDE DEF h, t, S
  <2>4. Len(h \o t) = Len(paths) + 1
    <3>1. Len(h \o t) = Len(h) + Len(t)
      BY <2>1, <2>2, ConcatType
    <3> QED
      BY <1>1, <2>1, <2>2, <3>1
  <2>5. (h \o t)[1] = paths[1] /\ (h \o t)[2] = path
    <3>1. Len(h) = 2 /\ Len(t) \in Nat /\ 1 \in 1..(Len(h) + Len(t)) /\ 2 \in 1..(Len(h) + Len(t))
      BY <1>1, <2>1, <2>2
    <3>2. (h \o t)[1] = IF 1 <= Len(h) THEN h[1] ELSE t[1 - Len(h)]
      BY <2>1, <2>2, <3>1, ConcatEntry
    <3>3. (h \o t)[2] = IF 2 <= Len(h) THEN h[2] ELSE t[2 - Len(h)]
      BY <2>1, <2>2, <3>1, ConcatEntry
    <3> QED
      BY <2>1, <3>1, <3>2, <3>3
  <2>6. ASSUME Len(paths) > 1 PROVE (h \o t)[Len(paths) + 1] = paths[Len(paths)]
    <3> DEFINE k == Len(paths) + 1
    <3>1. k \in 1..(Len(h) + Len(t)) /\ ~(k <= Len(h)) /\ k - Len(h) = Len(paths) - 1
      BY <1>1, <2>1, <2>2, <2>6
    <3>2. (h \o t)[k] = t[k - Len(h)]
      BY <2>1, <2>2, <3>1, ConcatEntry
    <3>3. t[Len(paths) - 1] = paths[Len(paths)]
      BY <1>1, <2>2, <2>6
    <3> QED
      BY <3>1, <3>2, <3>3
  <2>7. paths' # <<>>
    BY <1>1, <2>3, <2>4
  <2> QED
    BY <1>1, <1>3, <2>3, <2>4, <2>5, <2>6, <2>7
<1> QED
  BY <1>2, <1>3

LEMMA StoreCheap ==
    ASSUME NEW L, CostsFit(L), CheapInv(L), Store
    PROVE  CheapInv(L)'
<1> USE NodeAssumption
<1>1. Inv'
  BY StoreInv DEF CheapInv
<1>2. /\ pc = "walk" /\ node = Null /\ linkCost' = nextCost /\ UNCHANGED <<links, nextCost>>
      /\ pc' = IF Len(paths) + 1 = ConfPath THEN "done" ELSE "round"
  BY DEF Store
<1>3. Inv /\ TypeOK /\ Distances(L) /\ Chain /\ FirstShortest /\ Prices(L)
  BY DEF CheapInv, Inv
<1>4. path \in AllPaths /\ PathCost(path) = cost[Dst] /\ path \in Seq(Node)
  BY <1>2, <1>3, WalkedCost, WalkedPath
<1>5. \A p \in AllPaths : PathCost(path) <= PathCost(p)
  BY <1>2, <1>3, <1>4, LowerBound DEF Chain
<1>6. /\ Len(paths') = Len(paths) + 1 /\ paths' # <<>> /\ Len(paths) \in Nat
      /\ paths = <<>> => paths'[1] = path
      /\ paths # <<>> => paths'[1] = paths[1]
  BY <1>3, <1>4, StoredPaths
<1>7. Len(paths) < ConfPath /\ ConfPath \in Nat
  BY <1>2, <1>3, ConfAssumption DEF Prices
<1>8. Prices(L)'
  <2> SUFFICES ASSUME pc' # "done"
               PROVE  /\ Len(paths') < ConfPath
                      /\ \A e \in links : nextCost[e] <= L[Len(paths')] /\ nextCost[e] <= L[Len(paths') + 1]
    BY <1>2 DEF Prices
  <2>1. Len(paths) + 1 < ConfPath
    BY <1>2, <1>6, <1>7
  <2>2. Len(paths) + 1 \in 0..(ConfPath - 1)
    BY <1>6, <1>7, <2>1
  <2>3. /\ L[Len(paths) + 1] \in Nat /\ L[Len(paths) + 1 + 1] \in Nat
        /\ L[Len(paths) + 1] <= L[Len(paths) + 1 + 1]
    BY <2>2, RoundLimits
  <2>4. \A e \in links : nextCost[e] \in Nat /\ nextCost[e] <= L[Len(paths) + 1]
    BY <1>2, <1>3 DEF Prices, TypeOK
  <2> QED
    BY <1>6, <2>1, <2>3, <2>4
<1>9. \A p \in AllPaths : Len(paths'[1]) <= Len(p)
  <2>1. CASE paths = <<>>
    <3>1. \A e \in links : linkCost[e] = 1
      BY <1>3, <2>1 DEF FirstShortest
    <3>2. \A p \in AllPaths : PathCost(p) = Len(p)
      BY <1>3, <3>1, UnitCosts
    <3> QED
      BY <1>4, <1>5, <1>6, <2>1, <3>2
  <2>2. CASE paths # <<>>
    BY <1>3, <1>6, <2>2 DEF FirstShortest
  <2> QED
    BY <2>1, <2>2
<1>10. FirstShortest'
  <2>1. AllPaths' = AllPaths /\ AllPaths # {}
    BY <1>2, <1>4, SamePaths
  <2>2. pc' = "done" => Len(paths') = ConfPath
    BY <1>2, <1>6
  <2> QED
    BY <1>6, <1>9, <2>1, <2>2 DEF FirstShortest
<1> QED
  BY <1>1, <1>2, <1>8, <1>10 DEF CheapInv, Distances, Chain

LEMMA CheapStep ==
    ASSUME NEW L, CostsFit(L)
    PROVE  CheapInv(L) /\ [Next]_vars => CheapInv(L)'
<1> SUFFICES ASSUME CheapInv(L), [Next]_vars PROVE CheapInv(L)'
  OBVIOUS
<1>1. CASE UNCHANGED vars
  <2>1. Inv'
    BY <1>1, InvStep DEF CheapInv
  <2>2. AllPaths' = AllPaths
    BY <1>1, SamePaths DEF vars
  <2>3. Distances(L)' /\ Prices(L)'
    BY <1>1 DEF CheapInv, vars, Prices, Distances, Bounded, Settled, Summed, Processed
  <2>4. Chain' /\ FirstShortest'
    BY <1>1, <2>2 DEF CheapInv, vars, Chain, From, FirstShortest
  <2> QED
    BY <2>1, <2>3, <2>4 DEF CheapInv
<1> QED
  BY <1>1, StartRoundCheap, RelaxCheap, EndRoundCheap, WalkCheap, StoreCheap DEF Next

\* Each round of tc_k_dijstra finds a cheapest path for the link costs of that
\* round, the first one a shortest, and the cache entry is left without paths only
\* where there are none: on every graph, as long as the costs fit their type.
THEOREM RoundsFindCheapestPaths ==
    ASSUME NEW L, CostsFit(L)
    PROVE  Spec => []Contract
<1>1. Init => CheapInv(L)
  BY InitCheap
<1>2. CheapInv(L) /\ [Next]_vars => CheapInv(L)'
  BY CheapStep
<1>3. CheapInv(L) => Contract
  <2> SUFFICES ASSUME CheapInv(L) PROVE Contract
    OBVIOUS
  <2>1. Inv /\ Distances(L) /\ Chain /\ FirstShortest
    BY DEF CheapInv
  <2>2. LeastCost
    <3> SUFFICES ASSUME pc = "walk", node = Null, NEW p \in AllPaths
                 PROVE  PathCost(path) <= PathCost(p)
      BY DEF LeastCost
    <3>1. PathCost(path) = cost[Dst]
      BY <2>1, WalkedCost
    <3>2. cost[Dst] <= PathCost(p)
      BY <2>1, LowerBound DEF Chain
    <3> QED
      BY <3>1, <3>2
  <2>3. ASSUME pc = "done"
        PROVE  IF AllPaths = {} THEN paths = <<>>
               ELSE Len(paths) = ConfPath /\ \A p \in AllPaths : Len(paths[1]) <= Len(p)
    <3>1. Len(paths) = ConfPath => paths # <<>>
      BY ConfAssumption
    <3> QED
      BY <2>1, <2>3, <3>1 DEF FirstShortest
  <2> QED
    BY <2>2, <2>3 DEF Contract
<1> QED
  BY <1>1, <1>2, <1>3, PTL DEF Spec

-----------------------------------------------------------------------------
(***************************************************************************)
(* The second path.                                                        *)
(*                                                                         *)
(* While the first path is written, the walk raises the costs of its links *)
(* and, but for the links into Dst, of no link between nodes off the path. *)
(***************************************************************************)

Entries(p, i) == {p[j] : j \in i..Len(p)}

FirstWalk ==
    (pc = "walk" /\ paths = <<>>) =>
        /\ node # Null => IF idx = Len(path) THEN prev = Null ELSE prev = path[idx + 1]
        /\ \A i \in (IF node = Null THEN 1 ELSE idx + 2)..Len(path) :
              nextCost[<<pred[path[i]], path[i]>>] >= ConfFp
        /\ \A e \in links : e[1] \notin Entries(path, idx + 1) =>
              /\ e[2] \notin Entries(path, idx + 1) => nextCost[e] <= 1
              /\ e[2] = Dst /\ e[1] # pred[Dst] => nextCost[e] <= ConfFe

SecondCosts ==
    Len(paths) = 1 =>
        /\ \A i \in 1..Len(paths[1]) : linkCost[Hop(paths[1], i)] >= ConfFp
        /\ \A e \in links : e[1] \notin Entries(paths[1], 1) =>
              /\ e[2] \notin Entries(paths[1], 1) => linkCost[e] <= 1
              /\ e[2] = Dst /\ e # Hop(paths[1], Len(paths[1])) => linkCost[e] <= ConfFe

Differs ==
    (Len(paths) > 1 /\ Src # Dst) =>
        \A q \in AllPaths :
            (/\ q # paths[1] /\ Nodes(q) \cap Nodes(paths[1]) = {}
             /\ Len(q) - 1 + ConfFe < ConfFp * Len(paths[1])) => paths[Len(paths)] # paths[1]

SecondInv(L) == CheapInv(L) /\ FirstWalk /\ SecondCosts /\ Differs

\* a path of links that cost c or more
LEMMA CostAbove ==
    ASSUME TypeOK, NEW p \in AllPaths, NEW c \in Nat, \A i \in 1..Len(p) : linkCost[Hop(p, i)] >= c
    PROVE  c * Len(p) <= PathCost(p) /\ PathCost(p) \in Nat /\ c * Len(p) \in Nat
<1> DEFINE s == CostsAlong(p)
           S == {i \in Nat : c * i <= s[i]}
<1>1. Len(p) \in Nat /\ \A i \in 0..Len(p) : s[i] \in Nat
  BY PathFacts
<1>2. \A i \in 1..Len(p) : linkCost[Hop(p, i)] \in Nat
  BY PathFacts DEF TypeOK
<1>3. s[0] = 0 /\ \A i \in 1..Len(p) : s[i] = s[i - 1] + linkCost[Hop(p, i)]
  BY <1>1, CostsAlongPath
<1> HIDE DEF s
<1>4. 0 \in S
  BY <1>3
<1>5. ASSUME NEW i \in 1..Len(p), i - 1 \in S PROVE i \in S
  <2> DEFINE k == i - 1
  <2>1. k \in Nat /\ c * k <= s[k] /\ i = k + 1 /\ i \in Nat /\ k \in 0..Len(p)
    BY <1>1, <1>5
  <2>2. s[k] \in Nat /\ linkCost[Hop(p, i)] \in Nat /\ linkCost[Hop(p, i)] >= c
        /\ s[i] = s[k] + linkCost[Hop(p, i)]
    BY <1>1, <1>2, <1>3, <2>1
  <2> HIDE DEF k
  <2>3. c * (k + 1) = c * k + c /\ c * k \in Nat
    BY <2>1
  <2>4. c * i <= s[i]
    BY <2>1, <2>2, <2>3
  <2> QED
    BY <2>1, <2>4
<1> HIDE DEF S
<1>6. \A i \in 0..Len(p) : i \in S
  BY <1>1, <1>4, <1>5, Induction
<1>7. Len(p) \in S /\ s[Len(p)] \in Nat
  BY <1>1, <1>6
<1>8. c * Len(p) \in Nat
  BY <1>1
<1> QED
  BY <1>7, <1>8 DEF S, PathCost, s

\* a path of unit links, but for the last one
LEMMA CostBelow ==
    ASSUME TypeOK, NEW p \in AllPaths, Len(p) > 0, NEW c \in Nat,
           \A i \in 1..(Len(p) - 1) : linkCost[Hop(p, i)] <= 1, linkCost[Hop(p, Len(p))] <= c
    PROVE  PathCost(p) <= Len(p) - 1 + c /\ PathCost(p) \in Nat /\ Len(p) \in Nat
<1> DEFINE s == CostsAlong(p)
           S == {i \in Nat : s[i] <= i}
           m == Len(p) - 1
<1>1. Len(p) \in Nat /\ m \in Nat /\ \A i \in 0..Len(p) : s[i] \in Nat
  BY PathFacts
<1>2. \A i \in 1..Len(p) : linkCost[Hop(p, i)] \in Nat
  BY PathFacts DEF TypeOK
<1>3. s[0] = 0 /\ \A i \in 1..Len(p) : s[i] = s[i - 1] + linkCost[Hop(p, i)]
  BY <1>1, CostsAlongPath
<1> HIDE DEF s
<1>4. 0 \in S
  BY <1>3
<1>5. ASSUME NEW i \in 1..m, i - 1 \in S PROVE i \in S
  <2>1. i \in 1..Len(p) /\ i - 1 \in 0..Len(p) /\ i \in Nat /\ s[i - 1] <= i - 1
    BY <1>1, <1>5
  <2>2. s[i - 1] \in Nat /\ linkCost[Hop(p, i)] \in Nat /\ linkCost[Hop(p, i)] <= 1
        /\ s[i] = s[i - 1] + linkCost[Hop(p, i)]
    BY <1>1, <1>2, <1>3, <1>5, <2>1
  <2> QED
    BY <2>1, <2>2
<1> HIDE DEF S
<1>6. \A i \in 0..m : i \in S
  BY <1>1, <1>4, <1>5, Induction
<1>7. m \in S /\ s[m] \in Nat
  BY <1>1, <1>6
<1>8. s[Len(p)] = s[m] + linkCost[Hop(p, Len(p))] /\ linkCost[Hop(p, Len(p))] \in Nat
  BY <1>1, <1>2, <1>3
<1>9. s[Len(p)] <= m + c /\ s[Len(p)] \in Nat
  BY <1>1, <1>7, <1>8 DEF S
<1> QED
  BY <1>1, <1>9 DEF PathCost, s

\* the first penalty of a link does not wrap
LEMMA FirstPenalty ==
    ASSUME NEW L, CostsFit(L)
    PROVE  FP(1) = ConfFp /\ FE(1) = ConfFe
<1>1. 0 \in 0..(ConfPath - 1) /\ L[0] >= 1 /\ L[0] \in Nat
  BY ConfAssumption DEF CostsFit
<1>2. /\ L[0 + 1] < MaxCost /\ L[0 + 1] \in Nat
      /\ L[0] * ConfFp <= L[0 + 1] /\ L[0] * ConfFe <= L[0 + 1]
  BY <1>1, RoundLimits DEF CostsFit
<1>3. 1 * ConfFp <= L[0] * ConfFp /\ 1 * ConfFe <= L[0] * ConfFe
  BY <1>1, ConfAssumption, Product
<1>4. L[0] * ConfFp \in Nat /\ L[0] * ConfFe \in Nat /\ 1 * ConfFp = ConfFp /\ 1 * ConfFe = ConfFe
  BY <1>1, ConfAssumption
<1>5. ConfFp <= MaxCost /\ ConfFe <= MaxCost
  BY <1>2, <1>3, <1>4, ConfAssumption
<1> QED
  BY <1>4, <1>5, UnsignedSmall, ConfAssumption DEF FP, FE

LEMMA EndRoundSecond ==
    ASSUME NEW L, CostsFit(L), SecondInv(L), EndRound
    PROVE  FirstWalk'
<1> SUFFICES ASSUME pc' = "walk", paths' = <<>> PROVE FirstWalk'
  BY DEF FirstWalk
<1>1. /\ pc = "loop" /\ idx' = hops[Dst] /\ path' = [i \in 1..hops[Dst] |-> Null] /\ prev' = Null
      /\ node' = Dst /\ UNCHANGED <<links, nextCost, paths>>
  BY DEF EndRound, FirstIdx
<1>2. hops[Dst] \in Nat /\ Len(path') = hops[Dst] /\ Dst # Null
  BY <1>1, NodeAssumption DEF SecondInv, CheapInv, Inv, TypeOK
<1>3. \A e \in links : nextCost[e] = 1
  BY <1>1 DEF SecondInv, CheapInv, Prices, FirstShortest
<1>4. \A e \in links' : nextCost'[e] <= 1 /\ nextCost'[e] <= ConfFe
  BY <1>1, <1>3, ConfAssumption
<1>5. (idx' + 2)..Len(path') = {} /\ idx' = Len(path')
  BY <1>1, <1>2
<1> QED
  BY <1>1, <1>2, <1>4, <1>5 DEF FirstWalk

\* the buffer after a step of the walk
LEMMA WalkStep ==
    ASSUME NEW L, CheapInv(L), Walk
    PROVE  /\ pc = "walk" /\ node \in Node /\ prev' = node /\ node' = pred[node]
           /\ UNCHANGED <<links, linkCost, pred, paths>>
           /\ idx \in 0..Len(path) /\ Len(path) \in Nat /\ Len(path') = Len(path)
           /\ \A i \in (idx + 1)..Len(path) : path'[i] = path[i]
           /\ pred[node] # Null => idx' = idx - 1 /\ idx \in 1..Len(path) /\ path'[idx] = node
           /\ pred[node] = Null => UNCHANGED <<path, idx>> /\ idx = 0
<1> USE NodeAssumption
<1>1. /\ pc = "walk" /\ node # Null /\ prev' = node /\ node' = pred[node]
      /\ UNCHANGED <<links, linkCost, pred, paths>>
  BY DEF Walk
<1>2. Inv /\ TypeOK /\ Walked /\ Tree /\ node \in Node /\ path \in Seq(MaybeNode) /\ Len(path) \in Nat
      /\ hops[Src] = 0
  <2>1. Inv /\ TypeOK /\ Walked /\ Tree /\ hops[Src] = 0
    BY DEF CheapInv, Inv
  <2>2. node \in Node /\ path \in Seq(MaybeNode)
    BY <1>1, <2>1 DEF TypeOK, MaybeNode
  <2>3. Len(path) \in Nat
    BY <2>2
  <2> QED
    BY <2>1, <2>2, <2>3
<1>3. idx \in 0..Len(path) /\ idx = hops[node] /\ (node = Src \/ pred[node] # Null)
  BY <1>1, <1>2 DEF Walked, From
<1>4. CASE pred[node] # Null
  <2>1. path' = [path EXCEPT ![idx] = node] /\ idx' = idx - 1
    BY <1>4 DEF Walk
  <2>2. HasPred(node)
    BY <1>1, <1>2, <1>4 DEF Tree
  <2>3. hops[node] = hops[pred[node]] + 1 /\ hops[pred[node]] \in Nat
    BY <1>2, <2>2 DEF HasPred, TypeOK
  <2>4. idx \in 1..Len(path)
    BY <1>3, <2>3
  <2>5. Len(path') = Len(path) /\ path'[idx] = node
        /\ \A i \in 1..Len(path) : i # idx => path'[i] = path[i]
    BY <1>2, <2>1, <2>4
  <2>6. ASSUME NEW i \in (idx + 1)..Len(path) PROVE path'[i] = path[i]
    <3>1. i \in 1..Len(path) /\ i # idx
      BY <2>4
    <3> QED
      BY <2>5, <3>1
  <2> QED
    BY <1>1, <1>2, <1>3, <1>4, <2>1, <2>4, <2>5, <2>6
<1>5. CASE pred[node] = Null
  <2>1. UNCHANGED <<path, idx>> /\ idx = 0
    BY <1>2, <1>3, <1>5 DEF Walk
  <2> QED
    BY <1>1, <1>2, <1>3, <1>5, <2>1
<1> QED
  BY <1>4, <1>5

LEMMA WalkSecond ==
    ASSUME NEW L, CostsFit(L), SecondInv(L), Walk
    PROVE  FirstWalk'
<1> USE NodeAssumption
<1> SUFFICES ASSUME paths' = <<>> PROVE FirstWalk'
  BY DEF FirstWalk
<1>0. CheapInv(L) /\ FirstWalk /\ TypeOK /\ Inv /\ Chain /\ Walked
  BY DEF SecondInv, CheapInv, Inv
<1>1. /\ pc = "walk" /\ node \in Node /\ prev' = node /\ node' = pred[node]
      /\ UNCHANGED <<links, linkCost, pred, paths>>
      /\ idx \in 0..Len(path) /\ Len(path) \in Nat /\ Len(path') = Len(path)
      /\ \A i \in (idx + 1)..Len(path) : path'[i] = path[i]
      /\ pred[node] # Null => idx' = idx - 1 /\ idx \in 1..Len(path) /\ path'[idx] = node
      /\ pred[node] = Null => UNCHANGED <<path, idx>> /\ idx = 0
  BY <1>0, WalkStep
<1>2. /\ IF idx = Len(path) THEN prev = Null ELSE prev = path[idx + 1]
      /\ \A i \in (idx + 2)..Len(path) : nextCost[<<pred[path[i]], path[i]>>] >= ConfFp
      /\ \A e \in links : e[1] \notin Entries(path, idx + 1) =>
            /\ e[2] \notin Entries(path, idx + 1) => nextCost[e] <= 1
            /\ e[2] = Dst /\ e[1] # pred[Dst] => nextCost[e] <= ConfFe
  <2>1. paths = <<>> /\ node # Null
    BY <1>1
  <2> QED
    BY <1>0, <1>1, <2>1 DEF FirstWalk
<1>3. \A e \in links : linkCost[e] = 1
  BY <1>0, <1>1 DEF CheapInv, FirstShortest
<1>4. FP(1) = ConfFp /\ FE(1) = ConfFe /\ ConfFp \in Nat /\ ConfFe \in Nat /\ ConfFe >= 1
  BY FirstPenalty, ConfAssumption
<1>5. /\ \A i \in (idx + 1)..Len(path) : /\ path[i] \in Node /\ hops[path[i]] = i
                                         /\ <<pred[path[i]], path[i]>> \in links
      /\ idx < Len(path) => pred[path[idx + 1]] = node
  <2>1. From = node
    BY <1>1 DEF From
  <2>2. ASSUME NEW i \in (idx + 1)..Len(path)
        PROVE  path[i] \in Node /\ hops[path[i]] = i /\ <<pred[path[i]], path[i]>> \in links
    <3>1. Written(i) /\ pred[path[i]] = IF i = idx + 1 THEN From ELSE path[i - 1]
      BY <1>0, <1>1 DEF Walked, Chain
    <3> QED
      BY <3>1 DEF Written
  <2>3. idx < Len(path) => pred[path[idx + 1]] = node
    <3>1. idx < Len(path) => idx + 1 \in (idx + 1)..Len(path)
      BY <1>1
    <3> QED
      BY <1>0, <1>1, <2>1, <3>1 DEF Chain
  <2> QED
    BY <2>2, <2>3
<1>6. \A e \in links : nextCost'[e] = IF prev = Null THEN nextCost[e] ELSE Penalised(node, prev, e)
  BY DEF Walk
<1>7. Entries(path, idx + 1) \subseteq Entries(path', idx' + 1)
  <2> SUFFICES ASSUME NEW j \in (idx + 1)..Len(path) PROVE path[j] \in Entries(path', idx' + 1)
    BY DEF Entries
  <2>1. idx' \in Int /\ idx' <= idx
    BY <1>1
  <2>2. path'[j] = path[j] /\ j \in Int /\ idx + 1 <= j /\ j <= Len(path) /\ idx \in Int
        /\ Len(path') = Len(path) /\ Len(path) \in Int
    BY <1>1
  <2>3. j \in (idx' + 1)..Len(path')
    BY <2>1, <2>2
  <2> QED
    BY <2>2, <2>3 DEF Entries
<1>8. ASSUME node' # Null PROVE IF idx' = Len(path') THEN prev' = Null ELSE prev' = path'[idx' + 1]
  <2>1. idx' = idx - 1 /\ idx \in 1..Len(path) /\ path'[idx] = node
    BY <1>1, <1>8
  <2>2. idx' # Len(path') /\ idx' + 1 = idx
    BY <1>1, <2>1
  <2> QED
    BY <1>1, <2>1, <2>2
<1>9. CASE prev = Null
  <2>1. idx = Len(path)
    <3> SUFFICES ASSUME idx # Len(path) PROVE FALSE
      OBVIOUS
    <3>1. idx + 1 \in (idx + 1)..Len(path) /\ prev = path[idx + 1]
      BY <1>1, <1>2
    <3> QED
      BY <1>5, <1>9, <3>1
  <2>2. (IF node' = Null THEN 1 ELSE idx' + 2)..Len(path') = {}
    <3>1. CASE pred[node] = Null
      BY <1>1, <2>1, <3>1
    <3>2. CASE pred[node] # Null
      BY <1>1, <2>1, <3>2
    <3> QED
      BY <3>1, <3>2
  <2>3. \A e \in links : nextCost'[e] = nextCost[e]
    BY <1>6, <1>9
  <2>4. \A e \in links : e[1] \notin Entries(path', idx' + 1) =>
            /\ e[2] \notin Entries(path', idx' + 1) => nextCost'[e] <= 1
            /\ e[2] = Dst /\ e[1] # pred[Dst] => nextCost'[e] <= ConfFe
    BY <1>2, <1>7, <2>3
  <2> QED
    BY <1>1, <1>8, <2>2, <2>4 DEF FirstWalk
<1>10. CASE prev # Null
  <2>1. idx < Len(path) /\ prev = path[idx + 1] /\ idx + 1 \in (idx + 1)..Len(path)
    BY <1>1, <1>2, <1>10
  <2>2. prev \in Entries(path, idx + 1) /\ pred[prev] = node /\ hops[prev] = idx + 1
    BY <1>5, <2>1 DEF Entries
  <2>3. \A e \in links : nextCost'[e] = Penalised(node, prev, e) /\ linkCost[e] = 1
    BY <1>3, <1>6, <1>10
  <2>4. ASSUME NEW i \in (IF node' = Null THEN 1 ELSE idx' + 2)..Len(path')
        PROVE  nextCost'[<<pred'[path'[i]], path'[i]>>] >= ConfFp
    <3>1. i \in (idx + 1)..Len(path) /\ (i # idx + 1 => i \in (idx + 2)..Len(path))
      <4>1. CASE pred[node] = Null
        BY <1>1, <4>1
      <4>2. CASE pred[node] # Null
        BY <1>1, <4>2
      <4> QED
        BY <4>1, <4>2
    <3> DEFINE e == <<pred[path[i]], path[i]>>
    <3>2. e \in links /\ hops[path[i]] = i /\ path'[i] = path[i] /\ e[1] = pred[path[i]] /\ e[2] = path[i]
      BY <1>1, <1>5, <3>1
    <3>3. <<pred'[path'[i]], path'[i]>> = e
      BY <1>1, <3>2
    <3> HIDE DEF e
    <3>4. nextCost'[e] = Penalised(node, prev, e) /\ linkCost[e] = 1
      BY <2>3, <3>2
    <3>5. CASE i = idx + 1
      <4>1. e[2] = prev /\ e[1] = node
        BY <2>1, <2>2, <3>2, <3>5
      <4>2. nextCost'[e] = ConfFp
        BY <1>4, <3>4, <4>1 DEF Penalised
      <4> QED
        BY <1>4, <3>3, <4>2
    <3>6. CASE i # idx + 1
      <4>1. e[2] # prev
        BY <2>2, <3>2, <3>6
      <4>2. nextCost[e] >= ConfFp
        BY <1>2, <3>1, <3>6 DEF e
      <4>3. nextCost'[e] = nextCost[e] \/ nextCost'[e] = ConfFp
        BY <1>4, <3>4, <4>1 DEF Penalised
      <4> QED
        BY <1>4, <3>3, <4>2, <4>3
    <3> QED
      BY <3>5, <3>6
  <2>5. ASSUME NEW e \in links, e[1] \notin Entries(path', idx' + 1)
        PROVE  /\ e[2] \notin Entries(path', idx' + 1) => nextCost'[e] <= 1
               /\ e[2] = Dst /\ e[1] # pred[Dst] => nextCost'[e] <= ConfFe
    <3>1. e[1] \notin Entries(path, idx + 1) /\ e[1] # prev
      BY <1>7, <2>2, <2>5
    <3>2. e # <<prev, node>>
      BY <3>1
    <3>3. nextCost'[e] = IF e[2] # prev THEN nextCost[e] ELSE IF e[1] = node THEN ConfFp ELSE ConfFe
      BY <1>4, <2>3, <3>2 DEF Penalised
    <3>4. ASSUME e[2] \notin Entries(path', idx' + 1) PROVE nextCost'[e] <= 1
      <4>1. e[2] \notin Entries(path, idx + 1) /\ e[2] # prev
        BY <1>7, <2>2, <3>4
      <4> QED
        BY <1>2, <3>1, <3>3, <4>1
    <3>5. ASSUME e[2] = Dst, e[1] # pred[Dst] PROVE nextCost'[e] <= ConfFe
      <4>1. CASE e[2] # prev
        BY <1>2, <3>1, <3>3, <3>5, <4>1
      <4>2. CASE e[2] = prev
        BY <1>4, <2>2, <3>3, <3>5, <4>2
      <4> QED
        BY <4>1, <4>2
    <3> QED
      BY <3>4, <3>5
  <2> QED
    BY <1>1, <1>8, <2>4, <2>5 DEF FirstWalk
<1> QED
  BY <1>9, <1>10

\* the costs the first path leaves
LEMMA StoreFirst ==
    ASSUME NEW L, CostsFit(L), SecondInv(L), Store
    PROVE  SecondCosts'
<1> USE NodeAssumption
<1> SUFFICES ASSUME Len(paths') = 1 PROVE SecondCosts'
  BY DEF SecondCosts
<1>0. CheapInv(L) /\ FirstWalk /\ TypeOK /\ Inv /\ Chain /\ Walked /\ Tree
  BY DEF SecondInv, CheapInv, Inv
<1>1. pc = "walk" /\ node = Null /\ linkCost' = nextCost /\ links' = links /\ path \in Seq(Node) /\ IsPath(path)
  BY <1>0, WalkedPath DEF Store
<1>2. paths = <<>> /\ paths'[1] = path
  <2>1. Len(paths') = Len(paths) + 1 /\ Len(paths) \in Nat /\ (paths = <<>> => paths'[1] = path)
    BY <1>0, <1>1, StoredPaths
  <2>2. Len(paths) = 0
    BY <2>1
  <2> QED
    BY <1>0, <2>1, <2>2 DEF TypeOK
<1>3. idx = 0 /\ Len(path) \in Nat /\ From = Src
  BY <1>0, <1>1 DEF Inv, Walked, From
<1>4. /\ \A i \in 1..Len(path) : nextCost[<<pred[path[i]], path[i]>>] >= ConfFp
      /\ \A e \in links : e[1] \notin Entries(path, 1) =>
            /\ e[2] \notin Entries(path, 1) => nextCost[e] <= 1
            /\ e[2] = Dst /\ e[1] # pred[Dst] => nextCost[e] <= ConfFe
  BY <1>0, <1>1, <1>2, <1>3 DEF FirstWalk
<1>5. ASSUME NEW i \in 1..Len(path) PROVE Hop(path, i) = <<pred[path[i]], path[i]>>
  <2>1. pred[path[i]] = IF i = 1 THEN Src ELSE path[i - 1]
    BY <1>0, <1>1, <1>3 DEF Chain
  <2> QED
    BY <2>1 DEF Hop
<1>6. ASSUME NEW e \in links, e[2] = Dst, e # Hop(path, Len(path)) PROVE e[1] # pred[Dst]
  <2> SUFFICES ASSUME e[1] = pred[Dst] PROVE FALSE
    OBVIOUS
  <2>1. e \in Node \X Node /\ e[1] # Null /\ e = <<e[1], e[2]>>
    BY <1>0 DEF TypeOK
  <2>2. CASE Len(path) = 0
    <3>1. path = <<>>
      BY <1>1, <2>2
    <3>2. Src = Dst
      BY <1>1, <3>1 DEF IsPath
    <3>3. pred[Src] = Null
      BY <1>0, <1>1 DEF Tree
    <3> QED
      BY <2>1, <3>2, <3>3
  <2>3. CASE Len(path) # 0
    <3>1. Len(path) \in 1..Len(path) /\ path # <<>>
      BY <1>1, <1>3, <2>3
    <3>2. path[Len(path)] = Dst
      BY <1>1, <3>1 DEF IsPath
    <3> QED
      BY <1>5, <1>6, <2>1, <3>1, <3>2
  <2> QED
    BY <2>2, <2>3
<1>7. \A i \in 1..Len(path) : linkCost'[Hop(path, i)] >= ConfFp
  BY <1>1, <1>4, <1>5
<1>8. \A e \in links : e[1] \notin Entries(path, 1) =>
            /\ e[2] \notin Entries(path, 1) => linkCost'[e] <= 1
            /\ e[2] = Dst /\ e # Hop(path, Len(path)) => linkCost'[e] <= ConfFe
  BY <1>1, <1>4, <1>6
<1> QED
  BY <1>1, <1>2, <1>7, <1>8 DEF SecondCosts, Hop

\* What the penalties make of another path that keeps off the first one.
LEMMA OtherPath ==
    ASSUME SecondCosts, TypeOK, PathsSimple, Len(paths) = 1, Src # Dst, NEW q \in AllPaths,
           q # paths[1], Nodes(q) \cap Nodes(paths[1]) = {}
    PROVE  PathCost(q) <= Len(q) - 1 + ConfFe /\ PathCost(q) \in Nat /\ Len(q) \in Nat
<1> USE NodeAssumption
<1> DEFINE P == paths[1]
           E == Entries(P, 1)
<1>1. paths \in Seq(Seq(Node)) /\ 1 \in DOMAIN paths /\ P \in Seq(Node) /\ IsPath(P)
  <2>1. paths \in Seq(Seq(Node)) /\ 1 \in DOMAIN paths
    BY DEF TypeOK
  <2>2. P \in Seq(Node)
    <3> DEFINE T == Seq(Node)
    <3>1. paths \in Seq(T) /\ 1 \in DOMAIN paths
      BY <2>1
    <3> HIDE DEF T
    <3>2. paths[1] \in T
      BY <3>1
    <3> QED
      BY <3>2 DEF T
  <2>3. IsPath(P)
    BY <2>1 DEF PathsSimple
  <2> QED
    BY <2>1, <2>2, <2>3
<1>2. Len(P) \in Nat /\ DOMAIN P = 1..Len(P) /\ P # <<>> /\ Len(P) \in 1..Len(P) /\ P[Len(P)] = Dst
  <2>1. P # <<>>
    BY <1>1 DEF IsPath
  <2>2. Len(P) \in Nat /\ DOMAIN P = 1..Len(P) /\ Len(P) # 0
    BY <1>1, <2>1
  <2> QED
    BY <1>1, <2>1, <2>2 DEF IsPath
<1>3. E = Nodes(P) \cup {Dst} /\ Src \notin E
  <2>1. E = {P[i] : i \in DOMAIN P}
    BY <1>2 DEF Entries
  <2>2. Dst \in E
    BY <1>2, <2>1
  <2>3. Src \notin E
    BY <1>1, <2>1 DEF IsPath
  <2> QED
    BY <2>1, <2>2, <2>3 DEF Nodes
<1>4. /\ q \in Seq(Node) /\ Len(q) \in Nat /\ DOMAIN q = 1..Len(q)
      /\ \A i \in 1..Len(q) : /\ At(q, i) \in Node /\ Hop(q, i) \in links
                              /\ Hop(q, i) = <<At(q, i - 1), At(q, i)>>
      /\ At(q, 0) = Src /\ At(q, Len(q)) = Dst
  BY PathFacts
<1>5. Len(q) > 0 /\ IsPath(q)
  BY <1>4 DEF AllPaths
<1>6. /\ \A e \in links : e[1] \notin E =>
            /\ e[2] \notin E => linkCost[e] <= 1
            /\ e[2] = Dst /\ e # Hop(P, Len(P)) => linkCost[e] <= ConfFe
  BY DEF SecondCosts
<1> HIDE DEF E
<1>7. ASSUME NEW i \in 0..(Len(q) - 1) PROVE At(q, i) \notin E
  <2>1. CASE i = 0
    BY <1>3, <1>4, <2>1
  <2>2. CASE i # 0
    <3>1. i \in DOMAIN q /\ Len(q) \in DOMAIN q /\ i # Len(q) /\ At(q, i) = q[i] /\ q[Len(q)] = Dst
      BY <1>4, <1>5, <2>2 DEF At
    <3>2. q[i] # Dst
      BY <1>5, <3>1 DEF IsPath
    <3>3. q[i] \in Nodes(q)
      BY <3>1, <3>2 DEF Nodes
    <3> QED
      BY <1>3, <3>1, <3>2, <3>3
  <2> QED
    BY <2>1, <2>2
<1>8. ASSUME NEW i \in 1..(Len(q) - 1) PROVE linkCost[Hop(q, i)] <= 1
  <2>1. i \in 1..Len(q) /\ i \in 0..(Len(q) - 1) /\ i - 1 \in 0..(Len(q) - 1)
    BY <1>4
  <2>2. Hop(q, i) \in links /\ Hop(q, i)[1] \notin E /\ Hop(q, i)[2] \notin E
    BY <1>4, <1>7, <2>1
  <2> QED
    BY <1>6, <2>2
<1>9. linkCost[Hop(q, Len(q))] <= ConfFe
  <2> DEFINE n == At(q, Len(q) - 1)
  <2>1. Len(q) \in 1..Len(q) /\ Len(q) - 1 \in 0..(Len(q) - 1)
    BY <1>4, <1>5
  <2>2. Hop(q, Len(q)) \in links /\ Hop(q, Len(q)) = <<n, Dst>> /\ n \notin E
    BY <1>4, <1>7, <2>1
  <2>3. Hop(q, Len(q)) # Hop(P, Len(P))
    <3> SUFFICES ASSUME n = IF Len(P) = 1 THEN Src ELSE P[Len(P) - 1] PROVE FALSE
      BY <2>2 DEF Hop
    <3>1. CASE Len(P) # 1
      <4>1. Len(P) - 1 \in 1..Len(P)
        <5> DEFINE m == Len(P)
        <5>1. m \in Nat /\ m \in 1..m /\ m # 1
          BY <1>2, <3>1
        <5> HIDE DEF m
        <5>2. m - 1 \in 1..m
          BY <5>1
        <5> QED
          BY <5>2 DEF m
      <4>2. n \in E
        BY <3>1, <4>1 DEF E, Entries
      <4> QED
        BY <2>2, <4>2
    <3>2. CASE Len(P) = 1
      <4>1. n = Src
        BY <3>2
      <4>2. Len(q) = 1
        <5> SUFFICES ASSUME Len(q) # 1 PROVE FALSE
          OBVIOUS
        <5>1. Len(q) - 1 \in DOMAIN q /\ n = q[Len(q) - 1]
          BY <1>4, <1>5 DEF At
        <5> QED
          BY <1>5, <4>1, <5>1 DEF IsPath
      <4>3. q[1] = Dst /\ P[1] = Dst
        BY <1>2, <1>4, <3>2, <4>2 DEF At
      <4>4. q = P
        BY <1>1, <1>4, <3>2, <4>2, <4>3
      <4> QED
        BY <4>4
    <3> QED
      BY <3>1, <3>2
  <2> QED
    BY <1>6, <2>2, <2>3
<1>10. ConfFe \in Nat
  BY ConfAssumption
<1> QED
  BY <1>5, <1>8, <1>9, <1>10, CostBelow

LEMMA StoreSecond ==
    ASSUME NEW L, CostsFit(L), SecondInv(L), Store
    PROVE  Differs'
<1> USE NodeAssumption
<1> SUFFICES ASSUME Len(paths') > 1, Src # Dst, NEW q \in AllPaths', q # paths'[1],
                    Nodes(q) \cap Nodes(paths'[1]) = {}, Len(q) - 1 + ConfFe < ConfFp * Len(paths'[1]),
                    paths'[Len(paths')] = paths'[1]
             PROVE  FALSE
  BY DEF Differs, Nodes
<1>1. CheapInv(L) /\ Inv /\ TypeOK /\ Chain /\ Distances(L) /\ SecondCosts /\ Differs /\ PathsSimple
  BY DEF SecondInv, CheapInv, Inv
<1>2. pc = "walk" /\ node = Null /\ links' = links
  BY DEF Store
<1>3. path \in AllPaths /\ PathCost(path) = cost[Dst] /\ path \in Seq(Node) /\ q \in AllPaths
  BY <1>1, <1>2, WalkedCost, WalkedPath, SamePaths
<1>4. /\ Len(paths') = Len(paths) + 1 /\ Len(paths) \in Nat
      /\ paths # <<>> => /\ paths'[1] = paths[1]
                         /\ Len(paths) = 1 => paths'[2] = path
                         /\ Len(paths) > 1 => paths'[Len(paths) + 1] = paths[Len(paths)]
  BY <1>1, <1>3, StoredPaths
<1>5. paths # <<>> /\ paths'[1] = paths[1]
  BY <1>4
<1>6. CASE Len(paths) > 1
  <2>1. paths[Len(paths)] = paths[1]
    BY <1>4, <1>5, <1>6
  <2> QED
    BY <1>1, <1>3, <1>5, <1>6, <2>1 DEF Differs
<1>7. CASE Len(paths) = 1
  <2>1. path = paths[1]
    BY <1>4, <1>5, <1>7
  <2>2. PathCost(q) <= Len(q) - 1 + ConfFe /\ PathCost(q) \in Nat /\ Len(q) \in Nat
    BY <1>1, <1>3, <1>5, <1>7, OtherPath
  <2>3. PathCost(path) <= PathCost(q)
    BY <1>1, <1>2, <1>3, LowerBound DEF Chain
  <2>4. \A i \in 1..Len(path) : linkCost[Hop(path, i)] >= ConfFp
    BY <1>1, <1>7, <2>1 DEF SecondCosts
  <2>5. ConfFp * Len(path) <= PathCost(path) /\ PathCost(path) \in Nat /\ ConfFp * Len(path) \in Nat
    BY <1>1, <1>3, <2>4, ConfAssumption, CostAbove
  <2>6. Len(q) - 1 + ConfFe < ConfFp * Len(path) /\ ConfFe \in Nat
    BY <1>5, <2>1, ConfAssumption
  <2> QED
    BY <2>2, <2>3, <2>5, <2>6
<1>8. Len(paths) > 1 \/ Len(paths) = 1
  <2> DEFINE k == Len(paths)
  <2>1. k \in Nat /\ k + 1 > 1
    BY <1>4
  <2> HIDE DEF k
  <2>2. k > 1 \/ k = 1
    BY <2>1
  <2> QED
    BY <2>2 DEF k
<1> QED
  BY <1>6, <1>7, <1>8

LEMMA SecondStep ==
    ASSUME NEW L, CostsFit(L), SecondInv(L), [Next]_vars
    PROVE  SecondInv(L)'
<1>1. CheapInv(L)'
  BY CheapStep DEF SecondInv
<1>2. CASE Store
  <2>1. FirstWalk'
    BY <1>2 DEF Store, FirstWalk
  <2> QED
    BY <1>1, <1>2, <2>1, StoreFirst, StoreSecond DEF SecondInv
<1>3. CASE ~Store
  <2>1. UNCHANGED <<links, linkCost, paths>>
    BY <1>3 DEF Next, vars, StartRound, Relax, EndRound, Walk
  <2>2. AllPaths' = AllPaths
    BY <2>1, SamePaths
  <2>3. SecondCosts'
    BY <2>1 DEF SecondInv, SecondCosts, Hop
  <2>4. Differs'
    BY <2>1, <2>2 DEF SecondInv, Differs, Nodes
  <2>5. FirstWalk'
    <3>1. CASE UNCHANGED vars
      BY <3>1 DEF SecondInv, FirstWalk, vars
    <3>2. CASE StartRound \/ Relax
      BY <3>2 DEF FirstWalk, StartRound, Relax
    <3> QED
      BY <1>3, <3>1, <3>2, EndRoundSecond, WalkSecond DEF Next
  <2> QED
    BY <1>1, <2>3, <2>4, <2>5 DEF SecondInv
<1> QED
  BY <1>2, <1>3

\* The penalties of tc_k_dijstra do what they are for on every graph: where a path
\* without an inner node of the first one is short enough, the second path is
\* another one than the first; again as long as the costs fit their type.
THEOREM PenaltiesYieldOtherPath ==
    ASSUME NEW L, CostsFit(L)
    PROVE  Spec => []SecondPathDiffers
<1>1. Init => SecondInv(L)
  <2> SUFFICES ASSUME Init PROVE SecondInv(L)
    OBVIOUS
  <2>1. CheapInv(L)
    BY InitCheap
  <2>2. Len(paths) = 0 /\ pc = "round"
    BY DEF Init
  <2> QED
    BY <2>1, <2>2 DEF SecondInv, FirstWalk, SecondCosts, Differs
<1>2. SecondInv(L) /\ [Next]_vars => SecondInv(L)'
  BY SecondStep
<1>3. SecondInv(L) => SecondPathDiffers
  BY DEF SecondInv, Differs, SecondPathDiffers
<1> QED
  BY <1>1, <1>2, <1>3, PTL DEF Spec

=============================================================================
