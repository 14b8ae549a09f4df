-------------------------- MODULE PluginSyncProofs --------------------------
(***************************************************************************)
(* Proofs about PluginSync, for any nodes, aliases and buckets and any     *)
(* number of changes.                                                      *)
(*                                                                         *)
(* The commands on their way are read as a run of the router: what it will *)
(* hold once it has applied them is what the plugin believes it holds.     *)
(* The two folds over olsrd's and over the plugin's tables are taken apart *)
(* with an invariant for each subset of the elements walked so far.        *)
(***************************************************************************)
EXTENDS PluginSync, TLAPS, FiniteSetTheorems, NaturalsInduction, WellFoundedInduction

-----------------------------------------------------------------------------
(* Induction over finite sets and folds *)

\* Least really is a member of a non-empty set of naturals, and its lower bound.
LEMMA LeastMember ==
    ASSUME NEW S \in SUBSET Nat, S # {}
    PROVE  Least(S) \in S /\ \A j \in S : Least(S) <= j
<1> DEFINE Lt == {p \in Nat \X Nat : p[1] < p[2]}
<1>1. OpToRel(<, Nat) = Lt
  BY Zenon DEF OpToRel
<1>2. IsWellFoundedOn(Lt, Nat)
  BY <1>1, NatLessThanWellFounded
<1> HIDE DEF Lt
<1>3. PICK i \in S : \A j \in S : ~(<<j, i>> \in Lt)
  BY <1>2, WFMin
<1>4. \A j \in S : i <= j
  <2> SUFFICES ASSUME NEW j \in S PROVE i <= j
    OBVIOUS
  <2>1. i \in Nat /\ j \in Nat
    OBVIOUS
  <2>2. j < i => <<j, i>> \in Lt
    BY <2>1 DEF Lt
  <2> QED
    BY <2>1, <2>2, <1>3
<1> QED
  BY <1>4 DEF Least

\* A set of naturals that leads from each number to the next one has them all.
LEMMA Upward ==
    ASSUME NEW Q, 0 \in Q, \A n \in Nat : n \in Q => n + 1 \in Q
    PROVE  Nat \subseteq Q
<1> DEFINE Bad == Nat \ Q
           m == Least(Bad)
<1> SUFFICES ASSUME Bad # {} PROVE FALSE
  OBVIOUS
<1>1. m \in Bad /\ \A j \in Bad : m <= j
  BY LeastMember
<1> HIDE DEF m
<1>2. m \in Nat /\ m \notin Q /\ m # 0
  BY <1>1
<1>3. m - 1 \in Nat /\ (m - 1) + 1 = m /\ ~(m <= m - 1)
  BY <1>2
<1>4. m - 1 \in Q
  BY <1>1, <1>3
<1> QED
  BY <1>2, <1>3, <1>4

\* Every subset of a finite set belongs to a collection that has the empty set,
\* and each set of which it has all that lack one element.
LEMMA SubsetInduction ==
    ASSUME NEW S, IsFiniteSet(S), NEW Q, {} \in Q,
           \A T \in SUBSET S : T # {} /\ (\A e \in T : T \ {e} \in Q) => T \in Q
    PROVE  SUBSET S \subseteq Q
<1> DEFINE P == {n \in Nat : \A T \in SUBSET S : Cardinality(T) = n => T \in Q}
<1>1. 0 \in P
  <2> SUFFICES ASSUME NEW T \in SUBSET S, Cardinality(T) = 0 PROVE T \in Q
    OBVIOUS
  <2>1. T = {}
    BY FS_Subset, FS_EmptySet
  <2> QED
    BY <2>1
<1>2. ASSUME NEW n \in Nat, n \in P PROVE n + 1 \in P
  <2> SUFFICES ASSUME NEW T \in SUBSET S, Cardinality(T) = n + 1 PROVE T \in Q
    OBVIOUS
  <2>1. IsFiniteSet(T)
    BY FS_Subset
  <2>2. T # {}
    BY <2>1, FS_EmptySet
  <2>3. ASSUME NEW e \in T PROVE T \ {e} \in Q
    <3>1. Cardinality(T \ {e}) = Cardinality(T) - 1
      BY <2>1, FS_RemoveElement
    <3>2. Cardinality(T \ {e}) = n
      BY <3>1
    <3> QED
      BY <1>2, <3>2
  <2> QED
    BY <2>2, <2>3
<1> HIDE DEF P
<1>3. Nat \subseteq P
  BY <1>1, <1>2, Upward
<1>4. ASSUME NEW T \in SUBSET S PROVE T \in Q
  <2>1. Cardinality(T) \in Nat
    BY FS_Subset, FS_CardinalityType
  <2> QED
    BY <1>3, <2>1 DEF P
<1> QED
  BY <1>4

Pick(s) == CHOOSE x \in s : TRUE

Solution(g, S, b, G, Good) ==
    /\ g = [s \in SUBSET S |-> IF s = {} THEN b ELSE G[<<Pick(s), g[s \ {Pick(s)}]>>]]
    /\ \A D \in SUBSET S : g[D] \in Good[D]

\* The recursion of a fold has a solution, and all its values satisfy an
\* invariant that each step carries on.
LEMMA FoldSolution ==
    ASSUME NEW S, IsFiniteSet(S), NEW b, NEW G, NEW Good,
           b \in Good[{}],
           \A D \in SUBSET S : \A e \in D : \A x \in Good[D \ {e}] : G[<<e, x>>] \in Good[D]
    PROVE  \E g : Solution(g, S, b, G, Good)
<1> DEFINE Small(n) == {s \in SUBSET S : Cardinality(s) <= n}
           Solves(g, n) ==
               /\ g = [s \in Small(n) |-> IF s = {} THEN b ELSE G[<<Pick(s), g[s \ {Pick(s)}]>>]]
               /\ \A D \in Small(n) : g[D] \in Good[D]
           P == {n \in Nat : \E g : Solves(g, n)}
<1>1. \A s \in SUBSET S : IsFiniteSet(s) /\ Cardinality(s) \in Nat /\ (Cardinality(s) = 0 <=> s = {})
  BY FS_Subset, FS_CardinalityType, FS_EmptySet
<1>2. 0 \in P
  <2>1. Small(0) = {{}}
    BY <1>1
  <2> DEFINE g == [s \in Small(0) |-> b]
  <2>2. Solves(g, 0)
    BY <2>1
  <2> QED
    BY <2>2
<1>3. ASSUME NEW n \in Nat, n \in P PROVE n + 1 \in P
  <2>1. PICK g : Solves(g, n)
    BY <1>3
  <2> DEFINE h == [s \in Small(n + 1) |-> IF s \in Small(n) THEN g[s]
                                           ELSE G[<<Pick(s), g[s \ {Pick(s)}]>>]]
  <2>2. \A s \in Small(n) : s \in Small(n + 1)
    BY <1>1
  <2>3. ASSUME NEW s \in Small(n + 1), s # {}
        PROVE  Pick(s) \in s /\ s \ {Pick(s)} \in Small(n) /\ s \ {Pick(s)} \in SUBSET S
    <3>1. Pick(s) \in s
      BY <2>3 DEF Pick
    <3>2. Cardinality(s \ {Pick(s)}) = Cardinality(s) - 1
      BY <1>1, <3>1, FS_RemoveElement
    <3> QED
      BY <1>1, <3>1, <3>2
  <2>4. {} \in Small(n)
    BY <1>1
  <2>5. \A s \in Small(n) : h[s] = g[s]
    BY <2>2
  <2>6. ASSUME NEW s \in Small(n + 1)
        PROVE  /\ h[s] = IF s = {} THEN b ELSE G[<<Pick(s), h[s \ {Pick(s)}]>>]
               /\ h[s] \in Good[s]
    <3>1. CASE s \in Small(n)
      <4>1. h[s] = g[s] /\ h[s] \in Good[s]
        BY <2>1, <2>5, <3>1
      <4>2. g[s] = IF s = {} THEN b ELSE G[<<Pick(s), g[s \ {Pick(s)}]>>]
        BY <2>1, <3>1
      <4>3. s # {} => h[s \ {Pick(s)}] = g[s \ {Pick(s)}]
        BY <2>3, <2>5
      <4> HIDE DEF h
      <4> QED
        BY <4>1, <4>2, <4>3
    <3>2. CASE s \notin Small(n)
      <4>1. s # {}
        BY <2>4, <3>2
      <4>2. h[s] = G[<<Pick(s), g[s \ {Pick(s)}]>>]
        BY <3>2
      <4>3. g[s \ {Pick(s)}] \in Good[s \ {Pick(s)}]
        BY <2>1, <2>3, <4>1
      <4>4. h[s] \in Good[s]
        BY <2>3, <4>1, <4>2, <4>3
      <4> QED
        BY <2>3, <2>5, <4>1, <4>2, <4>4
    <3> QED
      BY <3>1, <3>2
  <2>7. h = [s \in Small(n + 1) |-> h[s]]
    OBVIOUS
  <2> HIDE DEF h
  <2>8. Solves(h, n + 1)
    BY <2>6, <2>7
  <2> HIDE DEF Solves
  <2>9. \E f : Solves(f, n + 1)
    BY <2>8
  <2> QED
    BY <2>9
<1> HIDE DEF P
<1>4. Cardinality(S) \in P
  BY <1>1, <1>2, <1>3, Upward
<1>5. PICK g : Solves(g, Cardinality(S))
  BY <1>4 DEF P
<1>6. Small(Cardinality(S)) = SUBSET S
  BY <1>1, FS_Subset
<1> QED
  BY <1>5, <1>6 DEF Solution

\* What each turn of the walk over the edges carries on holds at its end.
LEMMA AddLinkFold ==
    ASSUME NEW S, IsFiniteSet(S), NEW b, NEW Good,
           b \in Good[{}],
           \A D \in SUBSET S : \A e \in D : \A x \in Good[D \ {e}] : tc_addLink(e, x) \in Good[D]
    PROVE  FoldSet(tc_addLink, b, S) \in Good[S]
<1> DEFINE X == UNION {Good[D] : D \in SUBSET S}
           G == [p \in S \X X |-> tc_addLink(p[1], p[2])]
           F == CHOOSE f : f = [s \in SUBSET S |->
                    IF s = {} THEN b ELSE tc_addLink(Pick(s), f[s \ {Pick(s)}])]
<1>1. FoldSet(tc_addLink, b, S) = F[S]
  BY DEF FoldSet, MapThenFoldSet, Pick
<1>2. \A D \in SUBSET S : \A e \in D : \A x \in Good[D \ {e}] :
          G[<<e, x>>] = tc_addLink(e, x)
  OBVIOUS
<1> HIDE DEF G
<1>10. \A D \in SUBSET S : \A e \in D : \A x \in Good[D \ {e}] : G[<<e, x>>] \in Good[D]
  BY <1>2
<1>3. PICK g : Solution(g, S, b, G, Good)
  BY <1>10, FoldSolution
<1>4. \A s \in SUBSET S : s # {} => Pick(s) \in s /\ s \ {Pick(s)} \in SUBSET S
  BY DEF Pick
<1>5. g = [s \in SUBSET S |-> IF s = {} THEN b ELSE tc_addLink(Pick(s), g[s \ {Pick(s)}])]
  <2>1. \A s \in SUBSET S : s # {} =>
            G[<<Pick(s), g[s \ {Pick(s)}]>>] = tc_addLink(Pick(s), g[s \ {Pick(s)}])
    BY <1>2, <1>3, <1>4 DEF Solution
  <2> QED
    BY <1>3, <2>1 DEF Solution
<1>6. F = [s \in SUBSET S |-> IF s = {} THEN b ELSE tc_addLink(Pick(s), F[s \ {Pick(s)}])]
  BY <1>5
<1> HIDE DEF F
<1> DEFINE Q == {D \in SUBSET S : F[D] \in Good[D]}
<1>7. {} \in Q
  BY <1>6
<1>8. ASSUME NEW T \in SUBSET S, T # {}, \A e \in T : T \ {e} \in Q
      PROVE  T \in Q
  <2>1. Pick(T) \in T /\ F[T] = tc_addLink(Pick(T), F[T \ {Pick(T)}])
    BY <1>4, <1>6, <1>8
  <2>2. F[T \ {Pick(T)}] \in Good[T \ {Pick(T)}]
    BY <1>8, <2>1
  <2> QED
    BY <2>1, <2>2
<1> HIDE DEF Q
<1>9. SUBSET S \subseteq Q
  BY <1>7, <1>8, SubsetInduction
<1> QED
  BY <1>1, <1>9 DEF Q

\* The same for the walk over the nodes of the plugin's table.
LEMMA RemoveUselessFold ==
    ASSUME NEW S, IsFiniteSet(S), NEW b, NEW Good,
           b \in Good[{}],
           \A D \in SUBSET S : \A e \in D : \A x \in Good[D \ {e}] : RemoveUseless(e, x) \in Good[D]
    PROVE  FoldSet(RemoveUseless, b, S) \in Good[S]
<1> DEFINE X == UNION {Good[D] : D \in SUBSET S}
           G == [p \in S \X X |-> RemoveUseless(p[1], p[2])]
           F == CHOOSE f : f = [s \in SUBSET S |->
                    IF s = {} THEN b ELSE RemoveUseless(Pick(s), f[s \ {Pick(s)}])]
<1>1. FoldSet(RemoveUseless, b, S) = F[S]
  BY DEF FoldSet, MapThenFoldSet, Pick
<1>2. \A D \in SUBSET S : \A e \in D : \A x \in Good[D \ {e}] :
          G[<<e, x>>] = RemoveUseless(e, x)
  OBVIOUS
<1> HIDE DEF G
<1>10. \A D \in SUBSET S : \A e \in D : \A x \in Good[D \ {e}] : G[<<e, x>>] \in Good[D]
  BY <1>2
<1>3. PICK g : Solution(g, S, b, G, Good)
  BY <1>10, FoldSolution
<1>4. \A s \in SUBSET S : s # {} => Pick(s) \in s /\ s \ {Pick(s)} \in SUBSET S
  BY DEF Pick
<1>5. g = [s \in SUBSET S |-> IF s = {} THEN b ELSE RemoveUseless(Pick(s), g[s \ {Pick(s)}])]
  <2>1. \A s \in SUBSET S : s # {} =>
            G[<<Pick(s), g[s \ {Pick(s)}]>>] = RemoveUseless(Pick(s), g[s \ {Pick(s)}])
    BY <1>2, <1>3, <1>4 DEF Solution
  <2> QED
    BY <1>3, <2>1 DEF Solution
<1>6. F = [s \in SUBSET S |-> IF s = {} THEN b ELSE RemoveUseless(Pick(s), F[s \ {Pick(s)}])]
  BY <1>5
<1> HIDE DEF F
<1> DEFINE Q == {D \in SUBSET S : F[D] \in Good[D]}
<1>7. {} \in Q
  BY <1>6
<1>8. ASSUME NEW T \in SUBSET S, T # {}, \A e \in T : T \ {e} \in Q
      PROVE  T \in Q
  <2>1. Pick(T) \in T /\ F[T] = RemoveUseless(Pick(T), F[T \ {Pick(T)}])
    BY <1>4, <1>6, <1>8
  <2>2. F[T \ {Pick(T)}] \in Good[T \ {Pick(T)}]
    BY <1>8, <2>1
  <2> QED
    BY <2>1, <2>2
<1> HIDE DEF Q
<1>9. SUBSET S \subseteq Q
  BY <1>7, <1>8, SubsetInduction
<1> QED
  BY <1>1, <1>9 DEF Q

\* A set as a sequence has each of its members, and no other.
LEMMA Enumerated ==
    ASSUME NEW S, IsFiniteSet(S), NEW q, q = SetToSeq(S)
    PROVE  /\ q \in Seq(S) /\ DOMAIN q = 1 .. Len(q) /\ Len(q) = Cardinality(S)
           /\ \A i \in DOMAIN q : q[i] \in S
           /\ \A i, j \in DOMAIN q : q[i] = q[j] => i = j
           /\ \A e \in S : \E i \in DOMAIN q : q[i] = e
<1> DEFINE n == Cardinality(S)
<1>1. n \in Nat /\ ExistsBijection(1 .. n, S)
  BY FS_CardinalityType
<1>2. q \in [1 .. n -> S] /\ IsInjective(q)
  BY <1>1 DEF SetToSeq, ExistsBijection, Bijection, Injection
<1>3. q \in Injection(1 .. n, S)
  BY <1>2 DEF Injection
<1>4. Cardinality(1 .. n) = n
  BY <1>1, FS_Interval
<1>5. q \in Surjection(1 .. n, S)
  BY <1>3, <1>4, FS_Injection
<1> HIDE DEF n
<1>6. q \in Seq(S) /\ DOMAIN q = 1 .. n /\ Len(q) = n
  BY <1>1, <1>2
<1>7. \A e \in S : \E i \in DOMAIN q : q[i] = e
  BY <1>5, <1>6 DEF Surjection
<1>8. \A i, j \in DOMAIN q : q[i] = q[j] => i = j
  BY <1>2 DEF IsInjective
<1> QED
  BY <1>2, <1>6, <1>7, <1>8 DEF n

-----------------------------------------------------------------------------
(* The router, as far as nodes and links go: what it holds after a command *)
(* and whether the command applies.                                        *)

TopoType == {"ADD_NODE", "REMOVE_NODE", "ADD_LINK", "REMOVE_LINK", "ADD_ALIAS", "REMOVE_ALIAS"}
LinkType == {"ADD_LINK", "REMOVE_LINK"}
AliasType == {"ADD_ALIAS", "REMOVE_ALIAS"}
LocalType == {"SET_LOCAL_ADDR", "SET_ALIAS_ADDR"}

Command == [type : TopoType \cup LocalType \cup {"RESET_TC"},
            addr_1 : Addr \cup {NoAddr}, addr_2 : Addr \cup {NoAddr}]

TopoCommand ==
    {c \in Command : /\ c.type \in TopoType /\ c.addr_1 \in Node
                     /\ c.type \in LinkType => c.addr_2 \in Node
                     /\ c.type \in AliasType => c.addr_2 \in Alias}

Views == [nodes : SUBSET Node, links : SUBSET (Node \X Node)]

After(v, c) ==
    [nodes |-> CASE c.type = "RESET_TC"    -> {}
                 [] c.type = "ADD_NODE"    -> v.nodes \cup {c.addr_1}
                 [] c.type = "REMOVE_NODE" -> v.nodes \ {c.addr_1}
                 [] OTHER                  -> v.nodes,
     links |-> CASE c.type = "RESET_TC"    -> {}
                 [] c.type = "REMOVE_NODE" -> {e \in v.links : e[1] # c.addr_1 /\ e[2] # c.addr_1}
                 [] c.type = "ADD_LINK"    -> v.links \cup {<<c.addr_1, c.addr_2>>}
                 [] c.type = "REMOVE_LINK" -> v.links \ {<<c.addr_1, c.addr_2>>}
                 [] OTHER                  -> v.links]

Fine(v, c) ==
    /\ c.type = "REMOVE_NODE" => c.addr_1 \in v.nodes
    /\ c.type = "ADD_LINK" => /\ c.addr_1 \in v.nodes /\ c.addr_2 \in v.nodes
                              /\ <<c.addr_1, c.addr_2>> \notin v.links

\* the commands cs, each of which applies, lead from v to w
Run(h, v, cs, w) ==
    /\ h \in [0 .. Len(cs) -> Views]
    /\ h[0] = v /\ h[Len(cs)] = w
    /\ \A i \in 1 .. Len(cs) : Fine(h[i - 1], cs[i]) /\ h[i] = After(h[i - 1], cs[i])

Leads(v, cs, w) == cs \in Seq(Command) /\ \E h : Run(h, v, cs, w)

LEMMA LeadsEmpty ==
    ASSUME NEW v \in Views
    PROVE  Leads(v, <<>>, v)
<1>1. Run([i \in {0} |-> v], v, <<>>, v)
  BY DEF Run
<1> QED
  BY <1>1 DEF Leads

LEMMA LeadsNowhere ==
    ASSUME NEW v, NEW w, Leads(v, <<>>, w)
    PROVE  v = w
BY DEF Leads, Run

LEMMA LeadsOn ==
    ASSUME NEW v, NEW cs, NEW w, Leads(v, cs, w),
           NEW c \in Command, Fine(w, c), NEW z \in Views, z = After(w, c)
    PROVE  Leads(v, Append(cs, c), z)
<1> DEFINE n == Len(cs)
           ds == Append(cs, c)
<1>1. PICK h : Run(h, v, cs, w)
  BY DEF Leads
<1>2. cs \in Seq(Command) /\ n \in Nat
  BY DEF Leads
<1>3. /\ ds \in Seq(Command) /\ Len(ds) = n + 1
      /\ \A i \in 1 .. n : ds[i] = cs[i]
      /\ ds[n + 1] = c
  BY <1>2
<1> DEFINE g == [i \in 0 .. n + 1 |-> IF i = n + 1 THEN z ELSE h[i]]
<1>4. \A i \in 0 .. n : g[i] = h[i]
  BY <1>2
<1>5. g \in [0 .. n + 1 -> Views] /\ g[n + 1] = z /\ g[0] = v
  BY <1>1, <1>2 DEF Run
<1> HIDE DEF g, ds
<1>6. ASSUME NEW i \in 1 .. n + 1
      PROVE  Fine(g[i - 1], ds[i]) /\ g[i] = After(g[i - 1], ds[i])
  <2>1. CASE i = n + 1
    <3>1. i - 1 = n /\ g[n] = w
      BY <1>1, <1>2, <1>4, <2>1 DEF Run
    <3> QED
      BY <1>3, <1>5, <2>1, <3>1
  <2>2. CASE i # n + 1
    <3>1. i \in 1 .. n /\ i - 1 \in 0 .. n /\ i \in 0 .. n
      BY <1>2, <2>2
    <3> QED
      BY <1>1, <1>3, <1>4, <3>1 DEF Run
  <2> QED
    BY <2>1, <2>2
<1>7. Run(g, v, ds, z)
  BY <1>3, <1>5, <1>6 DEF Run
<1> QED
  BY <1>3, <1>7 DEF Leads, ds

LEMMA LeadsThrough ==
    ASSUME NEW v, NEW cs, NEW w, Leads(v, cs, w), NEW ds, NEW z, Leads(w, ds, z)
    PROVE  Leads(v, cs \o ds, z)
<1> DEFINE n == Len(cs)
           k == Len(ds)
           es == cs \o ds
<1>1. PICK h : Run(h, v, cs, w)
  BY DEF Leads
<1>2. PICK f : Run(f, w, ds, z)
  BY DEF Leads
<1>3. cs \in Seq(Command) /\ ds \in Seq(Command) /\ n \in Nat /\ k \in Nat
  BY DEF Leads
<1>4. /\ es \in Seq(Command) /\ Len(es) = n + k
      /\ \A i \in 1 .. n + k : es[i] = IF i <= n THEN cs[i] ELSE ds[i - n]
  BY <1>3
<1> DEFINE g == [i \in 0 .. n + k |-> IF i <= n THEN h[i] ELSE f[i - n]]
<1>5. /\ h \in [0 .. n -> Views] /\ h[0] = v /\ h[n] = w
      /\ \A i \in 1 .. n : Fine(h[i - 1], cs[i]) /\ h[i] = After(h[i - 1], cs[i])
  BY <1>1 DEF Run
<1>6. /\ f \in [0 .. k -> Views] /\ f[0] = w /\ f[k] = z
      /\ \A i \in 1 .. k : Fine(f[i - 1], ds[i]) /\ f[i] = After(f[i - 1], ds[i])
  BY <1>2 DEF Run
<1>7. \A i \in 0 .. n : g[i] = h[i]
  BY <1>3
<1>8. \A i \in 0 .. k : n + i \in 0 .. n + k /\ g[n + i] = f[i]
  <2> SUFFICES ASSUME NEW i \in 0 .. k PROVE n + i \in 0 .. n + k /\ g[n + i] = f[i]
    OBVIOUS
  <2>1. CASE i = 0
    BY <1>3, <1>5, <1>6, <2>1
  <2>2. CASE i # 0
    BY <1>3, <2>2
  <2> QED
    BY <2>1, <2>2
<1>9. g \in [0 .. n + k -> Views] /\ g[0] = v /\ g[n + k] = z
  <2>1. \A i \in 0 .. n + k : i <= n => i \in 0 .. n
    BY <1>3
  <2>2. \A i \in 0 .. n + k : ~(i <= n) => i - n \in 0 .. k
    BY <1>3
  <2>3. 0 \in 0 .. n /\ k \in 0 .. k
    BY <1>3
  <2> QED
    BY <1>5, <1>6, <1>7, <1>8, <2>1, <2>2, <2>3
<1> HIDE DEF g, es
<1>10. ASSUME NEW i \in 1 .. n + k
       PROVE  Fine(g[i - 1], es[i]) /\ g[i] = After(g[i - 1], es[i])
  <2>1. CASE i <= n
    <3>1. i \in 1 .. n /\ i - 1 \in 0 .. n /\ i \in 0 .. n
      BY <1>3, <2>1
    <3> QED
      BY <1>4, <1>5, <1>7, <2>1, <3>1
  <2>2. CASE ~(i <= n)
    <3> DEFINE j == i - n
    <3>1. j \in 1 .. k /\ j - 1 \in 0 .. k /\ j \in 0 .. k /\ n + j = i /\ n + (j - 1) = i - 1
      BY <1>3, <2>2
    <3>2. es[i] = ds[j]
      BY <1>4, <2>2
    <3> HIDE DEF j
    <3>3. g[i] = f[j] /\ g[i - 1] = f[j - 1]
      BY <1>8, <3>1
    <3> QED
      BY <1>6, <3>1, <3>2, <3>3
  <2> QED
    BY <2>1, <2>2
<1>11. Run(g, v, es, z)
  BY <1>4, <1>9, <1>10 DEF Run
<1> QED
  BY <1>4, <1>11 DEF Leads, es

LEMMA LeadsFirst ==
    ASSUME NEW v, NEW cs, NEW w, Leads(v, cs, w), cs # <<>>
    PROVE  Fine(v, Head(cs)) /\ Leads(After(v, Head(cs)), Tail(cs), w)
<1> DEFINE n == Len(cs)
           ds == Tail(cs)
<1>1. PICK h : Run(h, v, cs, w)
  BY DEF Leads
<1>2. cs \in Seq(Command) /\ n \in Nat \ {0}
  BY DEF Leads
<1>3. /\ ds \in Seq(Command) /\ Len(ds) = n - 1 /\ Head(cs) = cs[1]
      /\ \A i \in 1 .. n - 1 : ds[i] = cs[i + 1]
  BY <1>2
<1>4. /\ h \in [0 .. n -> Views] /\ h[0] = v /\ h[n] = w
      /\ \A i \in 1 .. n : Fine(h[i - 1], cs[i]) /\ h[i] = After(h[i - 1], cs[i])
  BY <1>1 DEF Run
<1>5. Fine(v, cs[1]) /\ h[1] = After(v, cs[1])
  BY <1>2, <1>4
<1> DEFINE f == [i \in 0 .. n - 1 |-> h[i + 1]]
<1>6. \A i \in 0 .. n - 1 : i + 1 \in 0 .. n /\ f[i] = h[i + 1]
  BY <1>2
<1>7. f \in [0 .. n - 1 -> Views] /\ f[0] = h[1] /\ f[n - 1] = w
  BY <1>2, <1>4, <1>6
<1> HIDE DEF f, ds
<1>8. ASSUME NEW i \in 1 .. n - 1
      PROVE  Fine(f[i - 1], ds[i]) /\ f[i] = After(f[i - 1], ds[i])
  <2>1. i + 1 \in 1 .. n /\ i - 1 \in 0 .. n - 1 /\ i \in 0 .. n - 1 /\ (i - 1) + 1 = i /\ (i + 1) - 1 = i
    BY <1>2
  <2>2. f[i - 1] = h[i] /\ f[i] = h[i + 1]
    BY <1>6, <2>1
  <2> QED
    BY <1>3, <1>4, <2>1, <2>2
<1>9. Run(f, After(v, cs[1]), ds, w)
  BY <1>3, <1>5, <1>7, <1>8 DEF Run
<1> QED
  BY <1>3, <1>5, <1>9 DEF Leads, ds

\* the commands AppendAll adds
Block(type, S) == LET q == SetToSeq(S) IN [i \in DOMAIN q |-> Cmd(type, q[i][1], q[i][2])]

LEMMA AppendBlock == \A type, S, cmds : AppendAll(type, S, cmds) = cmds \o Block(type, S)
BY DEF AppendAll, Block

LEMMA BlockFields ==
    ASSUME NEW S \in SUBSET (Addr \X (Addr \cup {NoAddr})), IsFiniteSet(S),
           NEW type \in TopoType \cup LocalType,
           NEW q, q = SetToSeq(S), NEW b, b = Block(type, S)
    PROVE  /\ b \in Seq(Command) /\ Len(b) = Len(q) /\ Len(q) \in Nat
           /\ \A i \in 1 .. Len(q) : /\ q[i] \in S
                                     /\ b[i] = Cmd(type, q[i][1], q[i][2])
                                     /\ b[i] \in Command
                                     /\ b[i].type = type
                                     /\ b[i].addr_1 = q[i][1] /\ b[i].addr_2 = q[i][2]
<1>1. q \in Seq(S) /\ DOMAIN q = 1 .. Len(q) /\ Len(q) \in Nat /\ \A i \in DOMAIN q : q[i] \in S
  BY Enumerated
<1>2. b = [i \in 1 .. Len(q) |-> Cmd(type, q[i][1], q[i][2])]
  BY <1>1 DEF Block
<1>3. ASSUME NEW i \in 1 .. Len(q)
      PROVE  /\ q[i] \in S
             /\ b[i] = Cmd(type, q[i][1], q[i][2])
             /\ b[i] \in Command
             /\ b[i].type = type
             /\ b[i].addr_1 = q[i][1] /\ b[i].addr_2 = q[i][2]
  <2>1. q[i] \in S
    BY <1>1
  <2>2. b[i] = Cmd(type, q[i][1], q[i][2])
    BY <1>2
  <2>3. q[i][1] \in Addr /\ q[i][2] \in Addr \cup {NoAddr}
    BY <2>1
  <2> QED
    BY <2>1, <2>2, <2>3 DEF Cmd, Command
<1>4. b \in Seq(Command) /\ Len(b) = Len(q)
  BY <1>1, <1>2, <1>3
<1> QED
  BY <1>1, <1>3, <1>4

\* Commands that do not touch nodes and links.
LEMMA IdleBlock ==
    ASSUME NEW S \in SUBSET (Addr \X (Addr \cup {NoAddr})), IsFiniteSet(S),
           NEW type \in AliasType \cup LocalType, NEW v \in Views
    PROVE  Leads(v, Block(type, S), v)
<1> DEFINE b == Block(type, S)
           q == SetToSeq(S)
           h == [i \in 0 .. Len(b) |-> v]
<1>1. type \in TopoType \cup LocalType
  BY DEF TopoType, AliasType
<1>2. b \in Seq(Command) /\ Len(b) \in Nat /\ \A i \in 1 .. Len(b) : b[i].type = type
  BY <1>1, BlockFields
<1> HIDE DEF b
<1>3. \A i \in 1 .. Len(b) : Fine(v, b[i]) /\ After(v, b[i]) = v
  <2> SUFFICES ASSUME NEW i \in 1 .. Len(b) PROVE Fine(v, b[i]) /\ After(v, b[i]) = v
    OBVIOUS
  <2>1. b[i].type \in {"ADD_ALIAS", "REMOVE_ALIAS", "SET_LOCAL_ADDR", "SET_ALIAS_ADDR"}
    BY <1>2 DEF AliasType, LocalType
  <2> QED
    BY <2>1 DEF Fine, After, Views
<1>4. \A i \in 0 .. Len(b) : h[i] = v
  OBVIOUS
<1>5. h \in [0 .. Len(b) -> Views] /\ 0 \in 0 .. Len(b) /\ Len(b) \in 0 .. Len(b)
      /\ \A i \in 1 .. Len(b) : i \in 0 .. Len(b) /\ i - 1 \in 0 .. Len(b)
  BY <1>2
<1> HIDE DEF h
<1>6. Run(h, v, b, v)
  BY <1>3, <1>4, <1>5 DEF Run
<1> QED
  BY <1>2, <1>6 DEF Leads, b

\* Links are taken back, one after the other.
LEMMA RemoveRun ==
    ASSUME NEW n \in Nat, NEW q \in [1 .. n -> Node \X Node],
           NEW b \in Seq(Command), Len(b) = n,
           \A i \in 1 .. n : /\ b[i].type = "REMOVE_LINK"
                             /\ b[i].addr_1 = q[i][1] /\ b[i].addr_2 = q[i][2],
           NEW v \in Views,
           NEW w, w = [nodes |-> v.nodes, links |-> {e \in v.links : \A j \in 1 .. n : q[j] # e}]
    PROVE  Leads(v, b, w)
<1> DEFINE L(i) == {e \in v.links : \A j \in 1 .. i : q[j] # e}
           h == [i \in 0 .. n |-> [nodes |-> v.nodes, links |-> L(i)]]
<1>1. v.nodes \in SUBSET Node /\ v.links \in SUBSET (Node \X Node)
      /\ v = [nodes |-> v.nodes, links |-> v.links]
  BY DEF Views
<1>2. \A i \in 0 .. n : h[i] = [nodes |-> v.nodes, links |-> L(i)]
  OBVIOUS
<1>3. h \in [0 .. n -> Views]
  BY <1>1 DEF Views
<1>4. L(0) = v.links
  OBVIOUS
<1>5. 0 \in 0 .. n /\ n \in 0 .. n
  OBVIOUS
<1>6. ASSUME NEW i \in 1 .. n PROVE L(i) = L(i - 1) \ {q[i]}
  <2>1. \A j : j \in 1 .. i <=> (j \in 1 .. i - 1 \/ j = i)
    OBVIOUS
  <2> QED
    BY <2>1
<1>7. h[0] = v /\ h[n] = w
  BY <1>1, <1>2, <1>4, <1>5
<1> HIDE DEF h, L
<1>8. ASSUME NEW i \in 1 .. n
      PROVE  Fine(h[i - 1], b[i]) /\ h[i] = After(h[i - 1], b[i])
  <2>1. i \in 0 .. n /\ i - 1 \in 0 .. n
    OBVIOUS
  <2>2. <<b[i].addr_1, b[i].addr_2>> = q[i]
    OBVIOUS
  <2>3. h[i - 1] = [nodes |-> v.nodes, links |-> L(i - 1)]
        /\ h[i] = [nodes |-> v.nodes, links |-> L(i) ]
    BY <1>2, <2>1
  <2>4. Fine(h[i - 1], b[i])
    BY DEF Fine
  <2>5. After(h[i - 1], b[i]) = [nodes |-> h[i - 1].nodes, links |-> h[i - 1].links \ {q[i]}]
    BY <2>2 DEF After
  <2>6. h[i - 1].nodes = v.nodes /\ h[i - 1].links = L(i - 1)
    BY <2>3
  <2>7. L(i) = L(i - 1) \ {q[i]}
    BY <1>6
  <2>8. After(h[i - 1], b[i]) = [nodes |-> v.nodes, links |-> L(i)]
    BY <2>5, <2>6, <2>7
  <2> QED
    BY <2>3, <2>4, <2>8
<1>9. Run(h, v, b, w)
  BY <1>3, <1>7, <1>8 DEF Run
<1> QED
  BY <1>9 DEF Leads

LEMMA RemoveBlock ==
    ASSUME NEW S \in SUBSET (Node \X Node), IsFiniteSet(S), NEW v \in Views,
           NEW w, w = [nodes |-> v.nodes, links |-> v.links \ S]
    PROVE  Leads(v, Block("REMOVE_LINK", S), w)
<1> DEFINE b == Block("REMOVE_LINK", S)
           q == SetToSeq(S)
           n == Len(q)
<1>1. S \in SUBSET (Addr \X (Addr \cup {NoAddr}))
  BY DEF Addr
<1>2. /\ b \in Seq(Command) /\ Len(b) = n /\ n \in Nat
      /\ \A i \in 1 .. n : /\ q[i] \in S /\ b[i].type = "REMOVE_LINK"
                           /\ b[i].addr_1 = q[i][1] /\ b[i].addr_2 = q[i][2]
  BY <1>1, BlockFields DEF TopoType
<1>3. q \in Seq(S) /\ DOMAIN q = 1 .. n /\ \A e \in S : \E i \in DOMAIN q : q[i] = e
  BY Enumerated
<1> HIDE DEF b, q
<1>4. q \in [1 .. n -> Node \X Node]
  BY <1>2, <1>3
<1>5. v.links \ S = {e \in v.links : \A j \in 1 .. n : q[j] # e}
  BY <1>2, <1>3
<1> HIDE DEF n
<1>6. w = [nodes |-> v.nodes, links |-> {e \in v.links : \A j \in 1 .. n : q[j] # e}]
  BY <1>5
<1>7. \A i \in 1 .. n : /\ b[i].type = "REMOVE_LINK"
                        /\ b[i].addr_1 = q[i][1] /\ b[i].addr_2 = q[i][2]
  BY <1>2
<1>8. b \in Seq(Command) /\ Len(b) = n /\ n \in Nat
  BY <1>2
<1>9. Leads(v, b, w)
  BY <1>4, <1>6, <1>7, <1>8, RemoveRun
<1> QED
  BY <1>9 DEF b

\* Nodes are announced, one after the other.
LEMMA NodeRun ==
    ASSUME NEW n \in Nat, NEW q \in [1 .. n -> Node \X {NoAddr}],
           NEW b \in Seq(Command), Len(b) = n,
           \A i \in 1 .. n : b[i].type = "ADD_NODE" /\ b[i].addr_1 = q[i][1],
           NEW v \in Views,
           NEW w, w = [nodes |-> v.nodes \cup {x \in Node : \E j \in 1 .. n : q[j][1] = x},
                       links |-> v.links]
    PROVE  Leads(v, b, w)
<1> DEFINE L(i) == v.nodes \cup {x \in Node : \E j \in 1 .. i : q[j][1] = x}
           h == [i \in 0 .. n |-> [nodes |-> L(i), links |-> v.links]]
<1>1. v.nodes \in SUBSET Node /\ v.links \in SUBSET (Node \X Node)
      /\ v = [nodes |-> v.nodes, links |-> v.links]
  BY DEF Views
<1>2. \A i \in 0 .. n : h[i] = [nodes |-> L(i), links |-> v.links]
  OBVIOUS
<1>3. h \in [0 .. n -> Views]
  BY <1>1 DEF Views
<1>4. L(0) = v.nodes
  OBVIOUS
<1>5. 0 \in 0 .. n /\ n \in 0 .. n
  OBVIOUS
<1>6. ASSUME NEW i \in 1 .. n PROVE L(i) = L(i - 1) \cup {q[i][1]}
  <2>1. \A j : j \in 1 .. i <=> (j \in 1 .. i - 1 \/ j = i)
    OBVIOUS
  <2>2. q[i][1] \in Node
    OBVIOUS
  <2> QED
    BY <2>1, <2>2
<1>7. h[0] = v /\ h[n] = w
  BY <1>1, <1>2, <1>4, <1>5
<1> HIDE DEF h, L
<1>8. ASSUME NEW i \in 1 .. n
      PROVE  Fine(h[i - 1], b[i]) /\ h[i] = After(h[i - 1], b[i])
  <2>1. i \in 0 .. n /\ i - 1 \in 0 .. n
    OBVIOUS
  <2>3. h[i - 1] = [nodes |-> L(i - 1), links |-> v.links]
        /\ h[i] = [nodes |-> L(i), links |-> v.links]
    BY <1>2, <2>1
  <2>4. Fine(h[i - 1], b[i])
    BY DEF Fine
  <2>5. After(h[i - 1], b[i]) = [nodes |-> h[i - 1].nodes \cup {q[i][1]}, links |-> h[i - 1].links]
    BY DEF After
  <2>6. h[i - 1].nodes = L(i - 1) /\ h[i - 1].links = v.links
    BY <2>3
  <2>7. L(i) = L(i - 1) \cup {q[i][1]}
    BY <1>6
  <2>8. After(h[i - 1], b[i]) = [nodes |-> L(i), links |-> v.links]
    BY <2>5, <2>6, <2>7
  <2> QED
    BY <2>3, <2>4, <2>8
<1>9. Run(h, v, b, w)
  BY <1>3, <1>7, <1>8 DEF Run
<1> QED
  BY <1>9 DEF Leads

LEMMA NodeBlock ==
    ASSUME NEW T \in SUBSET (Node \X {NoAddr}), IsFiniteSet(T), NEW v \in Views,
           NEW w, w = [nodes |-> v.nodes \cup {x \in Node : <<x, NoAddr>> \in T},
                       links |-> v.links]
    PROVE  Leads(v, Block("ADD_NODE", T), w)
<1> DEFINE b == Block("ADD_NODE", T)
           q == SetToSeq(T)
           n == Len(q)
<1>1. T \in SUBSET (Addr \X (Addr \cup {NoAddr}))
  BY DEF Addr
<1>2. /\ b \in Seq(Command) /\ Len(b) = n /\ n \in Nat
      /\ \A i \in 1 .. n : /\ q[i] \in T /\ b[i].type = "ADD_NODE"
                           /\ b[i].addr_1 = q[i][1]
  BY <1>1, BlockFields DEF TopoType
<1>3. q \in Seq(T) /\ DOMAIN q = 1 .. n /\ \A e \in T : \E i \in DOMAIN q : q[i] = e
  BY Enumerated
<1> HIDE DEF b, q
<1>4. q \in [1 .. n -> Node \X {NoAddr}]
  BY <1>2, <1>3
<1>5. \A x \in Node : <<x, NoAddr>> \in T <=> \E j \in 1 .. n : q[j][1] = x
  <2>1. \A x \in Node : <<x, NoAddr>> \in T => \E j \in 1 .. n : q[j] = <<x, NoAddr>>
    BY <1>3
  <2>2. \A j \in 1 .. n : q[j] = <<q[j][1], NoAddr>> /\ q[j] \in T
    BY <1>2, <1>4
  <2>3. \A x \in Node : <<x, NoAddr>> \in T => \E j \in 1 .. n : q[j][1] = x
    <3> SUFFICES ASSUME NEW x \in Node, <<x, NoAddr>> \in T PROVE \E j \in 1 .. n : q[j][1] = x
      OBVIOUS
    <3>1. PICK j \in 1 .. n : q[j] = <<x, NoAddr>>
      BY <2>1
    <3> QED
      BY <3>1
  <2> QED
    BY <2>2, <2>3
<1> HIDE DEF n
<1>6. w = [nodes |-> v.nodes \cup {x \in Node : \E j \in 1 .. n : q[j][1] = x},
           links |-> v.links]
  BY <1>5
<1>7. \A i \in 1 .. n : b[i].type = "ADD_NODE" /\ b[i].addr_1 = q[i][1]
  BY <1>2
<1>8. b \in Seq(Command) /\ Len(b) = n /\ n \in Nat
  BY <1>2
<1>9. Leads(v, b, w)
  BY <1>4, <1>6, <1>7, <1>8, NodeRun
<1> QED
  BY <1>9 DEF b

-----------------------------------------------------------------------------
(* The plugin's tables *)

\* what tc_check_data and the functions it calls work on
Plugin == [tab : [Buckets -> Seq(Node)], freed : SUBSET Node,
           links : SUBSET (Node \X Node), mids : SUBSET (Node \X Alias),
           actNodes : SUBSET Node, actLinks : SUBSET (Node \X Node),
           cmds : Seq(TopoCommand)]

\* each node is in its own bucket, and there once
TabOK(t) == \A b \in Buckets : \A i, j \in DOMAIN t[b] :
               Bucket[t[b][i]] = b /\ (t[b][i] = t[b][j] => i = j)

LEMMA BucketType == \A n \in Node : Bucket[n] \in Buckets
BY DEF Buckets

LEMMA TopoCmd ==
    /\ TopoCommand \subseteq Command
    /\ \A n \in Node : /\ Cmd("ADD_NODE", n, NoAddr) \in TopoCommand
                       /\ Cmd("REMOVE_NODE", n, NoAddr) \in TopoCommand
    /\ \A e \in Node \X Node : /\ Cmd("ADD_LINK", e[1], e[2]) \in TopoCommand
                               /\ Cmd("REMOVE_LINK", e[1], e[2]) \in TopoCommand
BY DEF TopoCommand, Command, Cmd, TopoType, LinkType, AliasType, Addr

LEMMA TopoSeq == Seq(TopoCommand) \subseteq Seq(Command)
BY TopoCmd

\* A new node comes to the front of its bucket.
LEMMA PushNode ==
    ASSUME NEW t \in [Buckets -> Seq(Node)], TabOK(t), NEW n \in Node, n \notin InTab(t),
           NEW u, u = [t EXCEPT ![Bucket[n]] = <<n>> \o @]
    PROVE  u \in [Buckets -> Seq(Node)] /\ TabOK(u) /\ InTab(u) = InTab(t) \cup {n}
<1> DEFINE b == Bucket[n]
           q == t[b]
<1>1. b \in Buckets /\ q \in Seq(Node) /\ Len(q) \in Nat /\ DOMAIN q = 1 .. Len(q)
  BY BucketType
<1> DEFINE r == <<n>> \o q
<1>2. /\ r \in Seq(Node) /\ DOMAIN r = 1 .. Len(q) + 1 /\ r[1] = n
      /\ \A i \in 2 .. Len(q) + 1 : i - 1 \in DOMAIN q /\ r[i] = q[i - 1]
      /\ \A i \in DOMAIN q : i + 1 \in DOMAIN r /\ r[i + 1] = q[i]
  BY <1>1
<1>3. u \in [Buckets -> Seq(Node)] /\ u[b] = r /\ \A c \in Buckets \ {b} : u[c] = t[c]
  BY <1>1, <1>2
<1>4. \A i \in DOMAIN q : q[i] # n
  BY DEF InTab
<1>5. \A i, j \in DOMAIN q : Bucket[q[i]] = b /\ (q[i] = q[j] => i = j)
  BY <1>1 DEF TabOK
<1> HIDE DEF r, q
<1>6. \A i, j \in DOMAIN r : Bucket[r[i]] = b /\ (r[i] = r[j] => i = j)
  <2> SUFFICES ASSUME NEW i \in DOMAIN r, NEW j \in DOMAIN r
               PROVE  Bucket[r[i]] = b /\ (r[i] = r[j] => i = j)
    OBVIOUS
  <2>1. i \in Nat /\ j \in Nat
    BY <1>1, <1>2
  <2>2. i = 1 \/ i \in 2 .. Len(q) + 1
    BY <1>1, <1>2
  <2>3. j = 1 \/ j \in 2 .. Len(q) + 1
    BY <1>1, <1>2
  <2>4. i # 1 /\ j # 1 /\ i - 1 = j - 1 => i = j
    BY <2>1
  <2> QED
    BY <1>2, <1>4, <1>5, <2>2, <2>3, <2>4 DEF b
<1>7. TabOK(u)
  <2> SUFFICES ASSUME NEW c \in Buckets, NEW i \in DOMAIN u[c], NEW j \in DOMAIN u[c]
               PROVE  Bucket[u[c][i]] = c /\ (u[c][i] = u[c][j] => i = j)
    BY DEF TabOK
  <2>1. CASE c = b
    BY <1>3, <1>6, <2>1, SMTT(30)
  <2>2. CASE c # b
    BY <1>3, <2>2 DEF TabOK
  <2> QED
    BY <2>1, <2>2
<1>8. ASSUME NEW m \in Node PROVE m \in InTab(u) <=> m \in InTab(t) \/ m = n
  <2>1. Bucket[m] \in Buckets
    BY BucketType
  <2>2. CASE Bucket[m] # b
    BY <1>3, <2>1, <2>2 DEF InTab, b
  <2>3. CASE Bucket[m] = b
    <3>1. m \in InTab(t) <=> \E i \in DOMAIN q : q[i] = m
      BY <2>3 DEF InTab, q
    <3>2. m \in InTab(u) <=> \E i \in DOMAIN r : r[i] = m
      BY <1>3, <2>3 DEF InTab
    <3>3. (\E i \in DOMAIN r : r[i] = m) => m = n \/ \E i \in DOMAIN q : q[i] = m
      <4> SUFFICES ASSUME NEW i \in DOMAIN r, r[i] = m PROVE m = n \/ \E k \in DOMAIN q : q[k] = m
        OBVIOUS
      <4>1. i = 1 \/ i \in 2 .. Len(q) + 1
        BY <1>1, <1>2
      <4> QED
        BY <1>2, <4>1
    <3>4. 1 \in DOMAIN r
      BY <1>1, <1>2
    <3> QED
      BY <1>2, <3>1, <3>2, <3>3, <3>4
  <2> QED
    BY <2>2, <2>3
<1>9. InTab(u) \subseteq Node /\ InTab(t) \subseteq Node
  BY DEF InTab
<1> QED
  BY <1>3, <1>7, <1>8, <1>9

\* t is s with the node n, active and announced
Created(s, n, t) ==
    /\ t \in Plugin /\ TabOK(t.tab) /\ InTab(t.tab) = InTab(s.tab) \cup {n}
    /\ t.freed = s.freed /\ t.links = s.links /\ t.mids = s.mids
    /\ t.actNodes = s.actNodes \cup {n} /\ t.actLinks = s.actLinks
    /\ t.cmds = IF n \in InTab(s.tab) THEN s.cmds
                ELSE Append(s.cmds, Cmd("ADD_NODE", n, NoAddr))

LEMMA CreateNode ==
    ASSUME NEW s \in Plugin, TabOK(s.tab), NEW n \in Node, NEW t, t = tc_create_node(s, n)
    PROVE  Created(s, n, t)
<1>1. CASE n \in InTab(s.tab)
  <2>1. t = [s EXCEPT !.actNodes = @ \cup {n}]
    BY <1>1 DEF tc_create_node
  <2>2. /\ t.tab = s.tab /\ t.freed = s.freed /\ t.links = s.links /\ t.mids = s.mids
        /\ t.actNodes = s.actNodes \cup {n} /\ t.actLinks = s.actLinks /\ t.cmds = s.cmds
        /\ t \in Plugin
    BY <2>1, ZenonT(40) DEF Plugin
  <2> QED
    BY <1>1, <2>2 DEF Created
<1>2. CASE n \notin InTab(s.tab)
  <2> DEFINE u == [s.tab EXCEPT ![Bucket[n]] = <<n>> \o @]
             q == Append(s.cmds, Cmd("ADD_NODE", n, NoAddr))
             z == [s EXCEPT !.tab[Bucket[n]] = <<n>> \o @, !.cmds = q]
  <2>1. t = [z EXCEPT !.actNodes = @ \cup {n}]
    BY <1>2 DEF tc_create_node
  <2>2. s.tab \in [Buckets -> Seq(Node)]
    BY DEF Plugin
  <2>3. u \in [Buckets -> Seq(Node)] /\ TabOK(u) /\ InTab(u) = InTab(s.tab) \cup {n}
    BY <1>2, <2>2, PushNode
  <2>4. q \in Seq(TopoCommand)
    BY TopoCmd DEF Plugin
  <2>5. /\ z.tab = u /\ z.freed = s.freed /\ z.links = s.links /\ z.mids = s.mids
        /\ z.actNodes = s.actNodes /\ z.actLinks = s.actLinks /\ z.cmds = q
        /\ z = [tab |-> u, freed |-> s.freed, links |-> s.links, mids |-> s.mids,
                actNodes |-> s.actNodes, actLinks |-> s.actLinks, cmds |-> q]
    <3>1. z = [s EXCEPT !.tab = u, !.cmds = q]
      BY Zenon
    <3> HIDE DEF u, q, z
    <3> QED
      BY <3>1 DEF Plugin
  <2> HIDE DEF u, q, z
  <2>6. /\ t.tab = u /\ t.freed = s.freed /\ t.links = s.links /\ t.mids = s.mids
        /\ t.actNodes = s.actNodes \cup {n} /\ t.actLinks = s.actLinks /\ t.cmds = q
        /\ t = [tab |-> u, freed |-> s.freed, links |-> s.links, mids |-> s.mids,
                actNodes |-> s.actNodes \cup {n}, actLinks |-> s.actLinks, cmds |-> q]
    BY <2>1, <2>5
  <2>7. t \in Plugin
    BY <2>3, <2>4, <2>6 DEF Plugin
  <2> QED
    BY <1>2, <2>3, <2>6, <2>7 DEF q, Created
<1> QED
  BY <1>1, <1>2

Ends(L) == {n \in Node : \E e \in L : n = e[1] \/ n = e[2]}

\* the commands cmds make a router that has at least the nodes N and exactly the
\* links L one that has at least the nodes M and exactly the links K
Makes(N, L, cmds, M, K) ==
    \A v \in Views : N \subseteq v.nodes /\ v.links = L =>
        \E w \in Views : Leads(v, cmds, w) /\ M \subseteq w.nodes /\ w.links = K

LEMMA MakesNode ==
    ASSUME NEW N, NEW L, NEW cmds, NEW M, NEW K, Makes(N, L, cmds, M, K), NEW n \in Node
    PROVE  Makes(N, L, Append(cmds, Cmd("ADD_NODE", n, NoAddr)), M \cup {n}, K)
<1> DEFINE c == Cmd("ADD_NODE", n, NoAddr)
<1> SUFFICES ASSUME NEW v \in Views, N \subseteq v.nodes, v.links = L
             PROVE  \E w \in Views : Leads(v, Append(cmds, c), w) /\ M \cup {n} \subseteq w.nodes
                                     /\ w.links = K
  BY DEF Makes
<1>1. PICK w \in Views : Leads(v, cmds, w) /\ M \subseteq w.nodes /\ w.links = K
  BY DEF Makes
<1>2. c \in Command /\ c.type = "ADD_NODE" /\ c.addr_1 = n
  BY TopoCmd DEF Cmd
<1> HIDE DEF c
<1> DEFINE z == After(w, c)
<1>3. Fine(w, c) /\ z = [nodes |-> w.nodes \cup {n}, links |-> w.links]
  BY <1>2 DEF Fine, After
<1>4. z \in Views
  BY <1>3 DEF Views
<1>5. Leads(v, Append(cmds, c), z)
  BY <1>1, <1>2, <1>3, <1>4, LeadsOn
<1> QED
  BY <1>1, <1>3, <1>4, <1>5

LEMMA MakesLink ==
    ASSUME NEW N, NEW L, NEW cmds, NEW M, NEW K, Makes(N, L, cmds, M, K),
           NEW e \in Node \X Node, e[1] \in M, e[2] \in M, e \notin K
    PROVE  Makes(N, L, Append(cmds, Cmd("ADD_LINK", e[1], e[2])), M, K \cup {e})
<1> DEFINE c == Cmd("ADD_LINK", e[1], e[2])
<1> SUFFICES ASSUME NEW v \in Views, N \subseteq v.nodes, v.links = L
             PROVE  \E w \in Views : Leads(v, Append(cmds, c), w) /\ M \subseteq w.nodes
                                     /\ w.links = K \cup {e}
  BY DEF Makes
<1>1. PICK w \in Views : Leads(v, cmds, w) /\ M \subseteq w.nodes /\ w.links = K
  BY DEF Makes
<1>2. c \in Command /\ c.type = "ADD_LINK" /\ c.addr_1 = e[1] /\ c.addr_2 = e[2]
  BY TopoCmd DEF Cmd
<1> HIDE DEF c
<1> DEFINE z == After(w, c)
<1>3. <<e[1], e[2]>> = e
  OBVIOUS
<1>4. Fine(w, c)
  BY <1>1, <1>2, <1>3 DEF Fine
<1>5. z = [nodes |-> w.nodes, links |-> w.links \cup {e}]
  BY <1>2, <1>3 DEF After
<1>6. z \in Views
  BY <1>5 DEF Views
<1>7. Leads(v, Append(cmds, c), z)
  BY <1>1, <1>2, <1>4, <1>6, LeadsOn
<1> QED
  BY <1>1, <1>5, <1>6, <1>7

\* A link olsrd has: its ends are created where they are missing, and it is sent
\* unless it has been.
LinkAdded(s, e, t) ==
    /\ t \in Plugin /\ TabOK(t.tab) /\ InTab(t.tab) = InTab(s.tab) \cup {e[1], e[2]}
    /\ t.freed = s.freed /\ t.links = s.links \cup {e} /\ t.mids = s.mids
    /\ t.actNodes = s.actNodes \cup {e[1], e[2]} /\ t.actLinks = s.actLinks \cup {e}

LEMMA AddLink ==
    ASSUME NEW s \in Plugin, TabOK(s.tab), NEW n \in Node, NEW d \in Node,
           NEW e, e = <<n, d>>, ~Ignored(e),
           NEW N, NEW L, Makes(N, L, s.cmds, InTab(s.tab), s.links),
           NEW t, t = tc_addLink(e, s)
    PROVE  LinkAdded(s, e, t) /\ Makes(N, L, t.cmds, InTab(t.tab), t.links)
<1>0. e \in Node \X Node /\ e[1] = n /\ e[2] = d
  OBVIOUS
<1>10. PICK s1 : s1 = tc_create_node(s, n)
  OBVIOUS
<1>11. PICK s2 : s2 = tc_create_node(s1, d)
  OBVIOUS
<1> DEFINE cs == IF e \in s2.links THEN s2.cmds ELSE Append(s2.cmds, Cmd("ADD_LINK", n, d))
<1>1. t = [s2 EXCEPT !.actLinks = @ \cup {e}, !.links = @ \cup {e},
                     !.cmds = IF e \in s.links THEN @ ELSE Append(@, Cmd("ADD_LINK", n, d))]
  BY <1>0, <1>10, <1>11 DEF tc_addLink
<1>2. Created(s, n, s1)
  BY <1>10, CreateNode
<1>3. Created(s1, d, s2)
  <2>1. s1 \in Plugin /\ TabOK(s1.tab)
    BY <1>2 DEF Created
  <2> QED
    BY <1>11, <2>1, CreateNode
<1>4. Makes(N, L, s1.cmds, InTab(s1.tab), s.links)
  <2>1. CASE n \in InTab(s.tab)
    <3>1. InTab(s1.tab) = InTab(s.tab) /\ s1.cmds = s.cmds
      BY <1>2, <2>1 DEF Created
    <3> QED
      BY <3>1
  <2>2. CASE n \notin InTab(s.tab)
    <3>1. s1.cmds = Append(s.cmds, Cmd("ADD_NODE", n, NoAddr))
      BY <1>2, <2>2 DEF Created
    <3> QED
      BY <1>2, <3>1, MakesNode DEF Created
  <2> QED
    BY <2>1, <2>2
<1>5. Makes(N, L, s2.cmds, InTab(s2.tab), s.links)
  <2>1. CASE d \in InTab(s1.tab)
    <3>1. InTab(s2.tab) = InTab(s1.tab) /\ s2.cmds = s1.cmds
      BY <1>3, <2>1 DEF Created
    <3> QED
      BY <1>4, <3>1
  <2>2. CASE d \notin InTab(s1.tab)
    <3>1. s2.cmds = Append(s1.cmds, Cmd("ADD_NODE", d, NoAddr))
      BY <1>3, <2>2 DEF Created
    <3> QED
      BY <1>3, <1>4, <3>1, MakesNode DEF Created
  <2> QED
    BY <2>1, <2>2
<1>6. s2.links = s.links /\ n \in InTab(s2.tab) /\ d \in InTab(s2.tab)
  BY <1>2, <1>3 DEF Created
<1>7. cs \in Seq(TopoCommand) /\ Makes(N, L, cs, InTab(s2.tab), s.links \cup {e})
  <2>1. CASE e \in s.links
    <3>1. cs = s2.cmds /\ s.links \cup {e} = s.links
      BY <1>6, <2>1
    <3> QED
      BY <1>3, <1>5, <3>1 DEF Plugin, Created
  <2>2. CASE e \notin s.links
    <3>1. cs = Append(s2.cmds, Cmd("ADD_LINK", n, d))
      BY <1>6, <2>2
    <3>2. cs \in Seq(TopoCommand)
      <4>1. s2.cmds \in Seq(TopoCommand) /\ Cmd("ADD_LINK", n, d) \in TopoCommand
        <5>1. s2 \in Plugin
          BY <1>3 DEF Created
        <5>2. s2.cmds \in Seq(TopoCommand)
          BY <5>1 DEF Plugin
        <5> QED
          BY <5>2, <1>0, TopoCmd
      <4> QED
        BY <3>1, <4>1
    <3> QED
      BY <1>5, <1>6, <2>2, <3>1, <3>2, MakesLink
  <2> QED
    BY <2>1, <2>2
<1>8. t = [s2 EXCEPT !.actLinks = @ \cup {e}, !.links = @ \cup {e}, !.cmds = cs]
  BY <1>1, <1>6
<1> HIDE DEF cs
<1>9. /\ t \in Plugin /\ t.tab = s2.tab /\ t.freed = s2.freed /\ t.links = s2.links \cup {e}
      /\ t.mids = s2.mids /\ t.actNodes = s2.actNodes /\ t.actLinks = s2.actLinks \cup {e}
      /\ t.cmds = cs
  <2>1. s2 \in Plugin /\ cs \in Seq(TopoCommand)
    BY <1>3, <1>7 DEF Created
  <2> QED
    <3>1. /\ t.tab = s2.tab /\ t.freed = s2.freed /\ t.links = s2.links \cup {e}
          /\ t.mids = s2.mids /\ t.actNodes = s2.actNodes /\ t.actLinks = s2.actLinks \cup {e}
          /\ t.cmds = cs
          /\ t = [tab |-> t.tab, freed |-> t.freed, links |-> t.links, mids |-> t.mids,
                  actNodes |-> t.actNodes, actLinks |-> t.actLinks, cmds |-> t.cmds]
      BY <2>1, <1>8 DEF Plugin
    <3>2. t.links \in SUBSET (Node \X Node) /\ t.actLinks \in SUBSET (Node \X Node)
      BY <1>0, <2>1, <3>1 DEF Plugin
    <3>3. t.tab \in [Buckets -> Seq(Node)] /\ t.freed \in SUBSET Node
          /\ t.mids \in SUBSET (Node \X Alias) /\ t.actNodes \in SUBSET Node
          /\ t.cmds \in Seq(TopoCommand)
      BY <2>1, <3>1 DEF Plugin
    <3>4. t \in Plugin
      BY <3>1, <3>2, <3>3 DEF Plugin
    <3> QED
      BY <3>1, <3>4
<1> QED
  BY <1>0, <1>2, <1>3, <1>6, <1>7, <1>9 DEF Created, LinkAdded

\* the edges of D that are reported
Counted(D) == {e \in D : ~Ignored(e)}

\* the tables after the edges D
Walked(s0, D, s) ==
    /\ s \in Plugin /\ TabOK(s.tab) /\ InTab(s.tab) = InTab(s0.tab) \cup Ends(Counted(D))
    /\ s.freed = s0.freed /\ s.links = s0.links \cup Counted(D) /\ s.mids = s0.mids
    /\ s.actNodes = Ends(Counted(D)) /\ s.actLinks = Counted(D)
    /\ Makes(InTab(s0.tab), s0.links, s.cmds, InTab(s.tab), s.links)

LEMMA WalkEdge ==
    ASSUME NEW s0, NEW D \in SUBSET (Node \X Node), NEW e \in D,
           NEW s, Walked(s0, D \ {e}, s), NEW t, t = tc_addLink(e, s)
    PROVE  Walked(s0, D, t)
<1> DEFINE B == D \ {e}
<1>1. CASE Ignored(e)
  <2>1. Counted(D) = Counted(B)
    BY <1>1 DEF Counted
  <2>2. t = s
    BY <1>1 DEF tc_addLink
  <2> QED
    BY <2>1, <2>2 DEF Walked
<1>2. CASE ~Ignored(e)
  <2>1. Counted(D) = Counted(B) \cup {e}
    BY <1>2 DEF Counted
  <2>2. Ends(Counted(D)) = Ends(Counted(B)) \cup {e[1], e[2]}
    BY <2>1 DEF Ends
  <2>3. PICK n \in Node, d \in Node : e = <<n, d>>
    OBVIOUS
  <2>4. s \in Plugin /\ TabOK(s.tab) /\ Makes(InTab(s0.tab), s0.links, s.cmds, InTab(s.tab), s.links)
    BY DEF Walked
  <2>5. LinkAdded(s, e, t) /\ Makes(InTab(s0.tab), s0.links, t.cmds, InTab(t.tab), t.links)
    BY <1>2, <2>3, <2>4, AddLink
  <2> QED
    BY <2>1, <2>2, <2>5 DEF Walked, LinkAdded
<1> QED
  BY <1>1, <1>2

\* What the walk over the edges makes of the tables.
LEMMA WalkEdges ==
    ASSUME NEW s0 \in Plugin, TabOK(s0.tab), s0.actNodes = {}, s0.actLinks = {}, s0.cmds = <<>>,
           NEW E \in SUBSET (Node \X Node), IsFiniteSet(E)
    PROVE  Walked(s0, E, FoldSet(tc_addLink, s0, E))
<1> DEFINE Good == [D \in SUBSET E |-> {s \in Plugin : Walked(s0, D, s)}]
<1>1. Walked(s0, {}, s0)
  <2>1. Counted({}) = {} /\ Ends({}) = {}
    BY DEF Counted, Ends
  <2>2. Makes(InTab(s0.tab), s0.links, <<>>, InTab(s0.tab), s0.links)
    BY LeadsEmpty DEF Makes
  <2> QED
    BY <2>1, <2>2 DEF Walked
<1>2. s0 \in Good[{}]
  BY <1>1
<1>3. ASSUME NEW D \in SUBSET E, NEW e \in D, NEW s \in Good[D \ {e}]
      PROVE  tc_addLink(e, s) \in Good[D]
  <2>1. Walked(s0, D \ {e}, s)
    OBVIOUS
  <2>2. Walked(s0, D, tc_addLink(e, s))
    BY <2>1, WalkEdge
  <2>3. tc_addLink(e, s) \in Plugin
    BY <2>2 DEF Walked
  <2> QED
    BY <2>2, <2>3
<1> HIDE DEF Good
<1>4. FoldSet(tc_addLink, s0, E) \in Good[E]
  BY <1>2, <1>3, AddLinkFold
<1> QED
  BY <1>4 DEF Good

LEMMA PairsFinite ==
    /\ \A S \in SUBSET (Node \X Node) : IsFiniteSet(S)
    /\ \A S \in SUBSET (Node \X Alias) : IsFiniteSet(S)
    /\ \A S \in SUBSET (Node \X {NoAddr}) : IsFiniteSet(S)
    /\ \A S \in SUBSET (Alias \X {NoAddr}) : IsFiniteSet(S)
    /\ \A S \in SUBSET Node : IsFiniteSet(S)
<1>1. IsFiniteSet(Node) /\ IsFiniteSet(Alias) /\ IsFiniteSet({NoAddr})
  BY PluginAssumption, FS_Singleton
<1>2. IsFiniteSet(Node \X Node) /\ IsFiniteSet(Node \X Alias)
      /\ IsFiniteSet(Node \X {NoAddr}) /\ IsFiniteSet(Alias \X {NoAddr})
  BY <1>1, FS_Product
<1> QED
  BY <1>1, <1>2, FS_Subset

\* Each kind of block the plugin sends consists of commands about the topology.
LEMMA BlockTopo ==
    ASSUME NEW S, NEW type,
           \/ S \in SUBSET (Node \X Node) /\ type \in LinkType
           \/ S \in SUBSET (Node \X Alias) /\ type \in AliasType
           \/ S \in SUBSET (Node \X {NoAddr}) /\ type = "ADD_NODE"
    PROVE  Block(type, S) \in Seq(TopoCommand)
<1> DEFINE b == Block(type, S)
           q == SetToSeq(S)
<1>1. S \in SUBSET (Addr \X (Addr \cup {NoAddr})) /\ IsFiniteSet(S) /\ type \in TopoType \cup LocalType
  BY PairsFinite DEF Addr, LinkType, AliasType, TopoType
<1>2. /\ b \in Seq(Command) /\ Len(b) = Len(q) /\ Len(q) \in Nat
      /\ \A i \in 1 .. Len(q) : /\ q[i] \in S /\ b[i] \in Command /\ b[i].type = type
                                /\ b[i].addr_1 = q[i][1] /\ b[i].addr_2 = q[i][2]
  BY <1>1, BlockFields
<1> HIDE DEF b, q
<1>3. ASSUME NEW i \in 1 .. Len(b) PROVE b[i] \in TopoCommand
  <2>1. q[i] \in S /\ b[i] \in Command /\ b[i].type = type
        /\ b[i].addr_1 = q[i][1] /\ b[i].addr_2 = q[i][2]
    BY <1>2
  <2>2. CASE S \in SUBSET (Node \X Node) /\ type \in LinkType
    <3>1. q[i][1] \in Node /\ q[i][2] \in Node
      BY <2>1, <2>2
    <3> QED
      BY <2>1, <2>2, <3>1 DEF TopoCommand, LinkType, AliasType, TopoType
  <2>3. CASE S \in SUBSET (Node \X Alias) /\ type \in AliasType
    <3>1. q[i][1] \in Node /\ q[i][2] \in Alias
      BY <2>1, <2>3
    <3> QED
      BY <2>1, <2>3, <3>1 DEF TopoCommand, LinkType, AliasType, TopoType
  <2>4. CASE S \in SUBSET (Node \X {NoAddr}) /\ type = "ADD_NODE"
    <3>1. q[i][1] \in Node
      BY <2>1, <2>4
    <3> QED
      BY <2>1, <2>4, <3>1 DEF TopoCommand, LinkType, AliasType, TopoType
  <2> QED
    BY <2>2, <2>3, <2>4
<1>4. b \in Seq(TopoCommand)
  BY <1>2, <1>3
<1> QED
  BY <1>4 DEF b

LEMMA MakesBlock ==
    ASSUME NEW N, NEW L, NEW cmds, NEW M, NEW K, Makes(N, L, cmds, M, K), NEW b,
           NEW Q, NEW J, \A w \in Views : M \subseteq w.nodes /\ w.links = K =>
               \E z \in Views : Leads(w, b, z) /\ Q \subseteq z.nodes /\ z.links = J
    PROVE  Makes(N, L, cmds \o b, Q, J)
<1> SUFFICES ASSUME NEW v \in Views, N \subseteq v.nodes, v.links = L
             PROVE  \E z \in Views : Leads(v, cmds \o b, z) /\ Q \subseteq z.nodes /\ z.links = J
  BY DEF Makes
<1>1. PICK w \in Views : Leads(v, cmds, w) /\ M \subseteq w.nodes /\ w.links = K
  BY DEF Makes
<1>2. PICK z \in Views : Leads(w, b, z) /\ Q \subseteq z.nodes /\ z.links = J
  BY <1>1
<1> QED
  BY <1>1, <1>2, LeadsThrough

\* Aliases come and go without an effect on nodes and links.
LEMMA MakesAliases ==
    ASSUME NEW N, NEW L, NEW cmds \in Seq(TopoCommand), NEW M, NEW K, Makes(N, L, cmds, M, K),
           NEW type \in AliasType, NEW S \in SUBSET (Node \X Alias),
           NEW cs, cs = AppendAll(type, S, cmds)
    PROVE  cs \in Seq(TopoCommand) /\ Makes(N, L, cs, M, K)
<1> DEFINE b == Block(type, S)
<1>1. cs = cmds \o b
  BY AppendBlock
<1>2. b \in Seq(TopoCommand)
  BY BlockTopo
<1>3. cs \in Seq(TopoCommand)
  BY <1>1, <1>2
<1>4. S \in SUBSET (Addr \X (Addr \cup {NoAddr})) /\ IsFiniteSet(S)
  BY PairsFinite DEF Addr
<1>5. \A w \in Views : Leads(w, b, w)
  BY <1>4, IdleBlock
<1> HIDE DEF b
<1>6. Makes(N, L, cmds \o b, M, K)
  BY <1>5, MakesBlock
<1> QED
  BY <1>1, <1>3, <1>6

\* t is s but for the aliases and the commands
AliasesOnly(s, t) ==
    /\ t \in Plugin /\ t.tab = s.tab /\ t.freed = s.freed /\ t.links = s.links
    /\ t.actNodes = s.actNodes /\ t.actLinks = s.actLinks

LEMMA AliasSteps ==
    ASSUME mids \in SUBSET (Node \X Alias), NEW s \in Plugin,
           NEW N, NEW L, NEW M, NEW K, Makes(N, L, s.cmds, M, K),
           NEW t, t = tc_addMid(s) \/ t = tc_remove_useless_mid(s)
    PROVE  AliasesOnly(s, t) /\ Makes(N, L, t.cmds, M, K)
<1>1. s.mids \in SUBSET (Node \X Alias) /\ s.cmds \in Seq(TopoCommand)
  BY DEF Plugin
<1>2. CASE t = tc_addMid(s)
  <2>1. PICK cs : cs = AppendAll("ADD_ALIAS", mids \ s.mids, s.cmds)
    OBVIOUS
  <2>2. cs \in Seq(TopoCommand) /\ Makes(N, L, cs, M, K)
    <3>1. "ADD_ALIAS" \in AliasType /\ mids \ s.mids \in SUBSET (Node \X Alias)
      BY DEF AliasType
    <3> QED
      BY <1>1, <2>1, <3>1, MakesAliases
  <2>3. t = [s EXCEPT !.mids = @ \cup mids, !.cmds = cs]
    BY <1>2, <2>1 DEF tc_addMid
  <2>4. AliasesOnly(s, t) /\ t.cmds = cs
    BY <2>2, <2>3 DEF AliasesOnly, Plugin
  <2> QED
    BY <2>2, <2>4
<1>3. CASE t = tc_remove_useless_mid(s)
  <2>1. PICK cs : cs = AppendAll("REMOVE_ALIAS", s.mids \ mids, s.cmds)
    OBVIOUS
  <2>2. cs \in Seq(TopoCommand) /\ Makes(N, L, cs, M, K)
    <3>1. "REMOVE_ALIAS" \in AliasType /\ s.mids \ mids \in SUBSET (Node \X Alias)
      BY <1>1 DEF AliasType
    <3> QED
      BY <1>1, <2>1, <3>1, MakesAliases
  <2>3. t = [s EXCEPT !.mids = mids, !.cmds = cs]
    BY <1>3, <2>1 DEF tc_remove_useless_mid
  <2>4. AliasesOnly(s, t) /\ t.cmds = cs
    BY <2>2, <2>3 DEF AliasesOnly, Plugin
  <2> QED
    BY <2>2, <2>4
<1> QED
  BY <1>2, <1>3

\* the links of L between nodes of M
Between(L, M) == {e \in L : e[1] \in M /\ e[2] \in M}

\* A link whose source is n goes unless it is still there.
LEMMA RemoveLinksStep ==
    ASSUME NEW s \in Plugin, NEW n \in Node, NEW N, NEW L, NEW M,
           Makes(N, L, s.cmds, M, Between(s.links, M)),
           NEW t, t = RemoveLinks(s, n)
    PROVE  /\ t \in Plugin /\ t.tab = s.tab /\ t.freed = s.freed /\ t.mids = s.mids
           /\ t.actNodes = s.actNodes /\ t.actLinks = s.actLinks
           /\ t.links = {e \in s.links : ~(e[1] = n /\ e \notin s.actLinks)}
           /\ Makes(N, L, t.cmds, M, Between(t.links, M))
<1>1. PICK old : old = {e \in s.links : e[1] = n /\ e \notin s.actLinks}
  OBVIOUS
<1>2. PICK b : b = Block("REMOVE_LINK", old)
  OBVIOUS
<1>3. old \in SUBSET (Node \X Node) /\ s.cmds \in Seq(TopoCommand)
  BY <1>1 DEF Plugin
<1>4. t = [s EXCEPT !.links = @ \ old, !.cmds = s.cmds \o b]
  BY <1>1, <1>2, AppendBlock DEF RemoveLinks
<1>5. b \in Seq(TopoCommand)
  BY <1>2, <1>3, BlockTopo DEF LinkType
<1>6. s.cmds \o b \in Seq(TopoCommand)
  BY <1>3, <1>5
<1> DEFINE cs == s.cmds \o b
<1> HIDE DEF cs
<1>7. /\ t \in Plugin /\ t.tab = s.tab /\ t.freed = s.freed /\ t.mids = s.mids
      /\ t.actNodes = s.actNodes /\ t.actLinks = s.actLinks /\ t.links = s.links \ old
      /\ t.cmds = cs
  <2>1. cs \in Seq(TopoCommand) /\ t = [s EXCEPT !.links = @ \ old, !.cmds = cs]
    BY <1>4, <1>6 DEF cs
  <2> QED
    BY <2>1, ZenonT(40) DEF Plugin
<1> DEFINE K == Between(s.links, M)
           J == Between(t.links, M)
<1>8. J = K \ old
  BY <1>7 DEF Between
<1>9. ASSUME NEW w \in Views, M \subseteq w.nodes, w.links = K
      PROVE  \E z \in Views : Leads(w, b, z) /\ M \subseteq z.nodes /\ z.links = J
  <2> DEFINE z == [nodes |-> w.nodes, links |-> w.links \ old]
  <2>1. z \in Views
    BY DEF Views
  <2>2. Leads(w, b, z)
    BY <1>2, <1>3, PairsFinite, RemoveBlock
  <2> QED
    BY <1>8, <1>9, <2>1, <2>2
<1> HIDE DEF J, K
<1>10. Makes(N, L, s.cmds \o b, M, J)
  BY <1>9, MakesBlock DEF K
<1> QED
  BY <1>1, <1>7, <1>10 DEF J, cs

\* The head of a bucket leaves it.
LEMMA PopNode ==
    ASSUME NEW t \in [Buckets -> Seq(Node)], TabOK(t), NEW n \in Node, n \in InTab(t),
           Head(t[Bucket[n]]) = n, NEW u, u = [t EXCEPT ![Bucket[n]] = Tail(@)]
    PROVE  u \in [Buckets -> Seq(Node)] /\ TabOK(u) /\ InTab(u) = InTab(t) \ {n}
<1> DEFINE b == Bucket[n]
           q == t[b]
<1>1. b \in Buckets /\ q \in Seq(Node) /\ Len(q) \in Nat /\ DOMAIN q = 1 .. Len(q)
  BY BucketType
<1>2. q # <<>> /\ q[1] = n
  <2>1. \E i \in DOMAIN q : q[i] = n
    BY DEF InTab
  <2> QED
    BY <1>1, <2>1
<1> DEFINE r == Tail(q)
<1>3. /\ r \in Seq(Node) /\ DOMAIN r = 1 .. Len(q) - 1
      /\ \A i \in DOMAIN r : i + 1 \in DOMAIN q /\ r[i] = q[i + 1]
      /\ \A i \in DOMAIN q : i # 1 => i - 1 \in DOMAIN r /\ r[i - 1] = q[i]
  BY <1>1, <1>2
<1>4. u \in [Buckets -> Seq(Node)] /\ u[b] = r /\ \A c \in Buckets \ {b} : u[c] = t[c]
  BY <1>1, <1>3
<1>5. \A i, j \in DOMAIN q : Bucket[q[i]] = b /\ (q[i] = q[j] => i = j)
  BY <1>1 DEF TabOK
<1>6. 1 \in DOMAIN q
  BY <1>1, <1>2
<1> HIDE DEF r, q
<1>7. \A i, j \in DOMAIN r : Bucket[r[i]] = b /\ (r[i] = r[j] => i = j)
  <2> SUFFICES ASSUME NEW i \in DOMAIN r, NEW j \in DOMAIN r
               PROVE  Bucket[r[i]] = b /\ (r[i] = r[j] => i = j)
    OBVIOUS
  <2>1. i \in Nat /\ j \in Nat
    BY <1>1, <1>3
  <2>2. i + 1 = j + 1 => i = j
    BY <2>1
  <2> QED
    BY <1>3, <1>5, <2>2
<1>8. TabOK(u)
  <2> SUFFICES ASSUME NEW c \in Buckets, NEW i \in DOMAIN u[c], NEW j \in DOMAIN u[c]
               PROVE  Bucket[u[c][i]] = c /\ (u[c][i] = u[c][j] => i = j)
    BY DEF TabOK
  <2>1. CASE c = b
    BY <1>4, <1>7, <2>1, SMTT(30)
  <2>2. CASE c # b
    BY <1>4, <2>2 DEF TabOK
  <2> QED
    BY <2>1, <2>2
<1>9. ASSUME NEW m \in Node PROVE m \in InTab(u) <=> m \in InTab(t) /\ m # n
  <2>1. Bucket[m] \in Buckets
    BY BucketType
  <2>2. CASE Bucket[m] # b
    BY <1>4, <2>1, <2>2 DEF InTab, b
  <2>3. CASE Bucket[m] = b
    <3>1. m \in InTab(t) <=> \E i \in DOMAIN q : q[i] = m
      BY <2>3 DEF InTab, q
    <3>2. m \in InTab(u) <=> \E i \in DOMAIN r : r[i] = m
      BY <1>4, <2>3 DEF InTab
    <3>3. ASSUME NEW i \in DOMAIN r, r[i] = m PROVE m # n /\ \E k \in DOMAIN q : q[k] = m
      <4>1. i + 1 \in DOMAIN q /\ q[i + 1] = m /\ i + 1 # 1
        BY <1>1, <1>3, <3>3
      <4> QED
        BY <1>2, <1>5, <1>6, <4>1
    <3>4. ASSUME NEW i \in DOMAIN q, q[i] = m, m # n PROVE \E k \in DOMAIN r : r[k] = m
      BY <1>2, <1>3, <3>4
    <3> QED
      BY <3>1, <3>2, <3>3, <3>4
  <2> QED
    BY <2>2, <2>3
<1>10. InTab(u) \subseteq Node /\ InTab(t) \subseteq Node
  BY DEF InTab
<1> QED
  BY <1>4, <1>8, <1>9, <1>10

\* the nodes the table has
Known(s) == InTab(s.tab) \ s.freed

\* A node leaves the table, or the table still leads to it.
LEMMA UnlinkStep ==
    ASSUME NEW s \in Plugin, TabOK(s.tab), NEW n \in Known(s), NEW t, t = Unlink(s, n)
    PROVE  /\ t \in Plugin /\ TabOK(t.tab) /\ Known(t) = Known(s) \ {n}
           /\ t.freed \subseteq s.freed \cup {n}
           /\ t.links = s.links /\ t.mids = s.mids
           /\ t.actNodes = s.actNodes /\ t.actLinks = s.actLinks /\ t.cmds = s.cmds
<1>1. n \in Node /\ n \in InTab(s.tab) /\ n \notin s.freed
  BY DEF Known, InTab
<1>2. CASE Head(s.tab[Bucket[n]]) = n
  <2>1. PICK u : u = [s.tab EXCEPT ![Bucket[n]] = Tail(@)]
    OBVIOUS
  <2>2. t = [s EXCEPT !.tab = u]
    <3>1. t = [s EXCEPT !.tab[Bucket[n]] = Tail(@)]
      BY <1>2 DEF Unlink
    <3>2. [s EXCEPT !.tab[Bucket[n]] = Tail(@)] = [s EXCEPT !.tab = u]
      BY <2>1, Zenon
    <3> QED
      BY <3>1, <3>2
  <2>3. s.tab \in [Buckets -> Seq(Node)]
    BY DEF Plugin
  <2>4. u \in [Buckets -> Seq(Node)] /\ TabOK(u) /\ InTab(u) = InTab(s.tab) \ {n}
    BY <1>1, <1>2, <2>1, <2>3, PopNode
  <2>5. /\ t \in Plugin /\ t.tab = u /\ t.freed = s.freed /\ t.links = s.links /\ t.mids = s.mids
        /\ t.actNodes = s.actNodes /\ t.actLinks = s.actLinks /\ t.cmds = s.cmds
    BY <2>2, <2>4 DEF Plugin
  <2>6. Known(t) = Known(s) \ {n}
    BY <2>4, <2>5 DEF Known
  <2> QED
    BY <2>4, <2>5, <2>6
<1>3. CASE Head(s.tab[Bucket[n]]) # n
  <2>1. t = [s EXCEPT !.freed = @ \cup {n}]
    BY <1>3 DEF Unlink
  <2>2. /\ t \in Plugin /\ t.tab = s.tab /\ t.freed = s.freed \cup {n}
        /\ t.links = s.links /\ t.mids = s.mids
        /\ t.actNodes = s.actNodes /\ t.actLinks = s.actLinks /\ t.cmds = s.cmds
    BY <1>1, <2>1 DEF Plugin
  <2>3. Known(t) = Known(s) \ {n}
    BY <2>2 DEF Known
  <2> QED
    BY <2>2, <2>3
<1> QED
  BY <1>2, <1>3

\* A node goes, and the router drops its links with it.
LEMMA MakesNoNode ==
    ASSUME NEW N, NEW L, NEW cmds, NEW M, NEW J \in SUBSET (Node \X Node),
           Makes(N, L, cmds, M, Between(J, M)), NEW n \in Node, n \in M
    PROVE  Makes(N, L, Append(cmds, Cmd("REMOVE_NODE", n, NoAddr)), M \ {n}, Between(J, M \ {n}))
<1> DEFINE c == Cmd("REMOVE_NODE", n, NoAddr)
<1> SUFFICES ASSUME NEW v \in Views, N \subseteq v.nodes, v.links = L
             PROVE  \E w \in Views : Leads(v, Append(cmds, c), w) /\ M \ {n} \subseteq w.nodes
                                     /\ w.links = Between(J, M \ {n})
  BY DEF Makes
<1>1. PICK w \in Views : Leads(v, cmds, w) /\ M \subseteq w.nodes /\ w.links = Between(J, M)
  BY DEF Makes
<1>2. c \in Command /\ c.type = "REMOVE_NODE" /\ c.addr_1 = n
  BY TopoCmd DEF Cmd
<1> HIDE DEF c
<1> DEFINE z == After(w, c)
<1>3. Fine(w, c)
  BY <1>1, <1>2 DEF Fine
<1>4. z = [nodes |-> w.nodes \ {n}, links |-> {e \in w.links : e[1] # n /\ e[2] # n}]
  BY <1>2 DEF After
<1>5. z \in Views
  BY <1>4 DEF Views
<1>6. Leads(v, Append(cmds, c), z)
  BY <1>1, <1>2, <1>3, <1>5, LeadsOn
<1>7. z.links = Between(J, M \ {n})
  BY <1>1, <1>4 DEF Between
<1> QED
  BY <1>1, <1>4, <1>5, <1>6, <1>7

\* the tables after the nodes D
Swept(s0, N, L, D, s) ==
    /\ s \in Plugin /\ TabOK(s.tab) /\ s.freed \subseteq D
    /\ s.actNodes = s0.actNodes /\ s.actLinks = s0.actLinks
    /\ Known(s) = InTab(s0.tab) \ {n \in D : n \notin s0.actNodes}
    /\ s.links = {e \in s0.links : ~(e[1] \in D /\ e \notin s0.actLinks)}
    /\ Makes(N, L, s.cmds, Known(s), Between(s.links, Known(s)))

LEMMA SweepNode ==
    ASSUME NEW s0, NEW N, NEW L, NEW D \in SUBSET InTab(s0.tab), NEW n \in D,
           NEW s, Swept(s0, N, L, D \ {n}, s), NEW t, t = RemoveUseless(n, s)
    PROVE  Swept(s0, N, L, D, t)
<1>1. PICK r : r = RemoveLinks(s, n)
  OBVIOUS
<1>2. s \in Plugin /\ n \in Node /\ n \in InTab(s0.tab)
  BY DEF Swept, InTab
<1>3. /\ r \in Plugin /\ r.tab = s.tab /\ r.freed = s.freed /\ r.mids = s.mids
      /\ r.actNodes = s.actNodes /\ r.actLinks = s.actLinks
      /\ r.links = {e \in s.links : ~(e[1] = n /\ e \notin s.actLinks)}
      /\ Makes(N, L, r.cmds, Known(s), Between(r.links, Known(s)))
  <2>1. Makes(N, L, s.cmds, Known(s), Between(s.links, Known(s)))
    BY DEF Swept
  <2> QED
    BY <1>1, <1>2, <2>1, RemoveLinksStep
<1>4. Known(r) = Known(s) /\ TabOK(r.tab)
  BY <1>3 DEF Known, Swept
<1>5. r.links = {e \in s0.links : ~(e[1] \in D /\ e \notin s0.actLinks)}
  BY <1>3 DEF Swept
<1>6. CASE n \in s.actNodes
  <2>1. t = r
    BY <1>1, <1>6 DEF RemoveUseless
  <2>2. {m \in D : m \notin s0.actNodes} = {m \in D \ {n} : m \notin s0.actNodes}
    BY <1>6 DEF Swept
  <2> QED
    BY <1>3, <1>4, <1>5, <2>1, <2>2 DEF Swept
<1>7. CASE n \notin s.actNodes
  <2>1. PICK own : own = {p \in r.mids : p[1] = n}
    OBVIOUS
  <2>2. PICK cs : cs = AppendAll("REMOVE_ALIAS", own, r.cmds)
    OBVIOUS
  <2>3. PICK ds : ds = Append(cs, Cmd("REMOVE_NODE", n, NoAddr))
    OBVIOUS
  <2>4. PICK u : u = [r EXCEPT !.mids = @ \ own, !.cmds = ds]
    OBVIOUS
  <2>5. t = Unlink(u, n)
    BY <1>1, <1>7, <2>1, <2>2, <2>3, <2>4 DEF RemoveUseless
  <2>6. r.cmds \in Seq(TopoCommand) /\ r.links \in SUBSET (Node \X Node)
        /\ own \in SUBSET (Node \X Alias) /\ "REMOVE_ALIAS" \in AliasType
    BY <1>3, <2>1 DEF Plugin, AliasType
  <2>7. n \in Known(s)
    BY <1>2, <1>7 DEF Swept
  <2>8. cs \in Seq(TopoCommand) /\ Makes(N, L, cs, Known(s), Between(r.links, Known(s)))
    BY <1>3, <2>2, <2>6, MakesAliases
  <2>9. ds \in Seq(TopoCommand)
    BY <1>2, <2>3, <2>8, TopoCmd
  <2>10. Makes(N, L, ds, Known(s) \ {n}, Between(r.links, Known(s) \ {n}))
    BY <1>2, <2>3, <2>6, <2>7, <2>8, MakesNoNode
  <2>11. /\ u \in Plugin /\ u.tab = r.tab /\ u.freed = r.freed /\ u.links = r.links
         /\ u.actNodes = r.actNodes /\ u.actLinks = r.actLinks /\ u.cmds = ds
    BY <1>3, <2>4, <2>9 DEF Plugin
  <2>12. Known(u) = Known(s) /\ TabOK(u.tab)
    BY <1>4, <2>11 DEF Known
  <2>13. /\ t \in Plugin /\ TabOK(t.tab) /\ Known(t) = Known(u) \ {n}
         /\ t.freed \subseteq u.freed \cup {n} /\ t.links = u.links
         /\ t.actNodes = u.actNodes /\ t.actLinks = u.actLinks /\ t.cmds = u.cmds
    BY <2>5, <2>7, <2>11, <2>12, UnlinkStep
  <2>14. {m \in D : m \notin s0.actNodes} = {m \in D \ {n} : m \notin s0.actNodes} \cup {n}
    BY <1>7 DEF Swept
  <2>15. Known(t) = InTab(s0.tab) \ {m \in D : m \notin s0.actNodes}
    BY <2>12, <2>13, <2>14 DEF Swept
  <2>16. t.freed \subseteq D /\ t.actNodes = s0.actNodes /\ t.actLinks = s0.actLinks
    BY <1>3, <2>11, <2>13 DEF Swept
  <2>17. Makes(N, L, t.cmds, Known(t), Between(t.links, Known(t)))
    BY <2>10, <2>11, <2>12, <2>13
  <2> QED
    BY <1>5, <2>11, <2>13, <2>15, <2>16, <2>17 DEF Swept
<1> QED
  BY <1>6, <1>7

\* What the walk over the nodes makes of the tables.
LEMMA SweepNodes ==
    ASSUME NEW s0 \in Plugin, TabOK(s0.tab), s0.freed = {},
           s0.links \subseteq InTab(s0.tab) \X InTab(s0.tab),
           NEW N, NEW L, Makes(N, L, s0.cmds, InTab(s0.tab), s0.links)
    PROVE  Swept(s0, N, L, InTab(s0.tab), tc_remove_useless_link(s0))
<1> DEFINE S == InTab(s0.tab)
           Good == [D \in SUBSET S |-> {s \in Plugin : Swept(s0, N, L, D, s)}]
<1>1. IsFiniteSet(S)
  BY PairsFinite DEF InTab
<1>2. Swept(s0, N, L, {}, s0)
  <2>1. Known(s0) = S /\ Between(s0.links, S) = s0.links
    BY DEF Known, Between
  <2> QED
    BY <2>1 DEF Swept
<1>3. s0 \in Good[{}]
  BY <1>2
<1>4. ASSUME NEW D \in SUBSET S, NEW n \in D, NEW s \in Good[D \ {n}]
      PROVE  RemoveUseless(n, s) \in Good[D]
  <2>1. Swept(s0, N, L, D \ {n}, s)
    OBVIOUS
  <2>2. Swept(s0, N, L, D, RemoveUseless(n, s))
    BY <2>1, SweepNode
  <2>3. RemoveUseless(n, s) \in Plugin
    BY <2>2 DEF Swept
  <2> QED
    BY <2>2, <2>3
<1>5. PICK T : T = S
  OBVIOUS
<1> HIDE DEF Good, S
<1>6. FoldSet(RemoveUseless, s0, T) \in Good[T]
  BY <1>1, <1>3, <1>4, <1>5, RemoveUselessFold
<1>7. tc_remove_useless_link(s0) = FoldSet(RemoveUseless, s0, T)
  BY <1>5 DEF tc_remove_useless_link, S
<1> QED
  BY <1>5, <1>6, <1>7 DEF Good, S

TablesOK ==
    /\ entries \in SUBSET Node /\ edges \in SUBSET (Node \X Node)
    /\ mids \in SUBSET (Node \X Alias)
    /\ tab \in [Buckets -> Seq(Node)] /\ TabOK(tab) /\ freed \in SUBSET Node
    /\ curMids \in SUBSET (Node \X Alias)
    /\ curLinks \subseteq (InTab(tab) \ freed) \X (InTab(tab) \ freed)

\* One report takes the plugin, and a router that agrees with it, to olsrd's links.
LEMMA CheckData ==
    ASSUME TablesOK, freed = {}, NEW s, s = tc_check_data
    PROVE  /\ s \in Plugin /\ TabOK(s.tab) /\ s.links = Reported
           /\ Reported \subseteq Known(s) \X Known(s)
           /\ Makes(InTab(tab), curLinks, s.cmds, Known(s), Reported)
<1> DEFINE N == InTab(tab)
<1>1. PICK s0 : s0 = [tab |-> tab, freed |-> freed, links |-> curLinks, mids |-> curMids,
                      actNodes |-> {}, actLinks |-> {}, cmds |-> <<>>]
  OBVIOUS
<1>2. PICK s1 : s1 = FoldSet(tc_addLink, s0, edges)
  OBVIOUS
<1>3. PICK s2 : s2 = tc_addMid(s1)
  OBVIOUS
<1>4. PICK s3 : s3 = tc_remove_useless_mid(s2)
  OBVIOUS
<1>5. s = tc_remove_useless_link(s3)
  BY <1>1, <1>2, <1>3, <1>4 DEF tc_check_data
<1>6. N \subseteq Node /\ curLinks \subseteq N \X N
  BY DEF InTab, TablesOK
<1>7. /\ s0 \in Plugin /\ s0.tab = tab /\ s0.freed = {} /\ s0.links = curLinks
      /\ s0.actNodes = {} /\ s0.actLinks = {} /\ s0.cmds = <<>>
  <2>1. <<>> \in Seq(TopoCommand) /\ curLinks \in SUBSET (Node \X Node)
    BY <1>6
  <2> QED
    BY <1>1, <2>1 DEF TablesOK, Plugin
<1>8. edges \in SUBSET (Node \X Node) /\ mids \in SUBSET (Node \X Alias) /\ TabOK(s0.tab)
  BY <1>7 DEF TablesOK
<1>9. Walked(s0, edges, s1)
  BY <1>2, <1>7, <1>8, PairsFinite, WalkEdges
<1>10. Counted(edges) = Reported
  BY DEF Counted, Reported
<1>11. /\ s1 \in Plugin /\ TabOK(s1.tab) /\ InTab(s1.tab) = N \cup Ends(Reported)
       /\ s1.freed = {} /\ s1.links = curLinks \cup Reported
       /\ s1.actNodes = Ends(Reported) /\ s1.actLinks = Reported
       /\ Makes(N, curLinks, s1.cmds, InTab(s1.tab), s1.links)
  BY <1>7, <1>9, <1>10 DEF Walked
<1> DEFINE M == InTab(s1.tab)
           K == s1.links
<1>12. AliasesOnly(s1, s2) /\ Makes(N, curLinks, s2.cmds, M, K)
  BY <1>3, <1>8, <1>11, AliasSteps
<1>13. s2 \in Plugin
  BY <1>12 DEF AliasesOnly
<1>14. AliasesOnly(s2, s3) /\ Makes(N, curLinks, s3.cmds, M, K)
  BY <1>4, <1>8, <1>12, <1>13, AliasSteps
<1>15. /\ s3 \in Plugin /\ s3.tab = s1.tab /\ s3.freed = {} /\ s3.links = K
       /\ s3.actNodes = Ends(Reported) /\ s3.actLinks = Reported /\ InTab(s3.tab) = M
  BY <1>11, <1>12, <1>14 DEF AliasesOnly
<1>16. Reported \subseteq Ends(Reported) \X Ends(Reported)
  <2> SUFFICES ASSUME NEW e \in Reported PROVE e \in Ends(Reported) \X Ends(Reported)
    OBVIOUS
  <2>1. e \in Node \X Node
    BY <1>8 DEF Reported
  <2>2. e[1] \in Ends(Reported) /\ e[2] \in Ends(Reported)
    BY <2>1 DEF Ends
  <2> QED
    BY <2>1, <2>2
<1>17. K \subseteq M \X M
  BY <1>6, <1>11, <1>16
<1>18. Swept(s3, N, curLinks, M, s)
  <2>1. TabOK(s3.tab) /\ s3.links \subseteq InTab(s3.tab) \X InTab(s3.tab)
        /\ Makes(N, curLinks, s3.cmds, InTab(s3.tab), s3.links)
    BY <1>11, <1>14, <1>15, <1>17
  <2> QED
    BY <1>5, <1>15, <2>1, SweepNodes
<1> HIDE DEF N
<1>19. Known(s) = Ends(Reported)
  BY <1>11, <1>15, <1>18 DEF Swept
<1>20. s.links = Reported
  BY <1>11, <1>15, <1>17, <1>18 DEF Swept
<1>21. Between(s.links, Known(s)) = Reported
  BY <1>16, <1>19, <1>20 DEF Between
<1> QED
  BY <1>16, <1>18, <1>19, <1>20, <1>21 DEF Swept, N

-----------------------------------------------------------------------------
(* The router's tables *)

TabType == [Slots -> Addr \cup {NoAddr}]
LocalLinkType == [dst : Node, alias : Addr \cup {NoAddr}]

\* A pair of address tables and address hash, with the nodes N in the list: a
\* main address is found exactly if its node is in the list, whatever the aliases
\* of the nodes have been through.
DbOK(s, N) ==
    /\ s = [tab |-> s.tab, hash |-> s.hash]
    /\ s.tab \in [Node -> TabType] /\ s.hash \in [Addr -> Seq(Node \X Slots)]
    /\ \A n \in Node : s.hash[n] = IF n \in N THEN << <<n, 0>> >> ELSE <<>>
    /\ \A n \in N : s.tab[n][0] = n
    /\ \A n \in Node : \A i \in Slots \ {0} : s.tab[n][i] \in Alias \cup {NoAddr}
    /\ \A x \in Alias : \A i \in DOMAIN s.hash[x] : s.hash[x][i][2] # 0

Db == [tab |-> addrTab, hash |-> hash]

LEMMA SlotsNat == Slots \in SUBSET Nat /\ 0 \in Slots /\ \A i \in Slots : i \in {0, 1, 2, 3, 4}
BY SizeAssumption DEF Slots

LEMMA NodeAddr == NoAddr \notin Node /\ NoAddr \notin Alias /\ Node \cap Alias = {}
                  /\ Addr = Node \cup Alias /\ Me \in Node /\ MyAliases \subseteq Alias
BY AddrAssumption DEF Addr

\* An alias that is taken out of the hash clears a slot of an alias.
LEMMA RmvAlias ==
    ASSUME NEW N \in SUBSET Node, NEW s, DbOK(s, N), NEW x \in Alias
    PROVE  DbOK(tc_rmv_node_addr(s, x), N)
<1>1. CASE s.hash[x] = <<>>
  BY <1>1 DEF tc_rmv_node_addr
<1>2. CASE s.hash[x] # <<>>
  <2>1. x \in Addr /\ x \notin Node
    BY NodeAddr
  <2>2. s.hash \in [Addr -> Seq(Node \X Slots)] /\ s.tab \in [Node -> TabType]
    BY DEF DbOK
  <2>3. s.hash[x] \in Seq(Node \X Slots) /\ Len(s.hash[x]) \in Nat /\ DOMAIN s.hash[x] = 1 .. Len(s.hash[x])
    BY <2>1, <2>2
  <2>4. PICK n \in Node, i \in Slots : s.hash[x][1] = <<n, i>> /\ i # 0
    <3>1. 1 \in DOMAIN s.hash[x]
      BY <1>2, <2>3
    <3>2. s.hash[x][1] \in Node \X Slots /\ s.hash[x][1][2] # 0
      BY <2>3, <3>1 DEF DbOK
    <3> QED
      BY <3>2
  <2>5. PICK t : t = [s.tab EXCEPT ![n][i] = NoAddr]
    OBVIOUS
  <2>6. PICK h : h = [s.hash EXCEPT ![x] = Tail(@)]
    OBVIOUS
  <2>7. tc_rmv_node_addr(s, x) = [tab |-> t, hash |-> h]
    BY <1>2, <2>4, <2>5, <2>6 DEF tc_rmv_node_addr
  <2>8. t \in [Node -> TabType]
        /\ \A m \in Node : \A j \in Slots : t[m][j] = IF m = n /\ j = i THEN NoAddr ELSE s.tab[m][j]
    BY <2>2, <2>4, <2>5 DEF TabType
  <2>9. Tail(s.hash[x]) \in Seq(Node \X Slots)
        /\ \A j \in DOMAIN Tail(s.hash[x]) : j + 1 \in DOMAIN s.hash[x]
                                             /\ Tail(s.hash[x])[j] = s.hash[x][j + 1]
    BY <1>2, <2>3
  <2>10. h \in [Addr -> Seq(Node \X Slots)] /\ h[x] = Tail(s.hash[x])
         /\ \A a \in Addr \ {x} : h[a] = s.hash[a]
    BY <2>1, <2>2, <2>6, <2>9
  <2>11. \A m \in Node : h[m] = IF m \in N THEN << <<m, 0>> >> ELSE <<>>
    BY <2>1, <2>10, NodeAddr DEF DbOK
  <2>12. \A m \in N : t[m][0] = m
    <3> SUFFICES ASSUME NEW m \in N PROVE t[m][0] = m
      OBVIOUS
    <3>1. s.tab[m][0] = m
      BY DEF DbOK
    <3> QED
      BY <2>4, <2>8, <3>1, SlotsNat
  <2>13. \A m \in Node : \A j \in Slots \ {0} : t[m][j] \in Alias \cup {NoAddr}
    BY <2>8 DEF DbOK
  <2>14. ASSUME NEW z \in Alias, NEW j \in DOMAIN h[z] PROVE h[z][j][2] # 0
    <3>1. CASE z = x
      <4>1. j + 1 \in DOMAIN s.hash[x] /\ h[z][j] = s.hash[x][j + 1]
        BY <2>9, <2>10, <3>1
      <4>2. \A k \in DOMAIN s.hash[x] : s.hash[x][k][2] # 0
        BY DEF DbOK
      <4> QED
        BY <4>1, <4>2
    <3>2. CASE z # x
      BY <2>10, <3>2, NodeAddr DEF DbOK
    <3> QED
      BY <3>1, <3>2
  <2> QED
    BY <2>7, <2>8, <2>10, <2>11, <2>12, <2>13, <2>14 DEF DbOK
<1> QED
  BY <1>1, <1>2

LEMMA RmvAliasSlot ==
    ASSUME NEW N \in SUBSET Node, NEW s, DbOK(s, N), NEW n \in Node, NEW i, i # 0
    PROVE  DbOK(RmvSlot(s, n, i), N)
<1>1. CASE i \in Slots /\ s.tab[n][i] # NoAddr
  <2>1. s.tab[n][i] \in Alias
    BY <1>1 DEF DbOK
  <2> QED
    BY <1>1, <2>1, RmvAlias DEF RmvSlot
<1>2. CASE ~(i \in Slots /\ s.tab[n][i] # NoAddr)
  BY <1>2 DEF RmvSlot
<1> QED
  BY <1>1, <1>2

\* The slot of the main address goes with the node.
LEMMA RmvMain ==
    ASSUME NEW N \in SUBSET Node, NEW s, DbOK(s, N), NEW n \in N
    PROVE  DbOK(RmvSlot(s, n, 0), N \ {n})
<1>1. n \in Node /\ 0 \in Slots /\ s.tab[n][0] = n /\ n # NoAddr /\ n \in Addr
  BY SlotsNat, NodeAddr DEF DbOK
<1>2. s.hash[n] = << <<n, 0>> >>
  BY <1>1 DEF DbOK
<1>3. s.hash \in [Addr -> Seq(Node \X Slots)] /\ s.tab \in [Node -> TabType]
  BY DEF DbOK
<1>4. s.hash[n] # <<>> /\ s.hash[n][1] = <<n, 0>> /\ Tail(s.hash[n]) = <<>>
  BY <1>2
<1>5. PICK t : t = [s.tab EXCEPT ![n][0] = NoAddr]
  OBVIOUS
<1>6. PICK h : h = [s.hash EXCEPT ![n] = <<>>]
  OBVIOUS
<1>7. RmvSlot(s, n, 0) = [tab |-> t, hash |-> h]
  <2>1. RmvSlot(s, n, 0) = tc_rmv_node_addr(s, n)
    BY <1>1 DEF RmvSlot
  <2>2. h = [s.hash EXCEPT ![n] = Tail(@)]
    BY <1>4, <1>6
  <2>3. s.hash[n][1][1] = n /\ s.hash[n][1][2] = 0
    BY <1>4
  <2> QED
    BY <1>4, <1>5, <2>1, <2>2, <2>3 DEF tc_rmv_node_addr
<1>8. t \in [Node -> TabType]
      /\ \A m \in Node : \A j \in Slots : t[m][j] = IF m = n /\ j = 0 THEN NoAddr ELSE s.tab[m][j]
  BY <1>1, <1>3, <1>5 DEF TabType
<1>9. h \in [Addr -> Seq(Node \X Slots)] /\ h[n] = <<>> /\ \A a \in Addr \ {n} : h[a] = s.hash[a]
  BY <1>1, <1>3, <1>6
<1>10. \A m \in Node : h[m] = IF m \in N \ {n} THEN << <<m, 0>> >> ELSE <<>>
  BY <1>9, NodeAddr DEF DbOK
<1>11. \A m \in N \ {n} : t[m][0] = m
  BY <1>1, <1>8, ZenonT(40) DEF DbOK
<1>12. \A m \in Node : \A j \in Slots \ {0} : t[m][j] \in Alias \cup {NoAddr}
  BY <1>8 DEF DbOK
<1>13. \A z \in Alias : \A j \in DOMAIN h[z] : h[z][j][2] # 0
  <2> SUFFICES ASSUME NEW z \in Alias, NEW j \in DOMAIN h[z] PROVE h[z][j][2] # 0
    OBVIOUS
  <2>1. z \in Addr /\ z # n
    BY <1>1, NodeAddr
  <2>2. h[z] = s.hash[z]
    BY <1>9, <2>1
  <2>3. \A k \in DOMAIN s.hash[z] : s.hash[z][k][2] # 0
    BY DEF DbOK
  <2> QED
    BY <2>2, <2>3
<1> QED
  BY <1>7, <1>8, <1>9, <1>10, <1>11, <1>12, <1>13 DEF DbOK

LEMMA RmvAll ==
    ASSUME NEW N \in SUBSET Node, DbOK(Db, N), NEW n \in N
    PROVE  DbOK(RmvAllSlots(n), N \ {n})
<1>0. n \in Node /\ N \ {n} \in SUBSET Node
  OBVIOUS
<1>1. PICK s1 : s1 = RmvSlot(Db, n, 0)
  OBVIOUS
<1>2. PICK s2 : s2 = RmvSlot(s1, n, 1)
  OBVIOUS
<1>3. PICK s3 : s3 = RmvSlot(s2, n, 2)
  OBVIOUS
<1>4. PICK s4 : s4 = RmvSlot(s3, n, 3)
  OBVIOUS
<1>5. RmvAllSlots(n) = RmvSlot(s4, n, 4)
  BY <1>1, <1>2, <1>3, <1>4 DEF RmvAllSlots, Db
<1>6. DbOK(s1, N \ {n})
  BY <1>1, RmvMain
<1>7. DbOK(s2, N \ {n})
  BY <1>0, <1>2, <1>6, RmvAliasSlot
<1>8. DbOK(s3, N \ {n})
  BY <1>0, <1>3, <1>7, RmvAliasSlot
<1>9. DbOK(s4, N \ {n})
  BY <1>0, <1>4, <1>8, RmvAliasSlot
<1> QED
  BY <1>0, <1>5, <1>9, RmvAliasSlot

\* tc_update_local_link picks an address of the neighbour or 0.
LEMMA LinkAliasType ==
    ASSUME NEW la \in TabType, NEW tt \in TabType
    PROVE  LinkAlias(la, tt) \in Addr \cup {NoAddr}
<1> DEFINE Match(i) == {j \in Slots : tt[j] # NoAddr /\ Subnet[tt[j]] = Subnet[la[i]]}
           ifaces == {i \in Slots : la[i] # NoAddr /\ Match(i) # {}}
<1>1. CASE ifaces = {}
  BY <1>1 DEF LinkAlias
<1>2. CASE ifaces # {}
  <2>1. Least(ifaces) \in ifaces
    BY <1>2, SlotsNat, LeastMember
  <2>2. Match(Least(ifaces)) # {} /\ Match(Least(ifaces)) \in SUBSET Nat
    BY <2>1, SlotsNat
  <2>3. Least(Match(Least(ifaces))) \in Slots
    BY <2>2, LeastMember
  <2> QED
    BY <1>2, <2>3 DEF LinkAlias, TabType
<1> QED
  BY <1>1, <1>2

\* The first local link to d has an index of the list.
LEMMA FirstLink ==
    ASSUME NEW ls \in Seq(LocalLinkType), NEW d, LinksTo(ls, d) # {}
    PROVE  /\ Least(LinksTo(ls, d)) \in 1..Len(ls)
           /\ ls[Least(LinksTo(ls, d))].dst = d
<1>1. LinksTo(ls, d) \in SUBSET Nat /\ LinksTo(ls, d) \subseteq 1..Len(ls)
  BY DEF LinksTo
<1>2. Least(LinksTo(ls, d)) \in LinksTo(ls, d)
  BY <1>1, LeastMember
<1> QED
  BY <1>1, <1>2 DEF LinksTo

LEMMA DropFirstType ==
    ASSUME NEW ls \in Seq(LocalLinkType), NEW d
    PROVE  DropFirst(ls, d) \in Seq(LocalLinkType)
<1>1. CASE LinksTo(ls, d) = {}
  BY <1>1 DEF DropFirst
<1>2. CASE LinksTo(ls, d) # {}
  <2> DEFINE i == Least(LinksTo(ls, d))
  <2>1. i \in 1..Len(ls)
    BY <1>2, FirstLink
  <2> HIDE DEF i
  <2>2. SubSeq(ls, 1, i - 1) \in Seq(LocalLinkType)
    BY <2>1
  <2>3. SubSeq(ls, i + 1, Len(ls)) \in Seq(LocalLinkType)
    BY <2>1
  <2> QED
    BY <1>2, <2>2, <2>3 DEF DropFirst, RemoveIdx, i
<1> QED
  BY <1>1, <1>2

LEMMA LinksToFinite ==
    ASSUME NEW ls \in Seq(LocalLinkType), NEW d
    PROVE  /\ IsFiniteSet(LinksTo(ls, d)) /\ Cardinality(LinksTo(ls, d)) \in Nat
           /\ Cardinality(LinksTo(ls, d)) > 0 => LinksTo(ls, d) # {}
           /\ LinksTo(ls, d) \subseteq 1 .. Len(ls)
<1>1. Len(ls) \in Nat /\ LinksTo(ls, d) \subseteq 1 .. Len(ls)
  BY DEF LinksTo
<1>2. IsFiniteSet(1 .. Len(ls))
  BY <1>1, FS_Interval
<1>3. IsFiniteSet(LinksTo(ls, d))
  BY <1>1, <1>2, FS_Subset
<1> QED
  BY <1>1, <1>3, FS_CardinalityType, FS_EmptySet

LEMMA Suffix ==
    ASSUME NEW T, NEW ls \in Seq(T), NEW k \in 1 .. Len(ls), NEW v, v = SubSeq(ls, k + 1, Len(ls))
    PROVE  /\ v \in Seq(T) /\ Len(v) = Len(ls) - k
           /\ \A i \in 1 .. Len(ls) - k : v[i] = ls[i + k]
<1>1. Len(ls) \in Nat /\ k \in Nat /\ k <= Len(ls)
  OBVIOUS
<1>2. CASE k = Len(ls)
  <2>1. v = <<>>
    BY <1>1, <1>2
  <2> QED
    BY <1>1, <1>2, <2>1
<1>3. CASE k < Len(ls)
  <2>1. k + 1 \in 1 .. Len(ls)
    BY <1>1, <1>3
  <2> QED
    BY <1>1, <2>1
<1> QED
  BY <1>1, <1>2, <1>3

\* A local link that is dropped is one to c, and only one.
LEMMA DropCount ==
    ASSUME NEW ls \in Seq(LocalLinkType), NEW c, NEW d
    PROVE  Cardinality(LinksTo(DropFirst(ls, c), d)) >=
               IF c = d THEN Cardinality(LinksTo(ls, d)) - 1 ELSE Cardinality(LinksTo(ls, d))
<1>1. Cardinality(LinksTo(ls, d)) \in Nat /\ IsFiniteSet(LinksTo(ls, d))
  BY LinksToFinite
<1>2. CASE LinksTo(ls, c) = {}
  BY <1>1, <1>2 DEF DropFirst
<1>3. CASE LinksTo(ls, c) # {}
  <2> DEFINE k == Least(LinksTo(ls, c))
             r == DropFirst(ls, c)
             u == SubSeq(ls, 1, k - 1)
             v == SubSeq(ls, k + 1, Len(ls))
  <2>1. k \in 1 .. Len(ls) /\ ls[k].dst = c
    BY <1>3, FirstLink
  <2>2. r = u \o v /\ r \in Seq(LocalLinkType)
    BY <1>3, DropFirstType DEF DropFirst, RemoveIdx
  <2> HIDE DEF k, r
  <2>3. Len(ls) \in Nat /\ DOMAIN ls = 1 .. Len(ls)
    OBVIOUS
  <2>4. /\ u \in Seq(LocalLinkType) /\ Len(u) = k - 1
        /\ \A i \in 1 .. k - 1 : u[i] = ls[i]
    BY <2>1, <2>3
  <2>5. /\ v \in Seq(LocalLinkType) /\ Len(v) = Len(ls) - k
        /\ \A i \in 1 .. Len(ls) - k : v[i] = ls[i + k]
    BY <2>1, Suffix
  <2> HIDE DEF u, v
  <2>6. DOMAIN r = 1 .. Len(ls) - 1
    <3>1. DOMAIN r = 1 .. Len(u) + Len(v)
      BY <2>2, <2>4, <2>5
    <3>2. Len(u) + Len(v) = Len(ls) - 1
      BY <2>1, <2>3, <2>4, <2>5
    <3> QED
      BY <3>1, <3>2
  <2>7. \A i \in 1 .. Len(ls) - 1 : r[i] = IF i <= k - 1 THEN u[i] ELSE v[i - (k - 1)]
    BY <2>1, <2>2, <2>3, <2>4, <2>5
  <2>8. ASSUME NEW j \in DOMAIN ls, j < k PROVE j \in DOMAIN r /\ r[j] = ls[j]
    BY <2>1, <2>3, <2>4, <2>6, <2>7, <2>8
  <2>9. ASSUME NEW j \in DOMAIN ls, j > k PROVE j - 1 \in DOMAIN r /\ r[j - 1] = ls[j]
    <3>1. j - 1 \in 1 .. Len(ls) - 1 /\ ~(j - 1 <= k - 1) /\ (j - 1) - (k - 1) = j - k
          /\ j - k \in 1 .. Len(ls) - k /\ (j - k) + k = j
      BY <2>1, <2>3, <2>9
    <3> QED
      BY <2>5, <2>6, <2>7, <3>1
  <2> DEFINE S == LinksTo(ls, d) \ {k}
             f == [j \in S |-> IF j < k THEN j ELSE j - 1]
  <2>10. S \subseteq 1 .. Len(ls) /\ k \notin S /\ IsFiniteSet(S)
    BY <1>1, LinksToFinite, FS_Subset
  <2>11. ASSUME NEW j \in S PROVE f[j] \in LinksTo(r, d)
    <3>1. j \in DOMAIN ls /\ ls[j].dst = d
      BY DEF LinksTo
    <3>2. f[j] = IF j < k THEN j ELSE j - 1
      OBVIOUS
    <3>3. j < k \/ j > k
      BY <2>1, <2>3, <2>10, <3>1
    <3> HIDE DEF f
    <3>4. f[j] \in DOMAIN r /\ r[f[j]] = ls[j]
      BY <2>1, <2>3, <2>8, <2>9, <3>1, <3>2, <3>3
    <3> QED
      BY <3>1, <3>4 DEF LinksTo
  <2>12. \A i, j \in S : f[i] = f[j] => i = j
    BY <2>1, <2>3, <2>10
  <2>13. f \in Injection(S, LinksTo(r, d))
    <3>1. f \in [S -> LinksTo(r, d)]
      BY <2>11
    <3> HIDE DEF f
    <3> QED
      BY <2>12, <3>1 DEF Injection, IsInjective
  <2> HIDE DEF f
  <2>14. IsFiniteSet(LinksTo(r, d)) /\ Cardinality(LinksTo(r, d)) \in Nat
    BY <2>2, LinksToFinite
  <2>15. Cardinality(S) <= Cardinality(LinksTo(r, d))
    BY <2>13, <2>14, FS_Injection
  <2>16. Cardinality(S) = IF k \in LinksTo(ls, d) THEN Cardinality(LinksTo(ls, d)) - 1
                          ELSE Cardinality(LinksTo(ls, d))
    BY <1>1, FS_RemoveElement
  <2>17. k \in LinksTo(ls, d) => c = d
    BY <2>1 DEF LinksTo
  <2> HIDE DEF S
  <2> QED
    BY <1>1, <2>14, <2>15, <2>16, <2>17 DEF r
<1> QED
  BY <1>2, <1>3

\* A new local link comes to the front.
LEMMA PushCount ==
    ASSUME NEW ls \in Seq(LocalLinkType), NEW l \in LocalLinkType, NEW d
    PROVE  /\ <<l>> \o ls \in Seq(LocalLinkType)
           /\ Cardinality(LinksTo(<<l>> \o ls, d)) >=
                 IF l.dst = d THEN Cardinality(LinksTo(ls, d)) + 1 ELSE Cardinality(LinksTo(ls, d))
<1> DEFINE r == <<l>> \o ls
           S == LinksTo(ls, d)
           f == [j \in S |-> j + 1]
<1>1. /\ r \in Seq(LocalLinkType) /\ r[1] = l /\ DOMAIN r = 1 .. Len(ls) + 1
      /\ DOMAIN ls = 1 .. Len(ls) /\ Len(ls) \in Nat
      /\ \A j \in DOMAIN ls : j + 1 \in DOMAIN r /\ r[j + 1] = ls[j]
  OBVIOUS
<1>2. S \subseteq 1 .. Len(ls) /\ IsFiniteSet(S) /\ Cardinality(S) \in Nat
  BY LinksToFinite
<1> HIDE DEF r
<1> DEFINE T == LinksTo(r, d)
<1>3. IsFiniteSet(T) /\ Cardinality(T) \in Nat /\ IsFiniteSet(T \ {1})
      /\ Cardinality(T \ {1}) = IF 1 \in T THEN Cardinality(T) - 1 ELSE Cardinality(T)
  BY <1>1, LinksToFinite, FS_RemoveElement
<1>4. ASSUME NEW j \in S PROVE f[j] = j + 1 /\ j + 1 \in T \ {1}
  <2>1. j \in DOMAIN ls /\ ls[j].dst = d /\ j + 1 # 1
    BY <1>2 DEF LinksTo
  <2> QED
    BY <1>1, <2>1 DEF LinksTo
<1>5. \A i, j \in S : i + 1 = j + 1 => i = j
  BY <1>2
<1>6. f \in Injection(S, T \ {1})
  <2>1. f \in [S -> T \ {1}]
    BY <1>4
  <2> HIDE DEF f, T
  <2> QED
    BY <1>4, <1>5, <2>1 DEF Injection, IsInjective
<1> HIDE DEF f, T
<1>7. Cardinality(S) <= Cardinality(T \ {1})
  BY <1>3, <1>6, FS_Injection
<1>8. l.dst = d => 1 \in T
  BY <1>1 DEF LinksTo, T
<1> HIDE DEF S
<1>9. Cardinality(T) >= IF l.dst = d THEN Cardinality(S) + 1 ELSE Cardinality(S)
  BY <1>2, <1>3, <1>7, <1>8
<1> QED
  BY <1>1, <1>9 DEF S, T, r

\* A local link that is refreshed leads to the same node.
LEMMA RefreshCount ==
    ASSUME NEW ls \in Seq(LocalLinkType), NEW c \in Node, NEW d, NEW t \in TabType,
           localAddr \in TabType
    PROVE  /\ RefreshFirst(ls, c, t) \in Seq(LocalLinkType)
           /\ LinksTo(RefreshFirst(ls, c, t), d) = LinksTo(ls, d)
<1>1. CASE LinksTo(ls, c) = {}
  BY <1>1 DEF RefreshFirst
<1>2. CASE LinksTo(ls, c) # {}
  <2> DEFINE k == Least(LinksTo(ls, c))
             l == tc_update_local_link(c, t)
  <2>1. k \in 1 .. Len(ls) /\ ls[k].dst = c
    BY <1>2, FirstLink
  <2>2. l \in LocalLinkType /\ l.dst = c
    BY LinkAliasType DEF tc_update_local_link, LocalLinkType
  <2>3. RefreshFirst(ls, c, t) = [ls EXCEPT ![k] = l]
    BY <1>2 DEF RefreshFirst
  <2> HIDE DEF k, l
  <2> QED
    BY <2>1, <2>2, <2>3 DEF LinksTo
<1> QED
  BY <1>1, <1>2

LEMMA EmptyTabType == EmptyTab \in TabType
BY DEF EmptyTab, TabType

\* A node gets its main address.
LEMMA AddMain ==
    ASSUME NEW N \in SUBSET Node, NEW s, DbOK(s, N), NEW n \in Node \ N, NEW t, NEW h,
           t = [s.tab EXCEPT ![n] = [EmptyTab EXCEPT ![0] = n]],
           h = [s.hash EXCEPT ![n] = << <<n, 0>> >> \o @]
    PROVE  DbOK([tab |-> t, hash |-> h], N \cup {n})
<1>1. n \in Addr /\ n \notin Alias /\ n # NoAddr /\ 0 \in Slots
  BY SlotsNat, NodeAddr
<1>2. s.tab \in [Node -> TabType] /\ s.hash \in [Addr -> Seq(Node \X Slots)] /\ s.hash[n] = <<>>
  BY DEF DbOK
<1>3. << <<n, 0>> >> \o s.hash[n] = << <<n, 0>> >> /\ << <<n, 0>> >> \in Seq(Node \X Slots)
  BY <1>1, <1>2
<1>4. h \in [Addr -> Seq(Node \X Slots)] /\ h[n] = << <<n, 0>> >> /\ \A a \in Addr \ {n} : h[a] = s.hash[a]
  BY <1>1, <1>2, <1>3
<1>5. PICK u : u = [EmptyTab EXCEPT ![0] = n]
  OBVIOUS
<1>6. u \in TabType /\ u[0] = n /\ \A i \in Slots \ {0} : u[i] = NoAddr
  BY <1>1, <1>5 DEF TabType, EmptyTab
<1>7. t \in [Node -> TabType] /\ t[n] = u /\ \A m \in Node \ {n} : t[m] = s.tab[m]
  BY <1>2, <1>5, <1>6
<1>8. \A m \in Node : h[m] = IF m \in N \cup {n} THEN << <<m, 0>> >> ELSE <<>>
  BY <1>4, NodeAddr DEF DbOK
<1>9. \A m \in N \cup {n} : t[m][0] = m
  BY <1>6, <1>7 DEF DbOK
<1>10. \A m \in Node : \A i \in Slots \ {0} : t[m][i] \in Alias \cup {NoAddr}
  BY <1>6, <1>7, ZenonT(40) DEF DbOK
<1>11. ASSUME NEW x \in Alias, NEW i \in DOMAIN h[x] PROVE h[x][i][2] # 0
  <2>1. x \in Addr /\ x # n
    BY <1>1, NodeAddr
  <2>2. h[x] = s.hash[x]
    BY <1>4, <2>1
  <2>3. \A k \in DOMAIN s.hash[x] : s.hash[x][k][2] # 0
    BY DEF DbOK
  <2> QED
    BY <2>2, <2>3
<1> QED
  BY <1>4, <1>7, <1>8, <1>9, <1>10, <1>11 DEF DbOK

\* A node gets an alias, if there is a slot for it.
LEMMA AddSlot ==
    ASSUME NEW N \in SUBSET Node, DbOK(Db, N), NEW n \in Node, NEW x \in Alias,
           tc_add_node_addr(n, x)
    PROVE  DbOK([tab |-> addrTab', hash |-> hash'], N)
<1>0. addrTab \in [Node -> TabType] /\ hash \in [Addr -> Seq(Node \X Slots)]
      /\ Db.tab = addrTab /\ Db.hash = hash
  BY DEF DbOK, Db
<1>1. CASE FreeSlots(addrTab[n]) = {}
  <2>1. addrTab' = addrTab /\ hash' = hash
    BY <1>1 DEF tc_add_node_addr
  <2> QED
    BY <2>1 DEF Db
<1>2. CASE FreeSlots(addrTab[n]) # {}
  <2>1. PICK i : i = Least(FreeSlots(addrTab[n]))
    OBVIOUS
  <2>2. i \in Slots /\ i # 0
    <3>1. FreeSlots(addrTab[n]) \in SUBSET Nat /\ FreeSlots(addrTab[n]) \subseteq Slots \ {0}
      BY SlotsNat DEF FreeSlots
    <3>2. i \in FreeSlots(addrTab[n])
      BY <1>2, <2>1, <3>1, LeastMember
    <3> QED
      BY <3>1, <3>2
  <2>3. x \in Addr /\ x \notin Node /\ x # NoAddr
    BY NodeAddr
  <2>4. addrTab' = [addrTab EXCEPT ![n][i] = x] /\ hash' = [hash EXCEPT ![x] = << <<n, i>> >> \o @]
    BY <1>2, <2>1 DEF tc_add_node_addr
  <2>5. addrTab' \in [Node -> TabType]
        /\ \A m \in Node : \A j \in Slots : addrTab'[m][j] = IF m = n /\ j = i THEN x ELSE addrTab[m][j]
    BY <1>0, <2>2, <2>3, <2>4 DEF TabType
  <2>6. PICK q : q = << <<n, i>> >> \o hash[x]
    OBVIOUS
  <2>7. q \in Seq(Node \X Slots) /\ q[1] = <<n, i>>
        /\ \A j \in DOMAIN q : j = 1 \/ (j - 1 \in DOMAIN hash[x] /\ q[j] = hash[x][j - 1])
    <3>1. hash[x] \in Seq(Node \X Slots) /\ <<n, i>> \in Node \X Slots
      BY <1>0, <2>2, <2>3
    <3> QED
      BY <2>6, <3>1
  <2>8. hash' \in [Addr -> Seq(Node \X Slots)] /\ hash'[x] = q /\ \A a \in Addr \ {x} : hash'[a] = hash[a]
    BY <1>0, <2>3, <2>4, <2>6, <2>7
  <2>9. \A m \in Node : hash'[m] = IF m \in N THEN << <<m, 0>> >> ELSE <<>>
    BY <1>0, <2>3, <2>8, NodeAddr DEF DbOK
  <2>10. ASSUME NEW m \in N PROVE addrTab'[m][0] = m
    <3>1. addrTab[m][0] = m
      BY <1>0 DEF DbOK
    <3> QED
      BY <2>2, <2>5, <3>1, SlotsNat
  <2>11. \A m \in Node : \A j \in Slots \ {0} : addrTab'[m][j] \in Alias \cup {NoAddr}
    BY <1>0, <2>5 DEF DbOK
  <2>12. ASSUME NEW z \in Alias, NEW j \in DOMAIN hash'[z] PROVE hash'[z][j][2] # 0
    <3>1. \A k \in DOMAIN hash[z] : hash[z][k][2] # 0
      BY <1>0 DEF DbOK
    <3>2. CASE z = x
      <4>1. j \in DOMAIN q /\ hash'[z][j] = q[j]
        BY <2>8, <3>2
      <4>2. CASE j = 1
        BY <2>2, <2>7, <4>1, <4>2
      <4>3. CASE j # 1
        BY <2>7, <3>1, <3>2, <4>1, <4>3
      <4> QED
        BY <4>2, <4>3
    <3>3. CASE z # x
      BY <2>8, <3>1, <3>3, NodeAddr
    <3> QED
      BY <3>2, <3>3
  <2>13. PICK d : d = [tab |-> addrTab', hash |-> hash']
    OBVIOUS
  <2>14. d.tab = addrTab' /\ d.hash = hash' /\ d = [tab |-> d.tab, hash |-> d.hash]
    BY <2>13
  <2>15. DbOK(d, N)
    BY <2>5, <2>8, <2>9, <2>10, <2>11, <2>12, <2>14 DEF DbOK
  <2> QED
    BY <2>13, <2>15
<1> QED
  BY <1>1, <1>2

\* What holds of the router whatever commands came: its main addresses are in the
\* hash, its links between nodes, and it has a local link for each link of this host.
RouterOK ==
    /\ nodes \in SUBSET Node /\ DbOK(Db, nodes)
    /\ links \in [Node \X Node -> Nat]
    /\ localAddr \in TabType /\ localLinks \in Seq(LocalLinkType)
    /\ \A n, d \in Node : links[<<n, d>>] > 0 => n \in nodes /\ d \in nodes
    /\ \A d \in Node : links[<<Me, d>>] <= Cardinality(LinksTo(localLinks, d))

Single == \A e \in Node \X Node : links[e] <= 1
View == [nodes |-> nodes, links |-> {e \in Node \X Node : links[e] > 0}]

\* The router after one command about the topology: where the command applies, it
\* holds what After says.
Effect(c) ==
    /\ RouterOK' /\ localAddr' = localAddr
    /\ Single /\ Fine(View, c) => Single' /\ View' = After(View, c)

LEMMA GetNode ==
    ASSUME RouterOK, NEW n \in Node
    PROVE  tc_get_node(n) = IF n \in nodes THEN n ELSE NoAddr
<1>1. hash[n] = IF n \in nodes THEN << <<n, 0>> >> ELSE <<>>
  BY DEF RouterOK, DbOK, Db
<1>2. CASE n \in nodes
  <2>1. hash[n] = << <<n, 0>> >>
    BY <1>1, <1>2
  <2> QED
    BY <1>2, <2>1 DEF tc_get_node
<1>3. CASE n \notin nodes
  <2>1. hash[n] = <<>>
    BY <1>1, <1>3
  <2> QED
    BY <1>3, <2>1 DEF tc_get_node
<1> QED
  BY <1>2, <1>3

LEMMA DbSame ==
    ASSUME DbOK([tab |-> addrTab', hash |-> hash'], nodes')
    PROVE  DbOK(Db, nodes)'
BY DEF DbOK, Db

LEMMA ViewType == RouterOK => View \in Views
BY DEF RouterOK, View, Views

LEMMA NothingDone ==
    ASSUME RouterOK, UNCHANGED tcVars, NEW c, After(View, c) = View
    PROVE  Effect(c)
<1>1. /\ nodes' = nodes /\ addrTab' = addrTab /\ hash' = hash /\ links' = links
      /\ localAddr' = localAddr /\ localLinks' = localLinks
  BY DEF tcVars
<1>2. RouterOK'
  BY <1>1 DEF RouterOK, DbOK, Db, LinksTo
<1>3. View' = View /\ (Single => Single')
  BY <1>1 DEF View, Single
<1> QED
  BY <1>1, <1>2, <1>3 DEF Effect

LEMMA AddNodeEffect ==
    ASSUME RouterOK, NEW c \in TopoCommand, c.type = "ADD_NODE", tc_add_node(c.addr_1)
    PROVE  Effect(c)
<1>1. PICK n \in Node : n = c.addr_1
  BY DEF TopoCommand
<1>2. After(View, c) = [nodes |-> nodes \cup {n}, links |-> View.links]
  BY <1>1 DEF After, View
<1>3. n # NoAddr /\ tc_get_node(n) = IF n \in nodes THEN n ELSE NoAddr
  BY GetNode, NodeAddr
<1>4. CASE n \in nodes
  <2>1. UNCHANGED tcVars
    BY <1>1, <1>3, <1>4 DEF tc_add_node
  <2>2. After(View, c) = View
    <3>1. nodes \cup {n} = nodes
      BY <1>4
    <3> QED
      BY <1>2, <3>1 DEF View
  <2> QED
    BY <2>1, <2>2, NothingDone
<1>5. CASE n \notin nodes
  <2>1. /\ addrTab' = [addrTab EXCEPT ![n] = [EmptyTab EXCEPT ![0] = n]]
        /\ hash' = [hash EXCEPT ![n] = << <<n, 0>> >> \o @]
        /\ nodes' = nodes \cup {n} /\ links' = links
        /\ localAddr' = localAddr /\ localLinks' = localLinks
    BY <1>1, <1>3, <1>5 DEF tc_add_node
  <2>2. DbOK([tab |-> addrTab', hash |-> hash'], nodes \cup {n})
    <3>1. Db.tab = addrTab /\ Db.hash = hash
      BY DEF Db
    <3>2. DbOK(Db, nodes) /\ nodes \in SUBSET Node
      BY DEF RouterOK
    <3> QED
      BY <1>5, <2>1, <3>1, <3>2, AddMain
  <2>3. DbOK(Db, nodes)'
    BY <2>1, <2>2, DbSame
  <2>4. RouterOK'
    BY <2>1, <2>3 DEF RouterOK, LinksTo
  <2>5. View' = After(View, c) /\ (Single => Single')
    BY <1>2, <2>1 DEF View, Single
  <2> QED
    BY <2>1, <2>4, <2>5 DEF Effect
<1> QED
  BY <1>4, <1>5

LEMMA RemoveNodeEffect ==
    ASSUME RouterOK, localAddr[0] = Me, NEW c \in TopoCommand, c.type = "REMOVE_NODE",
           tc_remove_node(c.addr_1)
    PROVE  Effect(c)
<1>1. PICK n \in Node : n = c.addr_1
  BY DEF TopoCommand
<1>2. After(View, c) = [nodes |-> nodes \ {n},
                        links |-> {e \in View.links : e[1] # n /\ e[2] # n}]
  BY <1>1 DEF After, View
<1>3. n # NoAddr /\ tc_get_node(n) = IF n \in nodes THEN n ELSE NoAddr
  BY GetNode, NodeAddr
<1>4. /\ links \in [Node \X Node -> Nat] /\ localLinks \in Seq(LocalLinkType)
      /\ \A m, d \in Node : links[<<m, d>>] > 0 => m \in nodes /\ d \in nodes
      /\ \A d \in Node : links[<<Me, d>>] <= Cardinality(LinksTo(localLinks, d))
  BY DEF RouterOK
<1>5. CASE n \notin nodes
  <2>1. UNCHANGED tcVars
    BY <1>1, <1>3, <1>5 DEF tc_remove_node
  <2>2. RouterOK' /\ localAddr' = localAddr
    BY <2>1 DEF RouterOK, DbOK, Db, LinksTo, tcVars
  <2>3. ~Fine(View, c)
    BY <1>1, <1>5 DEF Fine, View
  <2> QED
    BY <2>2, <2>3 DEF Effect
<1>6. CASE n \in nodes
  <2>1. PICK s : s = RmvAllSlots(n)
    OBVIOUS
  <2>2. /\ nodes' = nodes \ {n} /\ addrTab' = s.tab /\ hash' = s.hash
        /\ links' = [e \in Node \X Node |-> IF n \in {e[1], e[2]} THEN 0 ELSE links[e]]
        /\ localLinks' = IF n = localAddr[0] THEN <<>> ELSE DropFirst(localLinks, n)
        /\ localAddr' = localAddr
    BY <1>1, <1>3, <1>6, <2>1 DEF tc_remove_node
  <2>3. DbOK(s, nodes \ {n})
    BY <1>6, <2>1, RmvAll DEF RouterOK
  <2>4. DbOK(Db, nodes)'
    <3>1. s = [tab |-> s.tab, hash |-> s.hash]
      BY <2>3 DEF DbOK
    <3>2. DbOK([tab |-> addrTab', hash |-> hash'], nodes')
      BY <2>2, <2>3, <3>1
    <3> QED
      BY <3>2, DbSame
  <2>5. links' \in [Node \X Node -> Nat]
        /\ \A m, d \in Node : links'[<<m, d>>] = IF n = m \/ n = d THEN 0 ELSE links[<<m, d>>]
    BY <1>4, <2>2
  <2>6. \A m, d \in Node : links'[<<m, d>>] > 0 => m \in nodes' /\ d \in nodes'
    BY <1>4, <2>2, <2>5
  <2>7. localLinks' \in Seq(LocalLinkType)
        /\ \A d \in Node : links'[<<Me, d>>] <= Cardinality(LinksTo(localLinks', d))
    <3>1. CASE n = Me
      <4>1. localLinks' = <<>>
        BY <2>2, <3>1
      <4>2. \A d \in Node : links'[<<Me, d>>] = 0
        BY <2>5, <3>1, NodeAddr
      <4>3. \A d \in Node : Cardinality(LinksTo(localLinks', d)) \in Nat
        <5>1. <<>> \in Seq(LocalLinkType)
          OBVIOUS
        <5>2. \A d \in Node : Cardinality(LinksTo(<<>>, d)) \in Nat
          BY <5>1, LinksToFinite
        <5> QED
          BY <4>1, <5>2
      <4> QED
        BY <4>1, <4>2, <4>3
    <3>2. CASE n # Me
      <4>1. localLinks' = DropFirst(localLinks, n) /\ localLinks' \in Seq(LocalLinkType)
        BY <1>4, <2>2, <3>2, DropFirstType
      <4>2. ASSUME NEW d \in Node
            PROVE  links'[<<Me, d>>] <= Cardinality(LinksTo(localLinks', d))
        <5>1. Cardinality(LinksTo(localLinks', d)) \in Nat /\ links[<<Me, d>>] \in Nat
              /\ Cardinality(LinksTo(localLinks, d)) \in Nat
          BY <1>4, <4>1, LinksToFinite, NodeAddr
        <5>2. links[<<Me, d>>] <= Cardinality(LinksTo(localLinks, d))
          BY DEF RouterOK
        <5>3. CASE n = d
          BY <2>5, <5>1, <5>3, NodeAddr
        <5>4. CASE n # d
          <6>1. links'[<<Me, d>>] = links[<<Me, d>>]
            BY <2>5, <3>2, <5>4, NodeAddr
          <6>2. Cardinality(LinksTo(localLinks', d)) >= Cardinality(LinksTo(localLinks, d))
            BY <1>4, <4>1, <5>4, DropCount
          <6> QED
            BY <5>1, <5>2, <6>1, <6>2
        <5> QED
          BY <5>3, <5>4
      <4> QED
        BY <4>1, <4>2
    <3> QED
      BY <3>1, <3>2
  <2>8. RouterOK'
    BY <2>2, <2>4, <2>5, <2>6, <2>7 DEF RouterOK
  <2>9. ASSUME Single PROVE Single' /\ View' = After(View, c)
    <3>1. \A e \in Node \X Node : links'[e] = IF n = e[1] \/ n = e[2] THEN 0 ELSE links[e]
      BY <2>2
    <3>2. Single'
      BY <2>9, <3>1 DEF Single
    <3>3. {e \in Node \X Node : links'[e] > 0} = {e \in View.links : e[1] # n /\ e[2] # n}
      BY <1>4, <3>1 DEF View
    <3> QED
      BY <1>2, <2>2, <3>2, <3>3 DEF View
  <2> QED
    BY <2>2, <2>8, <2>9 DEF Effect
<1> QED
  BY <1>5, <1>6

LEMMA AliasEffect ==
    ASSUME RouterOK, NEW c \in TopoCommand,
           \/ c.type = "ADD_ALIAS" /\ tc_add_alias(c.addr_1, c.addr_2)
           \/ c.type = "REMOVE_ALIAS" /\ tc_remove_alias(c.addr_1, c.addr_2)
    PROVE  Effect(c)
<1>1. PICK n \in Node, x \in Alias : n = c.addr_1 /\ x = c.addr_2
  BY DEF TopoCommand, AliasType
<1>2. After(View, c) = View
  BY DEF After, View
<1>3. n # NoAddr /\ tc_get_node(n) = IF n \in nodes THEN n ELSE NoAddr
  BY GetNode, NodeAddr
<1>4. CASE n \notin nodes
  <2>1. UNCHANGED tcVars
    BY <1>1, <1>3, <1>4 DEF tc_add_alias, tc_remove_alias
  <2> QED
    BY <1>2, <2>1, NothingDone
<1>5. CASE n \in nodes
  <2>1. nodes' = nodes /\ links' = links /\ localAddr' = localAddr
    BY <1>1, <1>3, <1>5 DEF tc_add_alias, tc_remove_alias
  <2>2. DbOK([tab |-> addrTab', hash |-> hash'], nodes)
        /\ localLinks' = RefreshFirst(localLinks, n, addrTab'[n])
    <3>1. CASE c.type = "ADD_ALIAS"
      <4>1. tc_add_node_addr(n, x) /\ localLinks' = RefreshFirst(localLinks, n, addrTab'[n])
        BY <1>1, <1>3, <1>5, <3>1 DEF tc_add_alias
      <4> QED
        BY <4>1, AddSlot DEF RouterOK
    <3>2. CASE c.type = "REMOVE_ALIAS"
      <4>1. PICK s : s = tc_rmv_node_addr(Db, x)
        OBVIOUS
      <4>2. addrTab' = s.tab /\ hash' = s.hash /\ localLinks' = RefreshFirst(localLinks, n, s.tab[n])
        BY <1>1, <1>3, <1>5, <3>2, <4>1 DEF tc_remove_alias, Db
      <4>3. DbOK(s, nodes)
        BY <4>1, RmvAlias DEF RouterOK
      <4>4. s = [tab |-> s.tab, hash |-> s.hash]
        BY <4>3 DEF DbOK
      <4> QED
        BY <4>2, <4>3, <4>4
    <3> QED
      BY <3>1, <3>2
  <2>3. DbOK(Db, nodes)'
    BY <2>1, <2>2, DbSame
  <2>4. addrTab'[n] \in TabType
    <3>1. addrTab' \in [Node -> TabType]
      BY <2>3 DEF DbOK, Db
    <3> QED
      BY <3>1
  <2>5. localLinks' \in Seq(LocalLinkType)
        /\ \A d \in Node : LinksTo(localLinks', d) = LinksTo(localLinks, d)
    BY <2>2, <2>4, RefreshCount DEF RouterOK
  <2>6. RouterOK'
    BY <2>1, <2>3, <2>5 DEF RouterOK
  <2>7. View' = View /\ (Single => Single')
    BY <2>1 DEF View, Single
  <2> QED
    BY <1>2, <2>1, <2>6, <2>7 DEF Effect
<1> QED
  BY <1>4, <1>5

LEMMA AddLinkEffect ==
    ASSUME RouterOK, localAddr[0] = Me, NEW c \in TopoCommand, c.type = "ADD_LINK",
           tc_add_link(c.addr_1, c.addr_2)
    PROVE  Effect(c)
<1>1. PICK n \in Node, m \in Node : n = c.addr_1 /\ m = c.addr_2
  BY DEF TopoCommand, LinkType
<1>2. After(View, c) = [nodes |-> nodes, links |-> View.links \cup {<<n, m>>}]
  BY <1>1 DEF After, View
<1>3. /\ n # NoAddr /\ tc_get_node(n) = IF n \in nodes THEN n ELSE NoAddr
      /\ m # NoAddr /\ tc_get_node(m) = IF m \in nodes THEN m ELSE NoAddr
  BY GetNode, NodeAddr
<1>4. /\ nodes' = nodes /\ addrTab' = addrTab /\ hash' = hash /\ localAddr' = localAddr
  BY DEF tc_add_link
<1>5. DbOK(Db, nodes)'
  BY <1>4 DEF RouterOK, DbOK, Db
<1>6. links \in [Node \X Node -> Nat] /\ localLinks \in Seq(LocalLinkType) /\ localAddr \in TabType
      /\ <<n, m>> \in Node \X Node
  BY DEF RouterOK
<1>7. CASE n \notin nodes \/ m \notin nodes
  <2>1. links' = links /\ localLinks' = localLinks
    BY <1>1, <1>3, <1>7 DEF tc_add_link
  <2>2. RouterOK'
    BY <1>4, <1>5, <2>1 DEF RouterOK, LinksTo
  <2>3. ~Fine(View, c)
    BY <1>1, <1>7 DEF Fine, View
  <2> QED
    BY <1>4, <2>2, <2>3 DEF Effect
<1>8. CASE n \in nodes /\ m \in nodes
  <2>1. PICK l : l = tc_update_local_link(m, addrTab[m])
    OBVIOUS
  <2>2. /\ localLinks' = IF n = Me THEN <<l>> \o localLinks ELSE localLinks
        /\ links' = [links EXCEPT ![<<n, m>>] = @ + 1]
    <3>1. tc_get_node(n) = n /\ tc_get_node(m) = m /\ n # NoAddr /\ m # NoAddr
      BY <1>3, <1>8
    <3>2. tc_add_link(n, m)
      BY <1>1
    <3> QED
      BY <2>1, <3>1, <3>2 DEF tc_add_link
  <2>3. l \in LocalLinkType /\ l.dst = m
    <3>1. addrTab[m] \in TabType
      BY DEF RouterOK, DbOK, Db
    <3> QED
      BY <1>6, <2>1, <3>1, LinkAliasType DEF tc_update_local_link, LocalLinkType
  <2>4. links' \in [Node \X Node -> Nat]
        /\ \A e \in Node \X Node : links'[e] = IF e = <<n, m>> THEN links[e] + 1 ELSE links[e]
    <3>1. links[<<n, m>>] \in Nat /\ links[<<n, m>>] + 1 \in Nat
      BY <1>6
    <3>2. PICK k \in Nat : k = links[<<n, m>>] + 1
      BY <3>1
    <3>3. links' = [links EXCEPT ![<<n, m>>] = k]
      BY <2>2, <3>2
    <3> QED
      BY <1>6, <3>2, <3>3
  <2>5. \A a, d \in Node : links'[<<a, d>>] > 0 => a \in nodes' /\ d \in nodes'
    <3> SUFFICES ASSUME NEW a \in Node, NEW d \in Node, links'[<<a, d>>] > 0
                 PROVE  a \in nodes /\ d \in nodes
      BY <1>4
    <3>1. CASE <<a, d>> = <<n, m>>
      BY <1>8, <3>1
    <3>2. CASE <<a, d>> # <<n, m>>
      <4>1. links[<<a, d>>] > 0
        BY <2>4, <3>2
      <4> QED
        BY <4>1 DEF RouterOK
    <3> QED
      BY <3>1, <3>2
  <2>6. localLinks' \in Seq(LocalLinkType)
    <3>1. <<l>> \o localLinks \in Seq(LocalLinkType)
      BY <1>6, <2>3, PushCount
    <3> QED
      BY <1>6, <2>2, <3>1
  <2>7. ASSUME NEW d \in Node PROVE links'[<<Me, d>>] <= Cardinality(LinksTo(localLinks', d))
    <3>1. <<Me, d>> \in Node \X Node
      BY NodeAddr
    <3>2. links[<<Me, d>>] \in Nat /\ links[<<Me, d>>] <= Cardinality(LinksTo(localLinks, d))
      BY <1>6, <3>1 DEF RouterOK
    <3>3. Cardinality(LinksTo(localLinks, d)) \in Nat /\ Cardinality(LinksTo(localLinks', d)) \in Nat
      BY <1>6, <2>6, LinksToFinite
    <3>4. CASE n = Me
      <4>1. Cardinality(LinksTo(localLinks', d)) >=
               IF m = d THEN Cardinality(LinksTo(localLinks, d)) + 1
               ELSE Cardinality(LinksTo(localLinks, d))
        BY <1>6, <2>2, <2>3, <3>4, PushCount
      <4>2. links'[<<Me, d>>] = IF m = d THEN links[<<Me, d>>] + 1 ELSE links[<<Me, d>>]
        BY <2>4, <3>1, <3>4
      <4> QED
        BY <3>2, <3>3, <4>1, <4>2
    <3>5. CASE n # Me
      <4>1. links'[<<Me, d>>] = links[<<Me, d>>] /\ localLinks' = localLinks
        <5>1. <<Me, d>> # <<n, m>>
          BY <3>5
        <5>2. links'[<<Me, d>>] = links[<<Me, d>>]
          BY <2>4, <3>1, <5>1
        <5> QED
          BY <2>2, <3>5, <5>2
      <4> QED
        BY <3>2, <4>1
    <3> QED
      BY <3>4, <3>5
  <2>8. RouterOK'
    BY <1>4, <1>5, <1>6, <2>4, <2>5, <2>6, <2>7 DEF RouterOK
  <2>9. ASSUME Single, Fine(View, c) PROVE Single' /\ View' = After(View, c)
    <3>1. <<n, m>> \notin View.links /\ <<n, m>> \in Node \X Node
      BY <1>1, <2>9 DEF Fine
    <3>2. links[<<n, m>>] = 0
      BY <1>6, <3>1 DEF View
    <3>3. \A e \in Node \X Node : links'[e] = IF e = <<n, m>> THEN 1 ELSE links[e]
      BY <2>4, <3>2
    <3>4. Single'
      BY <2>9, <3>3 DEF Single
    <3>5. {e \in Node \X Node : links'[e] > 0} = View.links \cup {<<n, m>>}
      BY <3>1, <3>3 DEF View
    <3> QED
      BY <1>2, <1>4, <3>4, <3>5 DEF View
  <2> QED
    BY <1>4, <2>8, <2>9 DEF Effect
<1> QED
  BY <1>7, <1>8

LEMMA RemoveLinkEffect ==
    ASSUME RouterOK, localAddr[0] = Me, NEW c \in TopoCommand, c.type = "REMOVE_LINK",
           tc_remove_link(c.addr_1, c.addr_2)
    PROVE  Effect(c)
<1>1. PICK n \in Node, m \in Node : n = c.addr_1 /\ m = c.addr_2
  BY DEF TopoCommand, LinkType
<1>2. After(View, c) = [nodes |-> nodes, links |-> View.links \ {<<n, m>>}]
  BY <1>1 DEF After, View
<1>3. n # NoAddr /\ tc_get_node(n) = IF n \in nodes THEN n ELSE NoAddr
  BY GetNode, NodeAddr
<1>4. /\ nodes' = nodes /\ addrTab' = addrTab /\ hash' = hash /\ localAddr' = localAddr
  BY DEF tc_remove_link
<1>5. DbOK(Db, nodes)'
  BY <1>4 DEF RouterOK, DbOK, Db
<1>6. links \in [Node \X Node -> Nat] /\ localLinks \in Seq(LocalLinkType) /\ localAddr \in TabType
      /\ <<n, m>> \in Node \X Node
  BY DEF RouterOK
<1>7. CASE n \notin nodes \/ links[<<n, m>>] = 0
  <2>1. links' = links /\ localLinks' = localLinks
    BY <1>1, <1>3, <1>7 DEF tc_remove_link
  <2>2. links[<<n, m>>] = 0
    <3>1. links[<<n, m>>] > 0 => n \in nodes
      BY DEF RouterOK
    <3>2. links[<<n, m>>] \in Nat
      BY <1>6
    <3> QED
      BY <1>7, <3>1, <3>2
  <2>3. After(View, c) = View
    <3>1. <<n, m>> \notin View.links
      BY <2>2 DEF View
    <3>2. View.links \ {<<n, m>>} = View.links
      BY <3>1
    <3> QED
      BY <1>2, <3>2 DEF View
  <2>4. RouterOK'
    BY <1>4, <1>5, <2>1 DEF RouterOK, LinksTo
  <2>5. View' = View /\ (Single => Single')
    BY <1>4, <2>1 DEF View, Single
  <2> QED
    BY <1>4, <2>3, <2>4, <2>5 DEF Effect
<1>8. CASE n \in nodes /\ links[<<n, m>>] # 0
  <2>1. links' = [links EXCEPT ![<<n, m>>] = @ - 1]
        /\ localLinks' = IF n = Me THEN DropFirst(localLinks, m) ELSE localLinks
    BY <1>1, <1>3, <1>8 DEF tc_remove_link
  <2>2. links[<<n, m>>] \in Nat \ {0}
    BY <1>6, <1>8
  <2>3. links' \in [Node \X Node -> Nat]
        /\ \A e \in Node \X Node : links'[e] = IF e = <<n, m>> THEN links[e] - 1 ELSE links[e]
    <3>2. PICK k \in Nat : k = links[<<n, m>>] - 1
      BY <2>2
    <3>3. links' = [links EXCEPT ![<<n, m>>] = k]
      BY <2>1, <3>2
    <3> QED
      BY <1>6, <3>2, <3>3
  <2>4. \A a, d \in Node : links'[<<a, d>>] > 0 => a \in nodes' /\ d \in nodes'
    <3> SUFFICES ASSUME NEW a \in Node, NEW d \in Node, links'[<<a, d>>] > 0
                 PROVE  a \in nodes /\ d \in nodes
      BY <1>4
    <3>1. links[<<a, d>>] > 0
      BY <1>6, <2>2, <2>3
    <3> QED
      BY <3>1 DEF RouterOK
  <2>5. localLinks' \in Seq(LocalLinkType)
    BY <1>6, <2>1, DropFirstType
  <2>6. ASSUME NEW d \in Node PROVE links'[<<Me, d>>] <= Cardinality(LinksTo(localLinks', d))
    <3>1. <<Me, d>> \in Node \X Node
      BY NodeAddr
    <3>2. links[<<Me, d>>] \in Nat /\ links[<<Me, d>>] <= Cardinality(LinksTo(localLinks, d))
      BY <1>6, <3>1 DEF RouterOK
    <3>3. Cardinality(LinksTo(localLinks, d)) \in Nat /\ Cardinality(LinksTo(localLinks', d)) \in Nat
      BY <1>6, <2>5, LinksToFinite
    <3>4. CASE n = Me
      <4>1. Cardinality(LinksTo(localLinks', d)) >=
               IF m = d THEN Cardinality(LinksTo(localLinks, d)) - 1
               ELSE Cardinality(LinksTo(localLinks, d))
        BY <1>6, <2>1, <3>4, DropCount
      <4>2. links'[<<Me, d>>] = IF m = d THEN links[<<Me, d>>] - 1 ELSE links[<<Me, d>>]
        BY <2>3, <3>1, <3>4
      <4> QED
        BY <3>2, <3>3, <4>1, <4>2
    <3>5. CASE n # Me
      <4>1. links'[<<Me, d>>] = links[<<Me, d>>] /\ localLinks' = localLinks
        <5>1. <<Me, d>> # <<n, m>>
          BY <3>5
        <5>2. links'[<<Me, d>>] = links[<<Me, d>>]
          BY <2>3, <3>1, <5>1
        <5> QED
          BY <2>1, <3>5, <5>2
      <4> QED
        BY <3>2, <4>1
    <3> QED
      BY <3>4, <3>5
  <2>7. RouterOK'
    BY <1>4, <1>5, <1>6, <2>3, <2>4, <2>5, <2>6 DEF RouterOK
  <2>8. ASSUME Single PROVE Single' /\ View' = After(View, c)
    <3>1. links[<<n, m>>] = 1
      BY <1>6, <2>2, <2>8 DEF Single
    <3>2. \A e \in Node \X Node : links'[e] = IF e = <<n, m>> THEN 0 ELSE links[e]
      BY <2>3, <3>1
    <3>3. Single'
      BY <2>8, <3>2 DEF Single
    <3>4. {e \in Node \X Node : links'[e] > 0} = View.links \ {<<n, m>>}
      BY <3>2 DEF View
    <3> QED
      BY <1>2, <1>4, <3>3, <3>4 DEF View
  <2> QED
    BY <1>4, <2>7, <2>8 DEF Effect
<1> QED
  BY <1>7, <1>8

\* Whatever the command, what the router makes of it is what After says.
LEMMA TopoEffect ==
    ASSUME RouterOK, localAddr[0] = Me, NEW c \in TopoCommand, Apply(c)
    PROVE  Effect(c)
<1>1. CASE c.type = "ADD_NODE"
  BY <1>1, AddNodeEffect DEF Apply
<1>2. CASE c.type = "REMOVE_NODE"
  BY <1>2, RemoveNodeEffect DEF Apply
<1>3. CASE c.type = "ADD_LINK"
  BY <1>3, AddLinkEffect DEF Apply
<1>4. CASE c.type = "REMOVE_LINK"
  BY <1>4, RemoveLinkEffect DEF Apply
<1>5. CASE c.type = "ADD_ALIAS"
  BY <1>5, AliasEffect DEF Apply
<1>6. CASE c.type = "REMOVE_ALIAS"
  BY <1>6, AliasEffect DEF Apply
<1> QED
  BY <1>1, <1>2, <1>3, <1>4, <1>5, <1>6 DEF TopoCommand, TopoType

-----------------------------------------------------------------------------
(* The local addresses come first *)

Prologue == dev_send_init
PrologueLen == Len(Prologue)

\* The prologue: a reset, the main address and each other address of this host once.
LEMMA PrologueFields ==
    /\ Prologue \in Seq(Command) /\ PrologueLen = Cardinality(MyAliases) + 2
    /\ Cardinality(MyAliases) \in Nat
    /\ Prologue[1] = Cmd("RESET_TC", NoAddr, NoAddr)
    /\ Prologue[2] = Cmd("SET_LOCAL_ADDR", Me, NoAddr)
    /\ \A k \in 3 .. PrologueLen : Prologue[k].type = "SET_ALIAS_ADDR" /\ Prologue[k].addr_1 \in MyAliases
    /\ \A x \in MyAliases : \E k \in 3 .. PrologueLen : Prologue[k].addr_1 = x
    /\ Prologue = << Cmd("RESET_TC", NoAddr, NoAddr), Cmd("SET_LOCAL_ADDR", Me, NoAddr) >>
                  \o Block("SET_ALIAS_ADDR", MyAliases \X {NoAddr})
<1> DEFINE S == MyAliases \X {NoAddr}
           q == SetToSeq(S)
           b == Block("SET_ALIAS_ADDR", S)
           c1 == Cmd("RESET_TC", NoAddr, NoAddr)
           c2 == Cmd("SET_LOCAL_ADDR", Me, NoAddr)
           C == Cardinality(MyAliases)
<1>1. IsFiniteSet(MyAliases) /\ C \in Nat
  BY PluginAssumption, NodeAddr, FS_Subset, FS_CardinalityType
<1>2. IsFiniteSet(S) /\ Cardinality(S) = C
  <2>1. IsFiniteSet({NoAddr}) /\ Cardinality({NoAddr}) = 1
    BY FS_Singleton
  <2>2. IsFiniteSet(S) /\ Cardinality(S) = C * 1
    BY <1>1, <2>1, FS_Product
  <2> QED
    BY <1>1, <2>2
<1>3. S \in SUBSET (Addr \X (Addr \cup {NoAddr})) /\ "SET_ALIAS_ADDR" \in TopoType \cup LocalType
  BY NodeAddr DEF LocalType
<1> HIDE DEF S, c1, c2, C
<1>4. /\ b \in Seq(Command) /\ Len(b) = Len(q)
      /\ \A i \in 1 .. Len(q) : /\ q[i] \in S /\ b[i].type = "SET_ALIAS_ADDR"
                                /\ b[i].addr_1 = q[i][1]
  BY <1>2, <1>3, BlockFields
<1>5. Len(q) = C /\ DOMAIN q = 1 .. C /\ \A e \in S : \E i \in DOMAIN q : q[i] = e
  BY <1>2, Enumerated
<1>6. c1 \in Command /\ c2 \in Command
  BY NodeAddr DEF Cmd, Command, LocalType, c1, c2
<1>7. Prologue = <<c1, c2>> \o b
  BY AppendBlock DEF Prologue, dev_send_init, S, c1, c2
<1> HIDE DEF b, q
<1>8. ASSUME NEW i \in 1 .. C PROVE b[i].type = "SET_ALIAS_ADDR" /\ b[i].addr_1 \in MyAliases
  <2>1. q[i] \in S /\ b[i].type = "SET_ALIAS_ADDR" /\ b[i].addr_1 = q[i][1]
    BY <1>4, <1>5
  <2> QED
    BY <2>1 DEF S
<1>9. ASSUME NEW x \in MyAliases PROVE \E i \in 1 .. C : b[i].addr_1 = x
  <2>1. <<x, NoAddr>> \in S
    BY DEF S
  <2>2. PICK i \in 1 .. C : q[i] = <<x, NoAddr>>
    BY <1>5, <2>1
  <2>3. b[i].addr_1 = x
    BY <1>4, <1>5, <2>2
  <2> QED
    BY <2>3
<1>10. /\ Prologue \in Seq(Command) /\ Len(Prologue) = C + 2
       /\ Prologue[1] = c1 /\ Prologue[2] = c2
       /\ \A i \in 1 .. C : Prologue[i + 2] = b[i]
  BY <1>1, <1>4, <1>5, <1>6, <1>7, SMTT(30)
<1>11. \A k \in 3 .. C + 2 : Prologue[k].type = "SET_ALIAS_ADDR" /\ Prologue[k].addr_1 \in MyAliases
  <2> SUFFICES ASSUME NEW k \in 3 .. C + 2
               PROVE  Prologue[k].type = "SET_ALIAS_ADDR" /\ Prologue[k].addr_1 \in MyAliases
    OBVIOUS
  <2>1. k - 2 \in 1 .. C /\ (k - 2) + 2 = k
    BY <1>1
  <2>2. Prologue[k] = b[k - 2]
    BY <1>10, <2>1
  <2> QED
    BY <1>8, <2>1, <2>2
<1>12. ASSUME NEW x \in MyAliases PROVE \E k \in 3 .. C + 2 : Prologue[k].addr_1 = x
  <2>1. PICK i \in 1 .. C : b[i].addr_1 = x
    BY <1>9
  <2>2. i + 2 \in 3 .. C + 2 /\ Prologue[i + 2] = b[i]
    BY <1>1, <1>10
  <2> QED
    BY <2>1, <2>2
<1> QED
  BY <1>1, <1>7, <1>10, <1>11, <1>12 DEF PrologueLen, C, c1, c2, b, S

\* what the j commands of the prologue that were applied have left, and what is
\* on its way
Fit == Cardinality(MyAliases) < MaxAddr
Slot(j, i) == IF i + 2 <= j THEN Prologue[i + 2].addr_1 ELSE NoAddr
Ahead(j, cs) ==
    /\ PrologueLen - j <= Len(cs)
    /\ \A i \in 1 .. PrologueLen - j : cs[i] = Prologue[i + j]
    /\ \A i \in PrologueLen - j + 1 .. Len(cs) : cs[i] \in TopoCommand

Announced(j) ==
    /\ localAddr[0] = IF j >= 2 THEN Me ELSE NoAddr
    /\ Fit => \A i \in Slots \ {0} : localAddr[i] = Slot(j, i)
    /\ j < PrologueLen => nodes = {}
    /\ connected => Ahead(j, chan)

\* What comes behind the commands on their way are topology commands.
LEMMA AheadOn ==
    ASSUME NEW j \in 0 .. PrologueLen, NEW cs \in Seq(Command), Ahead(j, cs), NEW ds \in Seq(TopoCommand)
    PROVE  Ahead(j, cs \o ds)
<1>1. PrologueLen \in Nat /\ Len(cs) \in Nat /\ Len(ds) \in Nat
  BY PrologueFields
<1>2. ds \in Seq(Command)
  BY TopoSeq
<1>3. PICK es : es = cs \o ds
  OBVIOUS
<1>4. /\ Len(es) = Len(cs) + Len(ds)
      /\ \A i \in 1 .. Len(cs) + Len(ds) : es[i] = IF i <= Len(cs) THEN cs[i] ELSE ds[i - Len(cs)]
  BY <1>2, <1>3
<1>5. PrologueLen - j <= Len(es) /\ \A i \in 1 .. PrologueLen - j : es[i] = Prologue[i + j]
  <2>1. PrologueLen - j <= Len(cs) /\ PrologueLen - j \in Int
    BY <1>1 DEF Ahead
  <2>2. PrologueLen - j <= Len(es)
    BY <1>1, <1>4, <2>1
  <2>3. ASSUME NEW i \in 1 .. PrologueLen - j PROVE es[i] = Prologue[i + j]
    <3>1. i \in 1 .. Len(cs) + Len(ds) /\ i <= Len(cs)
      BY <1>1, <2>1
    <3>2. es[i] = cs[i]
      BY <1>4, <3>1
    <3>3. cs[i] = Prologue[i + j]
      BY DEF Ahead
    <3> QED
      BY <3>2, <3>3
  <2> QED
    BY <2>2, <2>3
<1>6. ASSUME NEW i \in PrologueLen - j + 1 .. Len(es) PROVE es[i] \in TopoCommand
  <2>1. i \in 1 .. Len(cs) + Len(ds)
    BY <1>1, <1>4
  <2>2. CASE i <= Len(cs)
    <3>1. i \in PrologueLen - j + 1 .. Len(cs)
      BY <1>1, <2>1, <2>2
    <3> QED
      BY <1>4, <2>1, <2>2, <3>1 DEF Ahead
  <2>3. CASE ~(i <= Len(cs))
    <3>1. i - Len(cs) \in 1 .. Len(ds)
      BY <1>1, <2>1, <2>3
    <3>2. es[i] = ds[i - Len(cs)]
      BY <1>4, <2>1, <2>3
    <3> QED
      BY <3>1, <3>2
  <2> QED
    BY <2>2, <2>3
<1> QED
  BY <1>3, <1>5, <1>6 DEF Ahead

LEMMA AheadNext ==
    ASSUME NEW j \in 0 .. PrologueLen, NEW cs \in Seq(Command), Ahead(j, cs), cs # <<>>
    PROVE  /\ j < PrologueLen => Head(cs) = Prologue[j + 1] /\ Ahead(j + 1, Tail(cs))
           /\ j = PrologueLen => Head(cs) \in TopoCommand /\ Ahead(j, Tail(cs))
<1>1. PrologueLen \in Nat /\ Len(cs) \in Nat \ {0}
  BY PrologueFields
<1>2. PICK ds : ds = Tail(cs)
  OBVIOUS
<1>3. Head(cs) = cs[1] /\ Len(ds) = Len(cs) - 1 /\ \A i \in 1 .. Len(cs) - 1 : ds[i] = cs[i + 1]
  BY <1>2
<1>4. CASE j < PrologueLen
  <2>1. Head(cs) = Prologue[j + 1]
    <3>1. 1 \in 1 .. PrologueLen - j /\ 1 + j = j + 1
      BY <1>1, <1>4
    <3> QED
      BY <1>3, <3>1 DEF Ahead
  <2>2. PrologueLen - (j + 1) <= Len(ds)
    BY <1>1, <1>3 DEF Ahead
  <2>3. ASSUME NEW i \in 1 .. PrologueLen - (j + 1) PROVE ds[i] = Prologue[i + (j + 1)]
    <3>1. i \in 1 .. Len(cs) - 1 /\ i + 1 \in 1 .. PrologueLen - j /\ (i + 1) + j = i + (j + 1)
      BY <1>1, <1>3, <2>2
    <3> QED
      BY <1>3, <3>1 DEF Ahead
  <2>4. ASSUME NEW i \in PrologueLen - (j + 1) + 1 .. Len(ds) PROVE ds[i] \in TopoCommand
    <3>1. i \in 1 .. Len(cs) - 1 /\ i + 1 \in PrologueLen - j + 1 .. Len(cs)
      BY <1>1, <1>3, <1>4
    <3> QED
      BY <1>3, <3>1 DEF Ahead
  <2> QED
    BY <1>1, <1>2, <1>4, <2>1, <2>2, <2>3, <2>4 DEF Ahead
<1>5. CASE j = PrologueLen
  <2>1. Head(cs) \in TopoCommand
    <3>1. 1 \in PrologueLen - j + 1 .. Len(cs)
      BY <1>1, <1>5
    <3> QED
      BY <1>3, <3>1 DEF Ahead
  <2>2. PrologueLen - j = 0 /\ PrologueLen - j <= Len(ds)
    BY <1>1, <1>3, <1>5
  <2>3. ASSUME NEW i \in PrologueLen - j + 1 .. Len(ds) PROVE ds[i] \in TopoCommand
    <3>1. i \in 1 .. Len(cs) - 1 /\ i + 1 \in PrologueLen - j + 1 .. Len(cs)
      BY <1>1, <1>3, <1>5
    <3> QED
      BY <1>3, <3>1 DEF Ahead
  <2>4. \A i \in 1 .. PrologueLen - j : ds[i] = Prologue[i + j]
    BY <2>2
  <2> QED
    BY <1>1, <1>2, <1>5, <2>1, <2>2, <2>3, <2>4 DEF Ahead
<1> QED
  BY <1>1, <1>4, <1>5

Nowhere == [nodes |-> {}, links |-> {}]

LEMMA EmptyDb ==
    ASSUME NEW t, t = [n \in Node |-> EmptyTab], NEW h, h = [a \in Addr |-> <<>>]
    PROVE  DbOK([tab |-> t, hash |-> h], {})
<1>1. PICK d : d = [tab |-> t, hash |-> h]
  OBVIOUS
<1>2. d.tab = t /\ d.hash = h /\ d = [tab |-> d.tab, hash |-> d.hash]
  BY <1>1
<1>3. t \in [Node -> TabType] /\ h \in [Addr -> Seq(Node \X Slots)]
  BY EmptyTabType
<1>4. \A n \in Node : t[n] = EmptyTab
  OBVIOUS
<1>5. \A a \in Addr : h[a] = <<>>
  OBVIOUS
<1>6. \A i \in Slots : EmptyTab[i] = NoAddr
  BY DEF EmptyTab
<1>7. Node \subseteq Addr /\ Alias \subseteq Addr
  BY NodeAddr
<1>8. DbOK(d, {})
  BY <1>2, <1>3, <1>4, <1>5, <1>6, <1>7 DEF DbOK
<1> QED
  BY <1>1, <1>8

LEMMA NoLinks ==
    ASSUME NEW f, f = [e \in Node \X Node |-> 0]
    PROVE  /\ f \in [Node \X Node -> Nat] /\ \A n, d \in Node : f[<<n, d>>] = 0
           /\ {e \in Node \X Node : f[e] > 0} = {} /\ \A e \in Node \X Node : f[e] = 0
OBVIOUS

LEMMA NoLocalLinks ==
    /\ <<>> \in Seq(LocalLinkType)
    /\ \A d \in Node : LinksTo(<<>>, d) = {} /\ Cardinality(LinksTo(<<>>, d)) = 0
<1>1. \A d \in Node : LinksTo(<<>>, d) = {}
  BY DEF LinksTo
<1> QED
  BY <1>1, FS_EmptySet

LEMMA InitRouter ==
    ASSUME tc_init_data
    PROVE  RouterOK /\ Single /\ View = Nowhere
<1>1. /\ nodes = {} /\ addrTab = [n \in Node |-> EmptyTab] /\ hash = [a \in Addr |-> <<>>]
      /\ links = [e \in Node \X Node |-> 0] /\ localAddr = EmptyTab /\ localLinks = <<>>
  BY DEF tc_init_data
<1>2. DbOK([tab |-> addrTab, hash |-> hash], nodes)
  BY <1>1, EmptyDb
<1>3. /\ links \in [Node \X Node -> Nat] /\ \A n, d \in Node : links[<<n, d>>] = 0
      /\ {e \in Node \X Node : links[e] > 0} = {} /\ \A e \in Node \X Node : links[e] = 0
  BY <1>1, NoLinks
<1>4. RouterOK
  BY <1>1, <1>2, <1>3, NoLocalLinks, EmptyTabType, NodeAddr DEF RouterOK, Db
<1>5. Single
  BY <1>3 DEF Single
<1>6. View = Nowhere
  BY <1>1, <1>3, Zenon DEF View, Nowhere
<1> QED
  BY <1>4, <1>5, <1>6

LEMMA FreedRouter ==
    ASSUME tc_free_data
    PROVE  RouterOK' /\ Single' /\ View' = Nowhere /\ nodes' = {} /\ localAddr' = EmptyTab
<1>1. /\ nodes' = {} /\ addrTab' = [n \in Node |-> EmptyTab] /\ hash' = [a \in Addr |-> <<>>]
      /\ links' = [e \in Node \X Node |-> 0] /\ localAddr' = EmptyTab /\ localLinks' = <<>>
  BY DEF tc_free_data
<1>2. DbOK([tab |-> addrTab', hash |-> hash'], nodes')
  BY <1>1, EmptyDb
<1>3. DbOK(Db, nodes)'
  BY <1>2, DbSame
<1>4. /\ links' \in [Node \X Node -> Nat] /\ \A n, d \in Node : links'[<<n, d>>] = 0
      /\ {e \in Node \X Node : links'[e] > 0} = {} /\ \A e \in Node \X Node : links'[e] = 0
  BY <1>1, NoLinks
<1>5. RouterOK'
  <2>1. \A d \in Node : LinksTo(localLinks', d) = {} /\ Cardinality(LinksTo(localLinks', d)) = 0
    BY <1>1, NoLocalLinks
  <2>2. nodes' \in SUBSET Node /\ localAddr' \in TabType /\ localLinks' \in Seq(LocalLinkType)
    BY <1>1, NoLocalLinks, EmptyTabType
  <2> QED
    BY <1>3, <1>4, <2>1, <2>2, NodeAddr DEF RouterOK
<1>6. Single'
  BY <1>4 DEF Single
<1>7. View' = Nowhere
  BY <1>1, <1>4, Zenon DEF View, Nowhere
<1> QED
  BY <1>1, <1>5, <1>6, <1>7

\* Only the local addresses change.
LEMMA LocalRouter ==
    ASSUME RouterOK, localAddr' \in TabType,
           UNCHANGED <<nodes, addrTab, hash, links, localLinks>>
    PROVE  RouterOK' /\ (Single => Single') /\ View' = View
<1>1. /\ nodes' = nodes /\ addrTab' = addrTab /\ hash' = hash /\ links' = links
      /\ localLinks' = localLinks
  OBVIOUS
<1>2. Db' = Db
  BY <1>1 DEF Db
<1>3. RouterOK'
  <2>1. DbOK(Db', nodes')
    BY <1>1, <1>2 DEF RouterOK
  <2>2. DbOK(Db, nodes)'
    BY <1>1, <2>1, DbSame DEF Db
  <2>3. \A d \in Node : LinksTo(localLinks', d) = LinksTo(localLinks, d)
    BY <1>1
  <2> QED
    BY <1>1, <2>2, <2>3 DEF RouterOK
<1> QED
  BY <1>1, <1>3 DEF Single, View

\* The next command of the prologue finds the router as the ones before left it.
LEMMA PrologueStep ==
    ASSUME RouterOK, NEW j \in 0 .. PrologueLen, j < PrologueLen, Announced(j),
           NEW c, c = Prologue[j + 1], Apply(c)
    PROVE  /\ RouterOK' /\ (Single /\ Fine(View, c) => Single' /\ View' = After(View, c))
           /\ nodes' = {}
           /\ localAddr'[0] = IF j + 1 >= 2 THEN Me ELSE NoAddr
           /\ Fit => \A i \in Slots \ {0} : localAddr'[i] = Slot(j + 1, i)
<1> DEFINE P == PrologueLen
<1>1. P \in Nat /\ P >= 2 /\ P = Cardinality(MyAliases) + 2 /\ Cardinality(MyAliases) \in Nat
  BY PrologueFields
<1>2. localAddr \in TabType
  BY DEF RouterOK
<1>3. CASE j = 0
  <2>1. c = Cmd("RESET_TC", NoAddr, NoAddr)
    BY <1>3, PrologueFields
  <2>2. c.type = "RESET_TC"
    BY <2>1 DEF Cmd
  <2>3. tc_free_data
    BY <2>2 DEF Apply
  <2>4. RouterOK' /\ Single' /\ View' = Nowhere /\ nodes' = {} /\ localAddr' = EmptyTab
    BY <2>3, FreedRouter
  <2>5. After(View, c) = Nowhere
    BY <2>2 DEF After, Nowhere
  <2>6. \A i \in Slots : localAddr'[i] = NoAddr
    BY <2>4 DEF EmptyTab
  <2>7. \A i \in Slots \ {0} : Slot(j + 1, i) = NoAddr
    BY <1>3, SlotsNat DEF Slot
  <2> QED
    BY <1>3, <2>4, <2>5, <2>6, <2>7, SlotsNat
<1>4. CASE j = 1
  <2>1. c = Cmd("SET_LOCAL_ADDR", Me, NoAddr)
    BY <1>4, PrologueFields
  <2>2. c.type = "SET_LOCAL_ADDR" /\ c.addr_1 = Me
    BY <2>1 DEF Cmd
  <2>3. tc_set_local_addr(Me)
    BY <2>2 DEF Apply
  <2>4. localAddr' = [localAddr EXCEPT ![0] = Me]
        /\ UNCHANGED <<nodes, addrTab, hash, links, localLinks>>
    BY <2>3 DEF tc_set_local_addr
  <2>5. localAddr' \in TabType /\ localAddr'[0] = Me
        /\ \A i \in Slots \ {0} : localAddr'[i] = localAddr[i]
    BY <1>2, <2>4, SlotsNat, NodeAddr DEF TabType
  <2>6. RouterOK' /\ (Single => Single') /\ View' = View
    BY <2>4, <2>5, LocalRouter
  <2>7. After(View, c) = View
    BY <2>2 DEF After, View
  <2>8. nodes' = {}
    BY <2>4 DEF Announced
  <2>9. \A i \in Slots \ {0} : Slot(j, i) = NoAddr /\ Slot(j + 1, i) = NoAddr
    BY <1>4, SlotsNat DEF Slot
  <2> QED
    BY <1>4, <2>5, <2>6, <2>7, <2>8, <2>9 DEF Announced
<1>5. CASE j \notin {0, 1}
  <2>1. j + 1 \in 3 .. P
    BY <1>1, <1>5
  <2>2. c.type = "SET_ALIAS_ADDR" /\ c.addr_1 \in MyAliases
    BY <2>1, PrologueFields
  <2>3. PICK x : x = c.addr_1
    OBVIOUS
  <2>4. tc_set_local_alias(x)
    BY <2>2, <2>3 DEF Apply
  <2>5. x \in Addr /\ x # NoAddr
    BY <2>2, <2>3, NodeAddr
  <2> DEFINE F == FreeSlots(localAddr)
  <2>6. F \in SUBSET Nat /\ F \subseteq Slots \ {0}
    BY SlotsNat DEF FreeSlots
  <2>7. F # {} => Least(F) \in F /\ \A k \in F : Least(F) <= k
    BY <2>6, LeastMember
  <2>8. localAddr' = (IF F = {} THEN localAddr ELSE [localAddr EXCEPT ![Least(F)] = x])
        /\ UNCHANGED <<nodes, addrTab, hash, links, localLinks>>
    BY <2>4 DEF tc_set_local_alias
  <2>9. localAddr' \in TabType /\ localAddr'[0] = localAddr[0]
    BY <1>2, <2>5, <2>6, <2>7, <2>8, SlotsNat DEF TabType
  <2>10. RouterOK' /\ (Single => Single') /\ View' = View
    BY <2>8, <2>9, LocalRouter
  <2>11. After(View, c) = View
    BY <2>2 DEF After, View
  <2>12. nodes' = {}
    BY <2>8 DEF Announced
  <2>13. localAddr'[0] = Me
    BY <1>5, <2>9 DEF Announced
  <2>14. ASSUME Fit, NEW i \in Slots \ {0} PROVE localAddr'[i] = Slot(j + 1, i)
    <3>1. \A k \in Slots \ {0} : localAddr[k] = Slot(j, k)
      BY <2>14 DEF Announced
    <3>2. MaxAddr \in Nat /\ Slots = 0 .. MaxAddr - 1 /\ j - 1 \in Slots \ {0}
      BY <1>1, <1>5, <2>14, SizeAssumption DEF Slots, Fit
    <3>3. \A k \in Slots \ {0} : Slot(j, k) = NoAddr <=> j - 1 <= k
      <4> SUFFICES ASSUME NEW k \in Slots \ {0} PROVE Slot(j, k) = NoAddr <=> j - 1 <= k
        OBVIOUS
      <4>1. CASE k + 2 <= j
        <5>1. k + 2 \in 3 .. P
          BY <1>1, <3>2, <4>1
        <5>2. Prologue[k + 2].addr_1 \in MyAliases
          BY <5>1, PrologueFields
        <5>3. Prologue[k + 2].addr_1 # NoAddr
          BY <5>2, NodeAddr
        <5> QED
          BY <3>2, <4>1, <5>1, <5>3 DEF Slot
      <4>2. CASE ~(k + 2 <= j)
        BY <3>2, <4>2 DEF Slot
      <4> QED
        BY <4>1, <4>2
    <3>4. F = {k \in Slots \ {0} : j - 1 <= k}
      BY <3>1, <3>3 DEF FreeSlots
    <3> HIDE DEF F
    <3>5. j - 1 \in F /\ F # {}
      <4>1. j - 1 <= j - 1
        BY <1>1
      <4> QED
        BY <3>2, <3>4, <4>1
    <3>6. Least(F) = j - 1
      <4>1. Least(F) \in F /\ Least(F) <= j - 1
        BY <2>7, <3>5
      <4>2. Least(F) \in Slots /\ j - 1 <= Least(F)
        BY <3>4, <4>1
      <4> QED
        BY <3>2, <4>1, <4>2, SlotsNat
    <3>7. localAddr'[i] = IF i = j - 1 THEN x ELSE localAddr[i]
      BY <1>2, <2>8, <3>5, <3>6 DEF TabType
    <3>8. CASE i = j - 1
      <4>1. i + 2 = j + 1 /\ i + 2 <= j + 1
        BY <1>1, <3>8
      <4> QED
        BY <2>3, <3>7, <3>8, <4>1 DEF Slot
    <3>9. CASE i # j - 1
      <4>1. i + 2 <= j + 1 <=> i + 2 <= j
        BY <3>2, <3>9
      <4> QED
        BY <3>1, <3>7, <3>9, <4>1 DEF Slot
    <3> QED
      BY <3>8, <3>9
  <2> QED
    BY <1>5, <2>10, <2>11, <2>12, <2>13, <2>14
<1> QED
  BY <1>3, <1>4, <1>5

-----------------------------------------------------------------------------
(* The inductive invariant *)

\* olsrd's links are reported, but for changes that are flagged or were missed
UpToDate == (~changed /\ ~unflagged) => curLinks = Reported

\* The commands on their way lead a router that connected early to the links the
\* plugin has in its tables, and each of them applies.
Follows ==
    early => /\ connected /\ Single
             /\ \E w \in Views : /\ Leads(View, chan, w)
                                 /\ InTab(tab) \ freed \subseteq w.nodes
                                 /\ w.links = curLinks

Inv ==
    /\ RouterOK /\ TablesOK /\ chan \in Seq(Command)
    /\ \E j \in 0 .. PrologueLen : Announced(j)
    /\ ~connected => chan = <<>>
    /\ UpToDate /\ Follows

\* Whatever happens to olsrd's tables alone.
LEMMA SameRouter ==
    ASSUME Inv, UNCHANGED <<tcVars, pluginVars, connected, early, chan>>, TablesOK', UpToDate'
    PROVE  Inv'
<1>1. /\ nodes' = nodes /\ addrTab' = addrTab /\ hash' = hash /\ links' = links
      /\ localAddr' = localAddr /\ localLinks' = localLinks /\ chan' = chan
      /\ connected' = connected /\ early' = early
      /\ tab' = tab /\ freed' = freed /\ curLinks' = curLinks
  BY DEF tcVars, pluginVars
<1>2. RouterOK' /\ View' = View /\ Single' = Single
  BY <1>1 DEF Inv, RouterOK, DbOK, Db, LinksTo, View, Single
<1>3. ASSUME NEW j \in 0 .. PrologueLen, Announced(j) PROVE Announced(j)'
  BY <1>1, <1>3 DEF Announced
<1>4. Follows'
  <2> SUFFICES ASSUME early'
               PROVE  /\ connected' /\ Single'
                      /\ \E w \in Views : /\ Leads(View', chan', w)
                                          /\ InTab(tab') \ freed' \subseteq w.nodes
                                          /\ w.links = curLinks'
    BY DEF Follows
  <2>1. connected /\ Single
    BY <1>1 DEF Inv, Follows
  <2>2. PICK w \in Views : /\ Leads(View, chan, w)
                           /\ InTab(tab) \ freed \subseteq w.nodes
                           /\ w.links = curLinks
    BY <1>1 DEF Inv, Follows
  <2> QED
    BY <1>1, <1>2, <2>1, <2>2
<1>5. (\E j \in 0 .. PrologueLen : Announced(j))'
  BY <1>3 DEF Inv
<1>6. chan' \in Seq(Command) /\ (~connected' => chan' = <<>>)
  BY <1>1 DEF Inv
<1> QED
  BY <1>2, <1>4, <1>5, <1>6 DEF Inv

LEMMA TablesKept ==
    ASSUME TablesOK, UNCHANGED pluginVars,
           entries' \in SUBSET Node, edges' \in SUBSET (Node \X Node),
           mids' \in SUBSET (Node \X Alias)
    PROVE  TablesOK'
<1>1. tab' = tab /\ freed' = freed /\ curLinks' = curLinks /\ curMids' = curMids
  BY DEF pluginVars
<1> QED
  BY <1>1 DEF TablesOK

\* A change of olsrd's tables that can make a difference is flagged, or noted as
\* missed.
LEMMA OlsrdStep ==
    ASSUME Inv, Olsrd
    PROVE  Inv'
<1> DEFINE Typed == /\ entries' \in SUBSET Node /\ edges' \in SUBSET (Node \X Node)
                    /\ mids' \in SUBSET (Node \X Alias)
           Flagged == changed' \/ unflagged'
           Harmless == /\ edges' = edges /\ sym' = sym
                       /\ unflagged' = unflagged /\ (changed => changed')
           Still == UNCHANGED <<tcVars, pluginVars, connected, early, chan>>
<1>1. TablesOK /\ UpToDate
  BY DEF Inv
<1>2. /\ entries \in SUBSET Node /\ edges \in SUBSET (Node \X Node)
      /\ mids \in SUBSET (Node \X Alias)
  BY <1>1 DEF TablesOK
<1>3. Still
  BY DEF Olsrd, EdgeUp, EdgeDown, EdgeRevoked, EntryExpires, NeighbourStatus,
         olsr_delete_mid_entry, olsr_process_received_mid, Changed, Change
<1>4. ASSUME NEW s \in Node, NEW d \in Node, EdgeUp(s, d)
      PROVE  Typed /\ Flagged
  <2>1. changed'
    BY <1>4 DEF EdgeUp, Changed, Change
  <2>2. edges' = edges \cup {<<s, d>>} /\ entries' = entries \cup {s} /\ mids' = mids
    BY <1>4 DEF EdgeUp
  <2> QED
    BY <1>2, <2>1, <2>2
<1>5. ASSUME NEW s \in Node, NEW d \in Node, EdgeDown(s, d)
      PROVE  Typed /\ Flagged
  BY <1>2, <1>5 DEF EdgeDown, Changed, Change
<1>6. ASSUME NEW s \in Node, NEW d \in Node, EdgeRevoked(s, d)
      PROVE  Typed /\ Flagged
  BY <1>2, <1>6 DEF EdgeRevoked, Change
<1>7. ASSUME NEW n \in Node, EntryExpires(n)
      PROVE  Typed /\ Flagged
  BY <1>2, <1>7 DEF EntryExpires, Changed, Change
<1>8. ASSUME NEW n \in Node, NeighbourStatus(n)
      PROVE  Typed /\ Flagged
  BY <1>2, <1>8 DEF NeighbourStatus, Changed, Change
<1>9. ASSUME NEW n \in Node, olsr_delete_mid_entry(n)
      PROVE  Typed /\ Harmless
  BY <1>2, <1>9 DEF olsr_delete_mid_entry, Change
<1>10. ASSUME NEW n \in Node, NEW D \in SUBSET (Alias \ MyAliases), olsr_process_received_mid(n, D)
       PROVE  Typed /\ Flagged
  <2>1. insert_mid_alias(n, D) \subseteq Node \X Alias
    BY DEF insert_mid_alias
  <2>2. mids' = (mids \cup insert_mid_alias(n, D)) \ olsr_prune_aliases(n, D)
        /\ entries' \subseteq entries \cup {n} /\ edges' = edges /\ changed'
    BY <1>10 DEF olsr_process_received_mid, Changed, Change
  <2> QED
    BY <1>2, <2>1, <2>2
<1>11. Typed /\ (Flagged \/ Harmless)
  <2> HIDE DEF Typed, Flagged, Harmless
  <2> QED
    BY <1>4, <1>5, <1>6, <1>7, <1>8, <1>9, <1>10 DEF Olsrd
<1>12. TablesOK'
  BY <1>1, <1>3, <1>11, TablesKept
<1>13. UpToDate'
  <2>1. curLinks' = curLinks
    BY <1>3 DEF pluginVars
  <2>2. CASE Flagged
    BY <2>2 DEF UpToDate
  <2>3. CASE Harmless
    <3>1. Reported' = Reported
      BY <2>3 DEF Reported, Ignored, tc_is_in_neighbourhood
    <3> QED
      BY <1>1, <2>1, <2>3, <3>1 DEF UpToDate
  <2> QED
    BY <1>11, <2>2, <2>3
<1> QED
  BY <1>3, <1>12, <1>13, SameRouter

\* A report: the tables agree with olsrd's again, and its commands lead there.
LEMMA ReportStep ==
    ASSUME Inv, olsrd_pcf_event
    PROVE  Inv'
<1>1. PICK s : /\ s = tc_check_data
               /\ tab' = s.tab /\ freed' = s.freed /\ curLinks' = s.links /\ curMids' = s.mids
               /\ dev_send(s.cmds)
  BY DEF olsrd_pcf_event
<1>2. /\ freed = {} /\ UNCHANGED <<tcVars, olsrdVars>>
      /\ connected' = connected /\ early' = early
  BY DEF olsrd_pcf_event
<1>3. RouterOK /\ TablesOK /\ chan \in Seq(Command) /\ Follows /\ (~connected => chan = <<>>)
  BY DEF Inv
<1>4. /\ s \in Plugin /\ TabOK(s.tab) /\ s.links = Reported
      /\ Reported \subseteq Known(s) \X Known(s)
      /\ Makes(InTab(tab), curLinks, s.cmds, Known(s), Reported)
  BY <1>1, <1>2, <1>3, CheckData
<1>5. /\ s.tab \in [Buckets -> Seq(Node)] /\ s.freed \in SUBSET Node
      /\ s.mids \in SUBSET (Node \X Alias) /\ s.cmds \in Seq(TopoCommand)
  BY <1>4 DEF Plugin
<1>6. /\ nodes' = nodes /\ addrTab' = addrTab /\ hash' = hash /\ links' = links
      /\ localAddr' = localAddr /\ localLinks' = localLinks
      /\ entries' = entries /\ edges' = edges /\ sym' = sym /\ mids' = mids
  BY <1>2 DEF tcVars, olsrdVars
<1>7. RouterOK' /\ View' = View /\ Single' = Single
  BY <1>3, <1>6 DEF RouterOK, DbOK, Db, LinksTo, View, Single
<1>8. Reported' = Reported
  BY <1>6 DEF Reported, Ignored, tc_is_in_neighbourhood
<1>9. InTab(tab') \ freed' = Known(s)
  BY <1>1 DEF Known
<1>10. TablesOK'
  <2>1. TabOK(tab')
    BY <1>1, <1>4
  <2>2. curLinks' \subseteq (InTab(tab') \ freed') \X (InTab(tab') \ freed')
    BY <1>1, <1>4, <1>9
  <2> QED
    BY <1>1, <1>3, <1>5, <1>6, <2>1, <2>2 DEF TablesOK
<1>11. UpToDate'
  BY <1>1, <1>4, <1>8 DEF UpToDate
<1>12. chan' = IF connected THEN chan \o s.cmds ELSE chan
  BY <1>1, <1>2, <1>3 DEF dev_send
<1>13. chan' \in Seq(Command) /\ (~connected' => chan' = <<>>)
  BY <1>2, <1>3, <1>5, <1>12, TopoSeq
<1>14. ASSUME NEW j \in 0 .. PrologueLen, Announced(j) PROVE Announced(j)'
  <2>1. connected => Ahead(j, chan')
    BY <1>3, <1>5, <1>12, <1>14, AheadOn DEF Announced
  <2> QED
    BY <1>2, <1>6, <1>14, <2>1 DEF Announced
<1>15. (\E j \in 0 .. PrologueLen : Announced(j))'
  BY <1>14 DEF Inv
<1>16. Follows'
  <2> SUFFICES ASSUME early
               PROVE  /\ connected /\ Single
                      /\ \E z \in Views : /\ Leads(View, chan', z)
                                          /\ Known(s) \subseteq z.nodes
                                          /\ z.links = Reported
    BY <1>1, <1>2, <1>4, <1>7, <1>9 DEF Follows
  <2>1. connected /\ Single
    BY <1>3 DEF Follows
  <2>2. PICK w \in Views : /\ Leads(View, chan, w)
                           /\ InTab(tab) \ freed \subseteq w.nodes
                           /\ w.links = curLinks
    BY <1>3 DEF Follows
  <2>3. PICK z \in Views : Leads(w, s.cmds, z) /\ Known(s) \subseteq z.nodes /\ z.links = Reported
    BY <1>2, <1>4, <2>2 DEF Makes
  <2>4. Leads(View, chan', z)
    BY <1>12, <2>1, <2>2, <2>3, LeadsThrough
  <2> QED
    BY <2>1, <2>3, <2>4
<1> QED
  BY <1>7, <1>10, <1>11, <1>13, <1>15, <1>16 DEF Inv

LEMMA EmptyBlock == \A type \in TopoType : Block(type, {}) = <<>>
<1> SUFFICES ASSUME NEW type \in TopoType PROVE Block(type, {}) = <<>>
  OBVIOUS
<1> DEFINE q == SetToSeq({})
           b == Block(type, {})
<1>1. IsFiniteSet({}) /\ Cardinality({}) = 0
  BY FS_EmptySet
<1>2. Len(q) = 0
  BY <1>1, Enumerated
<1>3. b \in Seq(Command) /\ Len(b) = Len(q)
  BY <1>1, BlockFields
<1> HIDE DEF b, q
<1>4. b = <<>>
  BY <1>2, <1>3
<1> QED
  BY <1>4 DEF b

\* All a client is sent on its connection.
LEMMA AllData ==
    ASSUME TablesOK
    PROVE  /\ tc_send_all_data = (Block("ADD_NODE", entries \X {NoAddr}) \o Block("ADD_LINK", edges))
                                 \o Block("ADD_ALIAS", mids)
           /\ tc_send_all_data \in Seq(TopoCommand)
<1> DEFINE b1 == Block("ADD_NODE", entries \X {NoAddr})
           b2 == Block("ADD_LINK", edges)
           b3 == Block("ADD_ALIAS", mids)
<1>1. entries \X {NoAddr} \in SUBSET (Node \X {NoAddr}) /\ edges \in SUBSET (Node \X Node)
      /\ mids \in SUBSET (Node \X Alias)
  BY DEF TablesOK
<1>2. b1 \in Seq(TopoCommand)
  BY <1>1, BlockTopo
<1>3. b2 \in Seq(TopoCommand)
  BY <1>1, BlockTopo DEF LinkType
<1>4. b3 \in Seq(TopoCommand)
  BY <1>1, BlockTopo DEF AliasType
<1>5. tc_send_all_data = ((<<>> \o b1) \o b2) \o b3
  BY AppendBlock DEF tc_send_all_data
<1> HIDE DEF b1, b2, b3
<1>6. <<>> \o b1 = b1 /\ (b1 \o b2) \o b3 \in Seq(TopoCommand)
  BY <1>2, <1>3, <1>4
<1> QED
  BY <1>5, <1>6 DEF b1, b2, b3

\* The prologue takes any router that is empty to an empty one.
LEMMA PrologueLeads == Leads(Nowhere, Prologue, Nowhere)
<1> DEFINE c1 == Cmd("RESET_TC", NoAddr, NoAddr)
           c2 == Cmd("SET_LOCAL_ADDR", Me, NoAddr)
           S == MyAliases \X {NoAddr}
           b == Block("SET_ALIAS_ADDR", S)
<1>1. Nowhere \in Views
  BY DEF Nowhere, Views
<1>2. c1 \in Command /\ c1.type = "RESET_TC"
  BY DEF Cmd, Command
<1>3. c2 \in Command /\ c2.type = "SET_LOCAL_ADDR"
  BY NodeAddr DEF Cmd, Command, LocalType
<1>4. Prologue = <<c1, c2>> \o b
  BY PrologueFields
<1>5. Leads(Nowhere, b, Nowhere)
  <2>1. S \in SUBSET (Addr \X (Addr \cup {NoAddr})) /\ S \in SUBSET (Alias \X {NoAddr})
    BY NodeAddr
  <2>2. IsFiniteSet(S) /\ "SET_ALIAS_ADDR" \in AliasType \cup LocalType
    BY <2>1, PairsFinite DEF LocalType
  <2> QED
    BY <1>1, <2>1, <2>2, IdleBlock
<1> HIDE DEF c1, c2, b
<1>6. Fine(Nowhere, c1) /\ After(Nowhere, c1) = Nowhere
  BY <1>2 DEF Fine, After, Nowhere
<1>7. Fine(Nowhere, c2) /\ After(Nowhere, c2) = Nowhere
  BY <1>3 DEF Fine, After, Nowhere
<1>8. Leads(Nowhere, Append(<<>>, c1), Nowhere)
  BY <1>1, <1>2, <1>6, LeadsEmpty, LeadsOn
<1>9. Leads(Nowhere, Append(Append(<<>>, c1), c2), Nowhere)
  BY <1>1, <1>3, <1>7, <1>8, LeadsOn
<1>10. Append(Append(<<>>, c1), c2) = <<c1, c2>>
  <2>1. PICK u : u = Append(Append(<<>>, c1), c2)
    OBVIOUS
  <2>2. PICK w : w = <<c1, c2>>
    OBVIOUS
  <2>3. u \in Seq(Command) /\ Len(u) = 2 /\ u[1] = c1 /\ u[2] = c2
    BY <1>2, <1>3, <2>1
  <2>4. w \in Seq(Command) /\ Len(w) = 2 /\ w[1] = c1 /\ w[2] = c2
    BY <1>2, <1>3, <2>2
  <2>5. \A i \in 1 .. 2 : u[i] = w[i]
    BY <2>3, <2>4
  <2>6. u = w
    BY <2>3, <2>4, <2>5
  <2> QED
    BY <2>1, <2>2, <2>6
<1> QED
  BY <1>4, <1>5, <1>9, <1>10, LeadsThrough

\* A client connects: it is sent the prologue and what olsrd knows.  One that finds
\* no topology is led to the nodes the plugin will find in its tables: none.
LEMMA AcceptStep ==
    ASSUME Inv, handleAccept
    PROVE  Inv'
<1>1. TablesOK /\ UpToDate
  BY DEF Inv
<1>2. /\ tc_free_data /\ UNCHANGED <<olsrdVars, pluginVars, changed, unflagged, changes>>
      /\ connected'
      /\ early' = (edges = {} /\ mids = {} /\ curMids = {} /\ InTab(tab) = {})
      /\ chan' = chan \o (Prologue \o tc_send_all_data)
  <2>1. dev_send(dev_send_init \o tc_send_all_data) /\ connected'
    BY DEF handleAccept
  <2>2. chan' = chan \o (Prologue \o tc_send_all_data)
    BY <2>1 DEF dev_send, Prologue
  <2> QED
    BY <2>1, <2>2 DEF handleAccept
<1>3. RouterOK' /\ Single' /\ View' = Nowhere /\ nodes' = {} /\ localAddr' = EmptyTab
  BY <1>2, FreedRouter
<1>4. /\ entries' = entries /\ edges' = edges /\ sym' = sym /\ mids' = mids
      /\ tab' = tab /\ freed' = freed /\ curLinks' = curLinks /\ curMids' = curMids
      /\ changed' = changed /\ unflagged' = unflagged
  BY <1>2 DEF olsrdVars, pluginVars
<1>5. TablesOK'
  BY <1>1, <1>4 DEF TablesOK
<1>6. UpToDate'
  <2>1. Reported' = Reported
    BY <1>4 DEF Reported, Ignored, tc_is_in_neighbourhood
  <2> QED
    BY <1>1, <1>4, <2>1 DEF UpToDate
<1>7. PICK t : t = tc_send_all_data
  OBVIOUS
<1>8. t \in Seq(TopoCommand) /\ t = (Block("ADD_NODE", entries \X {NoAddr}) \o Block("ADD_LINK", edges))
                                    \o Block("ADD_ALIAS", mids)
  BY <1>1, <1>7, AllData
<1>9. chan' = Prologue \o t
  <2>1. chan = <<>>
    BY DEF Inv, handleAccept
  <2>2. Prologue \o t \in Seq(Command)
    BY <1>8, PrologueFields, TopoSeq
  <2>3. \A q \in Seq(Command) : <<>> \o q = q
    OBVIOUS
  <2> QED
    BY <1>2, <1>7, <2>1, <2>2, <2>3
<1>10. chan' \in Seq(Command)
  BY <1>8, <1>9, PrologueFields, TopoSeq
<1>11. Announced(0)'
  <2>1. PrologueLen \in Nat /\ PrologueLen = Cardinality(MyAliases) + 2 /\ PrologueLen = Len(Prologue)
        /\ Prologue \in Seq(Command) /\ Cardinality(MyAliases) \in Nat
    BY PrologueFields DEF PrologueLen
  <2>2. Ahead(0, Prologue)
    BY <2>1 DEF Ahead
  <2>3. Ahead(0, chan')
    <3>1. 0 \in 0 .. PrologueLen /\ t \in Seq(TopoCommand) /\ Prologue \in Seq(Command)
      BY <1>8, <2>1
    <3>2. Ahead(0, Prologue \o t)
      BY <2>2, <3>1, AheadOn
    <3> QED
      BY <1>9, <3>2
  <2>4. \A i \in Slots : localAddr'[i] = NoAddr
    BY <1>3 DEF EmptyTab
  <2>5. \A i \in Slots \ {0} : Slot(0, i) = NoAddr
    BY SlotsNat DEF Slot
  <2> QED
    BY <1>3, <2>3, <2>4, <2>5, SlotsNat DEF Announced
<1>12. (\E j \in 0 .. PrologueLen : Announced(j))'
  BY <1>11, PrologueFields
<1>13. Follows'
  <2> SUFFICES ASSUME edges = {}, mids = {}, InTab(tab) = {}
               PROVE  \E w \in Views : /\ Leads(Nowhere, chan', w)
                                       /\ InTab(tab) \ freed \subseteq w.nodes
                                       /\ w.links = curLinks
    BY <1>2, <1>3, <1>4 DEF Follows
  <2> DEFINE T == entries \X {NoAddr}
             w == [nodes |-> {n \in Node : <<n, NoAddr>> \in T}, links |-> {}]
  <2>1. curLinks = {}
    BY <1>1 DEF TablesOK
  <2>2. w \in Views /\ w.links = {}
    BY DEF Views
  <2>3. T \in SUBSET (Node \X {NoAddr}) /\ IsFiniteSet(T)
    BY <1>1, PairsFinite DEF TablesOK
  <2>4. Leads(Nowhere, Block("ADD_NODE", T), w)
    <3>1. Nowhere \in Views /\ Nowhere.nodes = {} /\ Nowhere.links = {}
      BY DEF Nowhere, Views
    <3>2. w = [nodes |-> Nowhere.nodes \cup {n \in Node : <<n, NoAddr>> \in T},
               links |-> Nowhere.links]
      BY <3>1
    <3> HIDE DEF w, T
    <3> QED
      BY <2>3, <3>1, <3>2, NodeBlock
  <2>5. t = Block("ADD_NODE", T)
    <3>1. Block("ADD_LINK", edges) = <<>> /\ Block("ADD_ALIAS", mids) = <<>>
      BY EmptyBlock DEF TopoType
    <3>2. Block("ADD_NODE", T) \in Seq(TopoCommand)
      BY <2>3, BlockTopo
    <3>3. \A q \in Seq(TopoCommand) : (q \o <<>>) \o <<>> = q
      OBVIOUS
    <3> QED
      BY <1>8, <3>1, <3>2, <3>3
  <2> HIDE DEF w, T
  <2>6. Leads(Nowhere, chan', w)
    BY <1>9, <2>4, <2>5, PrologueLeads, LeadsThrough
  <2> QED
    BY <2>1, <2>2, <2>6
<1> QED
  BY <1>2, <1>3, <1>5, <1>6, <1>10, <1>12, <1>13 DEF Inv

LEMMA DisconnectStep ==
    ASSUME Inv, Disconnect
    PROVE  Inv'
<1>1. /\ UNCHANGED <<tcVars, olsrdVars, pluginVars, changed, unflagged, changes>>
      /\ ~connected' /\ ~early' /\ chan' = <<>>
  BY DEF Disconnect, dev_send
<1>2. /\ nodes' = nodes /\ addrTab' = addrTab /\ hash' = hash /\ links' = links
      /\ localAddr' = localAddr /\ localLinks' = localLinks
      /\ entries' = entries /\ edges' = edges /\ sym' = sym /\ mids' = mids
      /\ tab' = tab /\ freed' = freed /\ curLinks' = curLinks /\ curMids' = curMids
      /\ changed' = changed /\ unflagged' = unflagged
  BY <1>1 DEF tcVars, olsrdVars, pluginVars
<1>3. RouterOK'
  BY <1>2 DEF Inv, RouterOK, DbOK, Db, LinksTo
<1>4. TablesOK'
  BY <1>2 DEF Inv, TablesOK
<1>5. UpToDate'
  <2>1. Reported' = Reported
    BY <1>2 DEF Reported, Ignored, tc_is_in_neighbourhood
  <2> QED
    BY <1>2, <2>1 DEF Inv, UpToDate
<1>6. (\E j \in 0 .. PrologueLen : Announced(j))'
  <2>1. PICK j \in 0 .. PrologueLen : Announced(j)
    BY DEF Inv
  <2>2. Announced(j)'
    BY <1>1, <1>2, <2>1 DEF Announced
  <2> QED
    BY <2>2
<1>7. Follows' /\ chan' \in Seq(Command) /\ (~connected' => chan' = <<>>)
  BY <1>1 DEF Follows
<1> QED
  BY <1>3, <1>4, <1>5, <1>6, <1>7 DEF Inv

\* The client applies the next command.
LEMMA ReadStep ==
    ASSUME Inv, handleRead
    PROVE  Inv'
<1>1. PICK c : c = Head(chan)
  OBVIOUS
<1>2. /\ chan # <<>> /\ Apply(c) /\ chan' = Tail(chan)
      /\ UNCHANGED <<olsrdVars, pluginVars, changed, connected, early, unflagged, changes>>
  BY <1>1 DEF handleRead
<1>3. /\ entries' = entries /\ edges' = edges /\ sym' = sym /\ mids' = mids
      /\ tab' = tab /\ freed' = freed /\ curLinks' = curLinks /\ curMids' = curMids
      /\ changed' = changed /\ unflagged' = unflagged
      /\ connected' = connected /\ early' = early
  BY <1>2 DEF olsrdVars, pluginVars
<1>4. RouterOK /\ TablesOK /\ chan \in Seq(Command) /\ UpToDate /\ Follows /\ connected
  BY <1>2 DEF Inv
<1>5. TablesOK'
  BY <1>3, <1>4 DEF TablesOK
<1>6. UpToDate'
  <2>1. Reported' = Reported
    BY <1>3 DEF Reported, Ignored, tc_is_in_neighbourhood
  <2> QED
    BY <1>3, <1>4, <2>1 DEF UpToDate
<1>7. chan' \in Seq(Command) /\ (~connected' => chan' = <<>>)
  BY <1>2, <1>3, <1>4
<1>8. PICK j \in 0 .. PrologueLen : Announced(j)
  BY DEF Inv
<1>9. PrologueLen \in Nat /\ PrologueLen >= 2 /\ Ahead(j, chan)
  BY <1>4, <1>8, PrologueFields DEF Announced
<1>10. /\ RouterOK' /\ (Single /\ Fine(View, c) => Single' /\ View' = After(View, c))
       /\ \E k \in 0 .. PrologueLen : Announced(k)'
  <2>1. CASE j < PrologueLen
    <3>1. c = Prologue[j + 1] /\ Ahead(j + 1, chan')
      BY <1>1, <1>2, <1>4, <1>9, <2>1, AheadNext
    <3>2. /\ RouterOK' /\ (Single /\ Fine(View, c) => Single' /\ View' = After(View, c))
          /\ nodes' = {}
          /\ localAddr'[0] = IF j + 1 >= 2 THEN Me ELSE NoAddr
          /\ Fit => \A i \in Slots \ {0} : localAddr'[i] = Slot(j + 1, i)
      BY <1>2, <1>4, <1>8, <2>1, <3>1, PrologueStep
    <3>3. Announced(j + 1)'
      BY <3>1, <3>2 DEF Announced
    <3>4. j + 1 \in 0 .. PrologueLen
      BY <1>9, <2>1
    <3> QED
      BY <3>2, <3>3, <3>4
  <2>2. CASE ~(j < PrologueLen)
    <3>1. j = PrologueLen
      BY <1>9, <2>2
    <3>2. c \in TopoCommand /\ Ahead(j, chan')
      BY <1>1, <1>2, <1>4, <1>9, <3>1, AheadNext
    <3>3. localAddr[0] = Me
      BY <1>8, <1>9, <3>1 DEF Announced
    <3>4. Effect(c)
      BY <1>2, <1>4, <3>2, <3>3, TopoEffect
    <3>5. localAddr' = localAddr
      BY <3>4 DEF Effect
    <3>6. Announced(j)'
      BY <1>8, <2>2, <3>2, <3>5 DEF Announced
    <3> QED
      BY <3>4, <3>6 DEF Effect
  <2> QED
    BY <2>1, <2>2
<1>11. Follows'
  <2> SUFFICES ASSUME early
               PROVE  /\ connected /\ Single'
                      /\ \E w \in Views : /\ Leads(View', chan', w)
                                          /\ InTab(tab) \ freed \subseteq w.nodes
                                          /\ w.links = curLinks
    BY <1>3 DEF Follows
  <2>1. PICK w \in Views : /\ Leads(View, chan, w)
                           /\ InTab(tab) \ freed \subseteq w.nodes
                           /\ w.links = curLinks
    BY <1>4 DEF Follows
  <2>2. Fine(View, c) /\ Leads(After(View, c), chan', w)
    BY <1>1, <1>2, <2>1, LeadsFirst
  <2>3. Single' /\ View' = After(View, c)
    BY <1>4, <1>10, <2>2 DEF Follows
  <2> QED
    BY <1>4, <2>1, <2>2, <2>3
<1> QED
  BY <1>5, <1>6, <1>7, <1>10, <1>11 DEF Inv

LEMMA InitInv ==
    ASSUME Init
    PROVE  Inv
<1>1. /\ tc_init_data /\ entries = {Me} /\ edges = {} /\ mids = {}
      /\ tab = [b \in Buckets |-> <<>>]
      /\ freed = {} /\ curLinks = {} /\ curMids = {} /\ ~connected /\ ~early /\ chan = <<>>
  BY DEF Init
<1>2. RouterOK
  BY <1>1, InitRouter
<1>3. TablesOK
  BY <1>1, NodeAddr DEF TablesOK, TabOK
<1>4. UpToDate
  BY <1>1 DEF UpToDate, Reported
<1>5. Announced(0)
  <2>1. nodes = {} /\ \A i \in Slots : localAddr[i] = NoAddr
    BY <1>1 DEF tc_init_data, EmptyTab
  <2>2. \A i \in Slots \ {0} : Slot(0, i) = NoAddr
    BY SlotsNat DEF Slot
  <2> QED
    BY <1>1, <2>1, <2>2, SlotsNat DEF Announced
<1>6. 0 \in 0 .. PrologueLen
  BY PrologueFields
<1>7. chan \in Seq(Command) /\ Follows
  BY <1>1 DEF Follows
<1> QED
  BY <1>1, <1>2, <1>3, <1>4, <1>5, <1>6, <1>7 DEF Inv

LEMMA NextInv ==
    ASSUME Inv, [Next]_vars
    PROVE  Inv'
<1>1. CASE UNCHANGED vars
  <2>1. /\ UNCHANGED <<tcVars, pluginVars, connected, early, chan>>
        /\ entries' = entries /\ edges' = edges /\ sym' = sym /\ mids' = mids
        /\ changed' = changed /\ unflagged' = unflagged /\ curLinks' = curLinks
    BY <1>1 DEF vars, tcVars, pluginVars
  <2>2. TablesOK /\ UpToDate
    BY DEF Inv
  <2>3. TablesOK'
    BY <2>1, <2>2, TablesKept DEF TablesOK
  <2>4. UpToDate'
    <3>1. Reported' = Reported
      BY <2>1 DEF Reported, Ignored, tc_is_in_neighbourhood
    <3> QED
      BY <2>1, <2>2, <3>1 DEF UpToDate
  <2> QED
    BY <2>1, <2>3, <2>4, SameRouter
<1> QED
  BY <1>1, OlsrdStep, ReportStep, AcceptStep, DisconnectStep, ReadStep DEF Next

-----------------------------------------------------------------------------
(* The theorems *)

\* The inductive invariant: the router's tables belong together, the commands of
\* the connection are the rest of the prologue and then topology commands, what the
\* plugin has in its tables is what it was last told, and the commands on their way
\* lead a router that connected early there.
THEOREM Invariance == Spec => []Inv
<1>1. Init => Inv
  BY InitInv
<1>2. Inv /\ [Next]_vars => Inv'
  BY NextInv
<1> QED
  BY <1>1, <1>2, PTL DEF Spec

LEMMA InvPrologueFirst ==
    ASSUME Inv, Fit
    PROVE  PrologueFirst
<1>1. PICK j \in 0 .. PrologueLen : Announced(j)
  BY DEF Inv
<1>2. PrologueLen \in Nat /\ PrologueLen = Cardinality(MyAliases) + 2 /\ Cardinality(MyAliases) \in Nat
  BY PrologueFields
<1>3. ASSUME nodes # {}
      PROVE  localAddr[0] = Me /\ \A x \in MyAliases : \E i \in Slots : localAddr[i] = x
  <2>1. j = PrologueLen /\ localAddr[0] = Me
    BY <1>1, <1>2, <1>3 DEF Announced
  <2>2. ASSUME NEW x \in MyAliases PROVE \E i \in Slots : localAddr[i] = x
    <3>1. PICK k \in 3 .. PrologueLen : Prologue[k].addr_1 = x
      BY PrologueFields
    <3>2. k - 2 \in Slots \ {0} /\ (k - 2) + 2 = k /\ k <= j
      BY <1>2, <2>1, SizeAssumption DEF Slots, Fit
    <3>3. localAddr[k - 2] = Slot(j, k - 2)
      BY <1>1, <3>2 DEF Announced
    <3>4. localAddr[k - 2] = x
      BY <3>1, <3>2, <3>3 DEF Slot
    <3> QED
      BY <3>2, <3>4
  <2> QED
    BY <2>1, <2>2
<1>4. ASSUME NEW d \in Node, links[<<Me, d>>] > 0
      PROVE  LinksTo(localLinks, d) # {}
  <2>1. /\ links \in [Node \X Node -> Nat] /\ localLinks \in Seq(LocalLinkType)
        /\ links[<<Me, d>>] <= Cardinality(LinksTo(localLinks, d))
    BY DEF Inv, RouterOK
  <2>2. IsFiniteSet(LinksTo(localLinks, d))
    BY <2>1, LinksToFinite
  <2>3. Cardinality(LinksTo(localLinks, d)) \in Nat /\ links[<<Me, d>>] \in Nat
    BY <2>1, <2>2, FS_CardinalityType, NodeAddr
  <2>4. Cardinality(LinksTo(localLinks, d)) > 0
    BY <1>4, <2>1, <2>3
  <2> QED
    BY <2>4, FS_EmptySet
<1> QED
  BY <1>3, <1>4 DEF PrologueFirst

\* The router has its host's addresses before its first node, and a local link for
\* each link of this host, whenever the client connects and whatever changes
\* meanwhile, as long as the host has no more addresses than a node has slots:
\* handleAccept sends dev_send_init first and every later command follows it.
THEOREM PrologueIsFirst ==
    ASSUME Cardinality(MyAliases) < MaxAddr
    PROVE  Spec => []PrologueFirst
<1>1. Fit
  BY DEF Fit
<1>2. Inv => PrologueFirst
  BY <1>1, InvPrologueFirst
<1> QED
  BY <1>2, Invariance, PTL

LEMMA InvLinksInSync ==
    ASSUME Inv
    PROVE  LinksInSync
<1> SUFFICES ASSUME connected, ~changed, chan = <<>>, early, ~unflagged
             PROVE  SameLinks
  BY DEF LinksInSync, Quiet
<1>1. curLinks = Reported
  BY DEF Inv, UpToDate
<1>2. PICK w \in Views : Leads(View, chan, w) /\ w.links = curLinks
  BY DEF Inv, Follows
<1>3. View = w
  BY <1>2, LeadsNowhere
<1>4. {e \in Node \X Node : links[e] > 0} = Reported
  BY <1>1, <1>2, <1>3 DEF View
<1>5. links \in [Node \X Node -> Nat] /\ Single
  BY DEF Inv, RouterOK, Follows
<1> QED
  BY <1>4, <1>5 DEF SameLinks, Single

\* Whatever nodes and links came and went and in whatever batches they were
\* reported, a router that connected early has each link of olsrd's tables once and
\* no other when the last command has arrived: tc_check_data sends the differences
\* to what it reported before, and none of them is refused.
THEOREM LinksStayInSync == Spec => []LinksInSync
<1>1. Inv => LinksInSync
  BY InvLinksInSync
<1> QED
  BY <1>1, Invariance, PTL

LEMMA InvCommandApplies ==
    ASSUME Inv, early, chan # <<>>
    PROVE  ~Fails(Head(chan))
<1>1. PICK c : c = Head(chan)
  OBVIOUS
<1>2. PICK w \in Views : Leads(View, chan, w)
  BY DEF Inv, Follows
<1>3. Fine(View, c)
  BY <1>1, <1>2, LeadsFirst
<1>4. RouterOK /\ nodes \in SUBSET Node /\ View.nodes = nodes
  BY DEF Inv, RouterOK, View
<1>5. \A n \in nodes : tc_get_node(n) # NoAddr
  BY <1>4, GetNode, NodeAddr
<1>6. ~(c.type = "REMOVE_NODE" /\ tc_get_node(c.addr_1) = NoAddr)
  BY <1>3, <1>4, <1>5 DEF Fine
<1>7. ~(c.type = "ADD_LINK" /\ NoAddr \in {tc_get_node(c.addr_1), tc_get_node(c.addr_2)})
  BY <1>3, <1>4, <1>5 DEF Fine
<1> QED
  BY <1>1, <1>6, <1>7 DEF Fails

\* No command to a router that connected early is answered with MSG_FAILED for the
\* lack of a node: tc_addLink creates both ends before the link, and
\* tc_remove_useless_link takes out a node that the router still has.
THEOREM EveryCommandApplies == Spec => CommandsApply
<1>1. Inv /\ [Next]_vars => [Delivery /\ early => ~Fails(Head(chan))]_vars
  BY InvCommandApplies DEF Delivery
<1> QED
  BY <1>1, Invariance, PTL DEF Spec, CommandsApply

=============================================================================
