----------------------------- MODULE LsdbProofs -----------------------------
(***************************************************************************)
(* Proofs about Lsdb for any set of nodes, window sizes, number ranges and *)
(* scenarios.                                                              *)
(*                                                                         *)
(* All properties together are one inductive invariant but for the bound   *)
(* on ignored messages, which needs to know that each of them was counted: *)
(* by tc->ignored, or as the one stray message (Counted).                  *)
(***************************************************************************)
EXTENDS Lsdb, TLAPS

Counted == \A o \in Remote : dropped[o] <= ignored[o] + (IF err[o] = -1 THEN 0 ELSE 1)

IInv ==
    /\ TypeOK
    /\ InvMutual
    /\ NoImmortalEdges
    /\ Counted
    /\ AddsPublished
    /\ LocalEdgesUnlessBackoff
-----------------------------------------------------------------------------
(* Edges and their inverses *)

LEMMA RevFacts ==
    ASSUME NEW e \in Edge
    PROVE  /\ Rev(e) \in Edge /\ Rev(Rev(e)) = e
           /\ Rev(e)[1] = e[2] /\ Rev(e)[2] = e[1] /\ e[1] # e[2]
           /\ e[1] \in Node /\ e[2] \in Node
BY DEF Edge, Rev

\* the inverses are linked when the edges of one originator are added
LEMMA AddedInverses ==
    ASSUME edges \subseteq Edge, InvMutual, NEW o, NEW New \in SUBSET Edge,
           \A e \in New : e[1] = o
    PROVE  olsr_add_tc_edge_entry(New) = {e \in edges \cup New : Rev(e) \in edges \cup New}
<1> DEFINE L == olsr_add_tc_edge_entry(New)
           S == {e \in edges \cup New : Rev(e) \in edges \cup New}
<1>1. ASSUME NEW e \in L PROVE e \in S
  <2>1. CASE e \in inv
    BY <2>1 DEF InvMutual
  <2>2. CASE e \in New /\ Rev(e) \in edges
    BY <2>2
  <2>3. CASE e \in edges /\ Rev(e) \in New
    BY <2>3
  <2> QED
    BY <1>1, <2>1, <2>2, <2>3 DEF olsr_add_tc_edge_entry
<1>2. ASSUME NEW e \in S PROVE e \in L
  <2>1. e \in Edge /\ Rev(e)[1] = e[2] /\ e[1] # e[2]
    BY <1>2, RevFacts
  <2>2. CASE e \in edges /\ Rev(e) \in edges
    BY <2>2 DEF InvMutual, olsr_add_tc_edge_entry
  <2>3. CASE e \in New /\ Rev(e) \in edges
    BY <2>1, <2>3 DEF InvMutual, olsr_add_tc_edge_entry
  <2>4. CASE e \in edges /\ Rev(e) \in New
    BY <2>1, <2>4 DEF InvMutual, olsr_add_tc_edge_entry
  <2>5. ~(e \in New /\ Rev(e) \in New)
    BY <2>1
  <2> QED
    BY <1>2, <2>2, <2>3, <2>4, <2>5
<1> HIDE DEF L, S
<1>3. L = S
  BY <1>1, <1>2
<1> QED
  BY <1>3 DEF L, S

\* and unlinked when edges are deleted
LEMMA DeletedInverses ==
    ASSUME NEW E \in SUBSET Edge, NEW Gone \in SUBSET Edge
    PROVE  olsr_delete_tc_edge_entry({e \in E : Rev(e) \in E}, Gone)
             = {e \in E \ Gone : Rev(e) \in E \ Gone}
<1> DEFINE L == olsr_delete_tc_edge_entry({e \in E : Rev(e) \in E}, Gone)
           S == {e \in E \ Gone : Rev(e) \in E \ Gone}
<1>1. ASSUME NEW e \in L PROVE e \in S
  <2>1. e \in E /\ Rev(e) \in E /\ e \notin Gone /\ e \in Edge
    BY <1>1 DEF olsr_delete_tc_edge_entry
  <2>2. Rev(e) \notin Gone
    BY <1>1, <2>1, RevFacts DEF olsr_delete_tc_edge_entry
  <2> QED
    BY <2>1, <2>2
<1>2. ASSUME NEW e \in S PROVE e \in L
  <2>1. \A d \in Gone : e # Rev(d)
    BY <1>2, RevFacts
  <2> QED
    BY <1>2, <2>1 DEF olsr_delete_tc_edge_entry
<1> HIDE DEF L, S
<1>3. L = S
  BY <1>1, <1>2
<1> QED
  BY <1>3 DEF L, S

\* Edges removed from one database leave the inverses mutual.
LEMMA RemoveMutual ==
    ASSUME TypeOK, InvMutual, NEW Gone \in SUBSET Edge, RemoveEdges(Gone)
    PROVE  inv' = {e \in edges' : Rev(e) \in edges'}
<1>1. inv = {e \in edges : Rev(e) \in edges} /\ edges \in SUBSET Edge
  BY DEF InvMutual, TypeOK
<1> QED
  BY <1>1, DeletedInverses DEF RemoveEdges

LEMMA FromEdges ==
    ASSUME TypeOK, NEW o
    PROVE  From(o) \in SUBSET Edge /\ From(o) \subseteq edges
BY DEF From, TypeOK

\* the ANSN differences stay in range
LEMMA ModRange ==
    ASSUME NEW x \in Nat, NEW k \in Nat \ {0}
    PROVE  x % k \in 0 .. k - 1
OBVIOUS

LEMMA AgedTyped ==
    ASSUME TypeOK, NEW o \in Remote, NEW n \in net.numbers
    PROVE  Aged(o, n) \in [Edge -> 0 .. AnsnMod - 1]
<1>1. n.ansn \in Nat /\ AnsnMod \in Nat \ {0}
  <2>1. net \in Scenario /\ AnsnMod \in Nat \ {0}
    BY LsdbAssumption DEF TypeOK
  <2>2. net.numbers \subseteq [seq : 0 .. SeqMod - 1, ansn : 0 .. AnsnMod - 1]
    BY <2>1, LsdbAssumption
  <2>3. n.ansn \in 0 .. AnsnMod - 1
    BY <2>2
  <2> QED
    BY <2>1, <2>3
<1>2. \A e \in Edge : age[e] \in Nat /\ age[e] \in 0 .. AnsnMod - 1
  BY <1>1 DEF TypeOK
<1>3. \A e \in Edge : (age[e] + n.ansn) % AnsnMod \in 0 .. AnsnMod - 1
  <2> TAKE e \in Edge
  <2>1. age[e] + n.ansn \in Nat
    BY <1>1, <1>2
  <2> QED
    BY <1>1, <2>1, ModRange
<1> QED
  BY <1>2, <1>3 DEF Aged
-----------------------------------------------------------------------------
(* The steps *)

LEMMA InitIInv == Init => IInv
<1> SUFFICES ASSUME Init PROVE IInv
  OBVIOUS
<1>1. TypeOK
  <2>1. 0 \in 0 .. AnsnMod - 1 /\ 0 \in 0 .. MaxIgnored /\ -1 \in -1 .. SeqMod - 1
    BY LsdbAssumption
  <2>2. age \in [Edge -> 0 .. AnsnMod - 1] /\ ignored \in [Remote -> 0 .. MaxIgnored]
    BY <2>1 DEF Init
  <2>3. err \in [Remote -> -1 .. SeqMod - 1] /\ dropped \in [Remote -> Nat]
    BY <2>1 DEF Init
  <2>4. nb \in [Remote -> {"sym", "broken", "none"}]
    BY DEF Init
  <2>5. /\ net \in Scenario /\ tcs \subseteq Node /\ Me \in tcs /\ edges \subseteq Edge
        /\ inv \subseteq Edge /\ valid \subseteq Remote /\ gc \subseteq Remote /\ published \subseteq Edge
    BY LsdbAssumption DEF Init
  <2>6. changed \in BOOLEAN /\ backoff \in BOOLEAN /\ skipped \in BOOLEAN
    BY DEF Init
  <2> QED
    BY <2>2, <2>3, <2>4, <2>5, <2>6 DEF TypeOK
<1>2. InvMutual /\ NoImmortalEdges /\ AddsPublished
  BY DEF Init, InvMutual, NoImmortalEdges, AddsPublished
<1>3. Counted
  BY DEF Init, Counted
<1>4. LocalEdgesUnlessBackoff
  BY DEF Init, LocalEdgesUnlessBackoff
<1> QED
  BY <1>1, <1>2, <1>3, <1>4 DEF IInv

\* A message that is ignored only counts.
LEMMA IgnoreIInv ==
    ASSUME IInv, NEW o \in Remote, NEW n \in net.numbers, Ignore(o, n)
    PROVE  IInv'
<1>1. UNCHANGED <<net, tcs, edges, age, inv, err, valid, gc, nb, changed, backoff, published, skipped>>
  BY DEF Ignore, calc
<1>2. MaxIgnored \in Nat /\ TypeOK
  BY LsdbAssumption DEF IInv
<1>3. /\ ignored' \in [Remote -> 0 .. MaxIgnored] /\ dropped' \in [Remote -> Nat]
      /\ \A k \in Remote : dropped'[k] - ignored'[k] = dropped[k] - ignored[k]
  <2>1. CASE n.seq = 0
    BY <2>1, <1>2 DEF Ignore, TypeOK
  <2>2. CASE n.seq # 0
    BY <2>2, <1>2 DEF Ignore, TypeOK
  <2> QED
    BY <2>1, <2>2
<1>4. TypeOK'
  BY <1>1, <1>2, <1>3 DEF TypeOK
<1>5. (InvMutual /\ NoImmortalEdges /\ AddsPublished /\ LocalEdgesUnlessBackoff)'
  BY <1>1 DEF IInv, InvMutual, NoImmortalEdges, AddsPublished, LocalEdgesUnlessBackoff
<1>6. Counted'
  BY <1>1, <1>2, <1>3 DEF IInv, Counted, TypeOK
<1> QED
  BY <1>4, <1>5, <1>6 DEF IInv

LEMMA StrayIInv ==
    ASSUME IInv, NEW o \in Remote, NEW n \in net.numbers, Stray(o, n)
    PROVE  IInv'
<1>1. UNCHANGED <<net, tcs, edges, age, inv, ignored, valid, gc, nb, changed, backoff, published, skipped>>
  BY DEF Stray, calc
<1>2. n.seq \in 0 .. SeqMod - 1 /\ SeqMod \in Nat /\ MaxIgnored \in Nat /\ TypeOK
  BY LsdbAssumption DEF IInv, TypeOK
<1>3. err' \in [Remote -> -1 .. SeqMod - 1] /\ dropped' \in [Remote -> Nat]
  BY <1>2 DEF Stray, TypeOK
<1>4. TypeOK'
  BY <1>1, <1>2, <1>3 DEF TypeOK
<1>5. (InvMutual /\ NoImmortalEdges /\ AddsPublished /\ LocalEdgesUnlessBackoff)'
  BY <1>1 DEF IInv, InvMutual, NoImmortalEdges, AddsPublished, LocalEdgesUnlessBackoff
<1>6. Counted'
  <2> SUFFICES ASSUME NEW k \in Remote
               PROVE  dropped'[k] <= ignored'[k] + (IF err'[k] = -1 THEN 0 ELSE 1)
    BY DEF Counted
  <2>1. dropped[k] <= ignored[k] + (IF err[k] = -1 THEN 0 ELSE 1) /\ ignored'[k] = ignored[k]
    BY <1>1 DEF IInv, Counted
  <2>2. dropped[k] \in Nat /\ ignored[k] \in Nat
    BY <1>2 DEF TypeOK
  <2>3. CASE k # o
    BY <1>2, <2>1, <2>3 DEF Stray, TypeOK
  <2>4. CASE k = o
    BY <1>2, <2>1, <2>2, <2>4 DEF Stray, TypeOK
  <2> QED
    BY <2>3, <2>4
<1> QED
  BY <1>4, <1>5, <1>6 DEF IInv

\* What storing the numbers of a message does to the entries.
LEMMA StoreFacts ==
    ASSUME IInv, NEW o \in Remote, Store(o)
    PROVE  /\ tcs' = tcs \cup {o} /\ tcs' \subseteq Node /\ Me \in tcs'
           /\ ignored' \in [Remote -> 0 .. MaxIgnored]
           /\ err' \in [Remote -> -1 .. SeqMod - 1]
           /\ dropped' \in [Remote -> Nat]
           /\ Counted'
<1>1. MaxIgnored \in Nat /\ SeqMod \in Nat \ {0} /\ TypeOK /\ o \in Node
  BY LsdbAssumption DEF IInv, Remote
<1>2. /\ tcs' = tcs \cup {o} /\ tcs' \subseteq Node /\ Me \in tcs'
      /\ ignored' \in [Remote -> 0 .. MaxIgnored]
      /\ err' \in [Remote -> -1 .. SeqMod - 1]
      /\ dropped' \in [Remote -> Nat]
  BY <1>1 DEF Store, TypeOK
<1>3. Counted'
  BY <1>1 DEF Store, TypeOK, IInv, Counted
<1> QED
  BY <1>2, <1>3

LEMMA DiscardIInv ==
    ASSUME IInv, NEW o \in Remote, NEW n \in net.numbers, Discard(o, n)
    PROVE  IInv'
<1>1. /\ UNCHANGED <<net, edges, inv, valid, gc, nb, backoff, published, skipped>>
      /\ changed' = (changed \/ o \notin tcs)
  BY DEF Discard, calc
<1>2. /\ tcs' = tcs \cup {o} /\ tcs' \subseteq Node /\ Me \in tcs'
      /\ ignored' \in [Remote -> 0 .. MaxIgnored] /\ err' \in [Remote -> -1 .. SeqMod - 1]
      /\ dropped' \in [Remote -> Nat] /\ Counted'
  BY StoreFacts DEF Discard
<1>3. age' \in [Edge -> 0 .. AnsnMod - 1]
  BY AgedTyped DEF Discard, IInv
<1>4. TypeOK'
  BY <1>1, <1>2, <1>3 DEF IInv, TypeOK
<1>5. (InvMutual /\ NoImmortalEdges /\ AddsPublished /\ LocalEdgesUnlessBackoff)'
  BY <1>1, <1>2 DEF IInv, InvMutual, NoImmortalEdges, AddsPublished, LocalEdgesUnlessBackoff
<1> QED
  BY <1>2, <1>4, <1>5 DEF IInv

\* A message that is accepted and comes over a symmetric link.
LEMMA InputIInv ==
    ASSUME IInv, NEW o \in Remote, NEW n \in net.numbers, NEW c \in net.bodies[o],
           NEW relevant \in BOOLEAN, NEW tie \in BOOLEAN, olsr_input_tc(o, n, c, relevant, tie)
    PROVE  IInv'
<1> DEFINE Listed == {<<o, d>> : d \in c.listed}
           New == Listed \ edges
           borderSet == c.listed # {} /\ c.border # <<0, 0>>
           aged == Aged(o, n)
           Revoked == IF borderSet
                      THEN {e \in From(o) \ Listed : e[2] \in Borders(c) /\ Outdated(aged[e], tie)}
                      ELSE {}
<1>1. /\ Store(o)
      /\ edges' = (edges \cup New) \ Revoked
      /\ age' = [e \in Edge |-> IF e \in Listed \cup Revoked THEN 0 ELSE aged[e]]
      /\ inv' = olsr_delete_tc_edge_entry(olsr_add_tc_edge_entry(New), Revoked)
      /\ valid' = valid \cup {o}
      /\ gc' = IF borderSet THEN gc ELSE gc \cup {o}
      /\ changed' = (changed \/ o \notin tcs \/ New # {} \/ relevant)
      /\ UNCHANGED <<net, nb, backoff, published, skipped>>
  BY DEF olsr_input_tc, SetValidity, olsr_tc_update_edge, calc
<1>2. /\ tcs' = tcs \cup {o} /\ tcs' \subseteq Node /\ Me \in tcs'
      /\ ignored' \in [Remote -> 0 .. MaxIgnored] /\ err' \in [Remote -> -1 .. SeqMod - 1]
      /\ dropped' \in [Remote -> Nat] /\ Counted'
  BY <1>1, StoreFacts
<1>3. TypeOK /\ InvMutual /\ o \in Node /\ o # Me /\ edges \in SUBSET Edge
  BY DEF IInv, TypeOK, Remote
<1>4. /\ Listed \in SUBSET Edge /\ New \in SUBSET Edge /\ \A e \in Listed : e[1] = o
  <2>1. c.listed \subseteq Node \ {o}
    BY <1>3, LsdbAssumption DEF TypeOK
  <2> QED
    BY <1>3, <2>1 DEF Edge
<1>5. Revoked \in SUBSET Edge /\ \A e \in Revoked : e[1] = o
  BY <1>3, FromEdges DEF From
<1>6. aged \in [Edge -> 0 .. AnsnMod - 1]
  BY <1>3, AgedTyped
<1>7. 0 \in 0 .. AnsnMod - 1
  BY LsdbAssumption
<1> HIDE DEF Listed, New, Revoked, aged, borderSet
<1>8. age' \in [Edge -> 0 .. AnsnMod - 1]
  BY <1>1, <1>6, <1>7
<1>9. edges' \in SUBSET Edge /\ \A e \in edges' : e \in edges \/ e[1] = o
  BY <1>1, <1>3, <1>4 DEF New
<1>10. inv' = {e \in edges' : Rev(e) \in edges'}
  <2> DEFINE E == edges \cup New
  <2>1. olsr_add_tc_edge_entry(New) = {e \in E : Rev(e) \in E}
    BY <1>3, <1>4, AddedInverses DEF New
  <2>2. E \in SUBSET Edge /\ edges' = E \ Revoked
    BY <1>1, <1>3, <1>4
  <2>3. inv' = olsr_delete_tc_edge_entry({e \in E : Rev(e) \in E}, Revoked)
    BY <1>1, <2>1
  <2> HIDE DEF E
  <2>4. olsr_delete_tc_edge_entry({e \in E : Rev(e) \in E}, Revoked)
          = {e \in E \ Revoked : Rev(e) \in E \ Revoked}
    BY <1>5, <2>2, DeletedInverses
  <2> QED
    BY <2>2, <2>3, <2>4
<1>11. TypeOK'
  <2>1. edges' \subseteq Edge /\ inv' \subseteq Edge
    BY <1>9, <1>10
  <2>2. valid' \subseteq Remote /\ gc' \subseteq Remote
    BY <1>1, <1>3 DEF TypeOK
  <2>3. changed' \in BOOLEAN
    BY <1>1, <1>3 DEF TypeOK
  <2> QED
    BY <1>1, <1>2, <1>3, <1>8, <2>1, <2>2, <2>3 DEF TypeOK
<1>12. InvMutual'
  BY <1>2, <1>3, <1>9, <1>10 DEF InvMutual
<1>13. NoImmortalEdges'
  BY <1>1, <1>9 DEF IInv, NoImmortalEdges
<1>14. AddsPublished'
  BY <1>1 DEF IInv, AddsPublished
<1>15. LocalEdgesUnlessBackoff'
  <2>1. \A k \in Remote : <<Me, k>> \in edges' <=> <<Me, k>> \in edges
    BY <1>1, <1>3, <1>4, <1>5 DEF New
  <2> QED
    BY <1>1, <2>1 DEF IInv, LocalEdgesUnlessBackoff
<1> QED
  BY <1>2, <1>11, <1>12, <1>13, <1>14, <1>15 DEF IInv

\* Edges of remote originators go: the local ones stay.
LEMMA RemovalIInv ==
    ASSUME IInv, NEW o \in Remote, NEW Gone \in SUBSET From(o), RemoveEdges(Gone),
           Gone = From(o) \/ (o \in tcs' /\ (o \in valid => o \in valid')),
           valid \ {o} \subseteq valid', tcs \ {o} \subseteq tcs',
           UNCHANGED <<nb, backoff, published, skipped>>, changed => changed'
    PROVE  (InvMutual /\ NoImmortalEdges /\ AddsPublished /\ LocalEdgesUnlessBackoff)'
           /\ edges' \subseteq Edge /\ inv' \subseteq Edge /\ age' \in [Edge -> 0 .. AnsnMod - 1]
<1>1. TypeOK /\ InvMutual /\ Gone \in SUBSET Edge /\ edges' = edges \ Gone /\ 0 \in 0 .. AnsnMod - 1
  BY FromEdges, LsdbAssumption DEF IInv, RemoveEdges
<1>2. inv' = {e \in edges' : Rev(e) \in edges'}
  BY <1>1, RemoveMutual
<1>3. \A e \in edges' : e \in edges /\ (e[1] = o => Gone # From(o))
  BY <1>1 DEF From
<1>4. InvMutual'
  BY <1>1, <1>2, <1>3 DEF InvMutual
<1>5. NoImmortalEdges'
  BY <1>1, <1>3 DEF IInv, NoImmortalEdges
<1>6. AddsPublished'
  BY <1>1 DEF IInv, AddsPublished, TypeOK
<1>7. \A k \in Remote : <<Me, k>> \in edges' <=> <<Me, k>> \in edges
  BY <1>1 DEF From, Remote
<1>8. LocalEdgesUnlessBackoff'
  BY <1>7 DEF IInv, LocalEdgesUnlessBackoff
<1>9. edges' \subseteq Edge /\ inv' \subseteq Edge /\ age' \in [Edge -> 0 .. AnsnMod - 1]
  BY <1>1, <1>2 DEF TypeOK, RemoveEdges
<1> QED
  BY <1>4, <1>5, <1>6, <1>8, <1>9

LEMMA ExpireIInv ==
    ASSUME IInv, NEW o \in Remote, olsr_expire_tc_entry(o)
    PROVE  IInv'
<1>1. /\ RemoveEdges(From(o)) /\ tcs' = tcs \ {o} /\ valid' = valid \ {o} /\ gc' = gc \ {o}
      /\ ignored' = [ignored EXCEPT ![o] = 0] /\ err' = [err EXCEPT ![o] = -1]
      /\ dropped' = [dropped EXCEPT ![o] = 0] /\ changed' = TRUE
      /\ UNCHANGED <<net, nb, backoff, published, skipped>>
  BY DEF olsr_expire_tc_entry, calc
<1>2. TypeOK /\ MaxIgnored \in Nat /\ SeqMod \in Nat \ {0} /\ o # Me
  BY LsdbAssumption DEF IInv, Remote
<1>3. (InvMutual /\ NoImmortalEdges /\ AddsPublished /\ LocalEdgesUnlessBackoff)'
      /\ edges' \subseteq Edge /\ inv' \subseteq Edge /\ age' \in [Edge -> 0 .. AnsnMod - 1]
  BY <1>1, RemovalIInv
<1>4. TypeOK'
  BY <1>1, <1>2, <1>3 DEF TypeOK
<1>5. Counted'
  BY <1>1, <1>2 DEF IInv, Counted, TypeOK
<1> QED
  BY <1>3, <1>4, <1>5 DEF IInv

LEMMA CollectIInv ==
    ASSUME IInv, NEW o \in Remote, NEW tie \in BOOLEAN, olsr_expire_tc_edge_gc(o, tie)
    PROVE  IInv'
<1> DEFINE Gone == {e \in From(o) : Outdated(age[e], tie)}
<1>1. /\ RemoveEdges(Gone) /\ gc' = gc \ {o} /\ changed' = (changed \/ Gone # {})
      /\ UNCHANGED <<net, tcs, ignored, err, valid, dropped, nb, backoff, published, skipped>>
  BY DEF olsr_expire_tc_edge_gc, calc
<1>2. TypeOK
  BY DEF IInv
<1>3. Gone \in SUBSET From(o)
  OBVIOUS
<1> HIDE DEF Gone
<1>4. (InvMutual /\ NoImmortalEdges /\ AddsPublished /\ LocalEdgesUnlessBackoff)'
      /\ edges' \subseteq Edge /\ inv' \subseteq Edge /\ age' \in [Edge -> 0 .. AnsnMod - 1]
  <2>1. CASE From(o) = {}
    <3>1. Gone = From(o)
      BY <1>3, <2>1
    <3> QED
      BY <1>1, <1>3, <3>1, RemovalIInv
  <2>2. CASE From(o) # {}
    <3>1. o \in tcs'
      BY <1>1, <2>2 DEF IInv, InvMutual, From
    <3> QED
      BY <1>1, <1>3, <3>1, RemovalIInv
  <2> QED
    BY <2>1, <2>2
<1>5. TypeOK'
  BY <1>1, <1>2, <1>4 DEF TypeOK
<1>6. Counted'
  BY <1>1 DEF IInv, Counted
<1> QED
  BY <1>4, <1>5, <1>6 DEF IInv

LEMMA QuietIInv ==
    ASSUME IInv, UNCHANGED <<net, db, published, skipped>>,
           \/ UNCHANGED <<nb, changed>> /\ backoff' \in BOOLEAN
           \/ changed' = TRUE /\ nb' \in [Remote -> {"sym", "broken", "none"}] /\ UNCHANGED backoff
    PROVE  IInv'
<1>1. TypeOK'
  BY DEF IInv, TypeOK, db
<1>2. (InvMutual /\ NoImmortalEdges /\ Counted /\ AddsPublished)'
  BY DEF IInv, InvMutual, NoImmortalEdges, Counted, AddsPublished, db
<1>3. LocalEdgesUnlessBackoff'
  BY DEF IInv, LocalEdgesUnlessBackoff, db
<1> QED
  BY <1>1, <1>2, <1>3 DEF IInv

LEMMA ProcessIInv ==
    ASSUME IInv, olsr_process_changes
    PROVE  IInv'
<1>1. /\ published' = edges' /\ changed' = FALSE
      /\ UNCHANGED <<net, tcs, ignored, err, valid, gc, dropped, nb>>
  BY DEF olsr_process_changes
<1>2. TypeOK /\ InvMutual /\ edges \in SUBSET Edge
  BY DEF IInv, TypeOK
<1>3. Counted'
  BY <1>1 DEF IInv, Counted
<1>4. CASE backoff
  <2>1. skipped' = TRUE /\ UNCHANGED <<backoff, edges, age, inv>>
    BY <1>4 DEF olsr_process_changes, olsr_calculate_routing_table
  <2>2. TypeOK'
    BY <1>1, <1>2, <2>1 DEF TypeOK
  <2>3. (InvMutual /\ NoImmortalEdges /\ AddsPublished /\ LocalEdgesUnlessBackoff)'
    BY <1>1, <2>1 DEF IInv, InvMutual, NoImmortalEdges, AddsPublished, LocalEdgesUnlessBackoff
  <2> QED
    BY <1>3, <2>2, <2>3 DEF IInv
<1>5. CASE ~backoff
  <2> DEFINE New == {<<Me, k>> : k \in {j \in Remote : nb[j] = "sym"}} \ edges
             Gone == {<<Me, k>> : k \in {j \in Remote : nb[j] = "broken"}} \cap edges
             E == edges \cup New
  <2>1. /\ backoff' = TRUE /\ skipped' = FALSE
        /\ edges' = E \ Gone
        /\ age' = [e \in Edge |-> IF e \in New \cup Gone THEN 0 ELSE age[e]]
        /\ inv' = olsr_delete_tc_edge_entry(olsr_add_tc_edge_entry(New), Gone)
    BY <1>5 DEF olsr_process_changes, olsr_calculate_routing_table, CalculateLocalEdges
  <2>2. New \in SUBSET Edge /\ Gone \in SUBSET Edge /\ (\A e \in New : e[1] = Me) /\ E \in SUBSET Edge
    BY <1>2, LsdbAssumption DEF Edge, Remote
  <2>3. \A k \in Remote : /\ nb[k] = "sym" => <<Me, k>> \in edges'
                          /\ nb[k] = "broken" => <<Me, k>> \notin edges'
    BY <2>1
  <2> HIDE DEF New, Gone
  <2>4. olsr_add_tc_edge_entry(New) = {e \in E : Rev(e) \in E}
    BY <1>2, <2>2, AddedInverses
  <2> HIDE DEF E
  <2>5. olsr_delete_tc_edge_entry({e \in E : Rev(e) \in E}, Gone)
          = {e \in E \ Gone : Rev(e) \in E \ Gone}
    BY <2>2, DeletedInverses
  <2>6. inv' = {e \in edges' : Rev(e) \in edges'} /\ edges' \subseteq Edge
    BY <2>1, <2>2, <2>4, <2>5
  <2>7. \A e \in edges' : e \in edges \/ e[1] = Me
    BY <2>1, <2>2 DEF E
  <2>8. 0 \in 0 .. AnsnMod - 1
    BY LsdbAssumption
  <2>9. TypeOK'
    <3>1. age' \in [Edge -> 0 .. AnsnMod - 1]
      BY <1>2, <2>1, <2>8 DEF TypeOK
    <3> QED
      BY <1>1, <1>2, <2>1, <2>6, <3>1 DEF TypeOK
  <2>10. InvMutual' /\ NoImmortalEdges'
    BY <1>1, <1>2, <2>6, <2>7 DEF IInv, TypeOK, InvMutual, NoImmortalEdges
  <2>11. AddsPublished' /\ LocalEdgesUnlessBackoff'
    BY <1>1, <2>3 DEF AddsPublished, LocalEdgesUnlessBackoff
  <2> QED
    BY <1>3, <2>9, <2>10, <2>11 DEF IInv
<1> QED
  BY <1>4, <1>5

LEMMA IInvStep == IInv /\ [Next]_vars => IInv'
<1> SUFFICES ASSUME IInv, [Next]_vars PROVE IInv'
  OBVIOUS
<1>1. CASE UNCHANGED vars
  <2>1. backoff' \in BOOLEAN /\ UNCHANGED <<net, db, published, skipped, nb, changed>>
    BY <1>1 DEF vars, calc, IInv, TypeOK
  <2> QED
    BY <2>1, QuietIInv
<1>2. ASSUME NEW o \in Remote, NEW n \in net.numbers, Receive(o, n) PROVE IInv'
  BY <1>2, IgnoreIInv, StrayIInv, DiscardIInv, InputIInv DEF Receive
<1>3. ASSUME NEW n \in net.nbrs, NEW s \in {"sym", "broken", "none"}, NeighbourChange(n, s)
      PROVE IInv'
  <2>1. /\ changed' = TRUE /\ nb' \in [Remote -> {"sym", "broken", "none"}]
        /\ UNCHANGED <<net, db, published, skipped, backoff>>
    BY <1>3 DEF NeighbourChange, calc, IInv, TypeOK
  <2> QED
    BY <2>1, QuietIInv
<1>4. CASE olsr_expire_spf_backoff
  <2>1. backoff' = FALSE /\ UNCHANGED <<net, db, published, skipped, nb, changed>>
    BY <1>4 DEF olsr_expire_spf_backoff
  <2> QED
    BY <2>1, QuietIInv
<1> QED
  BY <1>1, <1>2, <1>3, <1>4, ExpireIInv, CollectIInv, ProcessIInv DEF Next

LEMMA IInvAlways == Spec => []IInv
BY InitIInv, IInvStep, PTL DEF Spec

\* For any number ranges and windows the numbers and tables keep their types.
THEOREM LsdbTypeCorrect == Spec => []TypeOK
<1>1. IInv => TypeOK
  BY DEF IInv
<1> QED
  BY <1>1, IInvAlways, PTL

\* For any messages in any order, the short cuts to inverse edges are exact.
THEOREM InversesMutual == Spec => []InvMutual
<1>1. IInv => InvMutual
  BY DEF IInv
<1> QED
  BY <1>1, IInvAlways, PTL

\* For any messages in any order, edges of a remote node have a timer.
THEOREM EdgesMortal == Spec => []NoImmortalEdges
<1>1. IInv => NoImmortalEdges
  BY DEF IInv
<1> QED
  BY <1>1, IInvAlways, PTL

\* For any window sizes, an originator is ignored at most MaxIgnored + 1 times in
\* a row.
THEOREM DropsBounded == Spec => []BoundedDrops
<1>1. IInv => BoundedDrops
  <2> SUFFICES ASSUME IInv, NEW o \in Remote PROVE dropped[o] <= MaxIgnored + 1
    BY DEF BoundedDrops
  <2>1. dropped[o] \in Nat /\ ignored[o] \in 0 .. MaxIgnored /\ MaxIgnored \in Nat
    BY LsdbAssumption DEF IInv, TypeOK
  <2>2. dropped[o] <= ignored[o] + (IF err[o] = -1 THEN 0 ELSE 1)
    BY DEF IInv, Counted
  <2> QED
    BY <2>1, <2>2
<1> QED
  BY <1>1, IInvAlways, PTL

\* For any messages and neighbours in any order, new edges reach the plugins.
THEOREM NewEdgesPublished == Spec => []AddsPublished
<1>1. IInv => AddsPublished
  BY DEF IInv
<1> QED
  BY <1>1, IInvAlways, PTL

\* For any neighbours in any order, only a backoff delays the local edges.
THEOREM LocalEdgesFollow == Spec => []LocalEdgesUnlessBackoff
<1>1. IInv => LocalEdgesUnlessBackoff
  BY DEF IInv
<1> QED
  BY <1>1, IInvAlways, PTL

-----------------------------------------------------------------------------
(* Windows of sequence numbers *)

LEMMA Residues ==
    ASSUME NEW mod \in Nat \ {0}, NEW a \in 0 .. mod - 1
    PROVE  a % mod = a /\ (a + mod) % mod = a /\ (a - mod) % mod = a
OBVIOUS

(* A number d ahead of s, reduced.                                         *)
LEMMA Ahead ==
    ASSUME NEW mod \in Nat \ {0}, NEW s \in 0 .. mod - 1, NEW d \in Nat, d < mod
    PROVE  (s + d) % mod = IF s + d < mod THEN s + d ELSE s + d - mod
<1>1. CASE s + d < mod
  <2>1. s + d \in 0 .. mod - 1
    BY <1>1
  <2> QED BY <1>1, <2>1, Residues
<1>2. CASE ~(s + d < mod)
  <2> DEFINE a == s + d - mod
  <2>1. a \in 0 .. mod - 1 /\ a + mod = s + d
    BY <1>2
  <2>2. (a + mod) % mod = a
    BY <2>1, Residues
  <2> QED BY <1>2, <2>1, <2>2
<1> QED BY <1>1, <1>2

(* A number d behind s, reduced.                                           *)
LEMMA Behind ==
    ASSUME NEW mod \in Nat \ {0}, NEW s \in 0 .. mod - 1, NEW d \in Nat, d <= mod
    PROVE  (s - d) % mod = IF s - d < 0 THEN s - d + mod ELSE s - d
<1>1. CASE s - d >= 0
  <2>1. s - d \in 0 .. mod - 1
    BY <1>1
  <2> QED BY <1>1, <2>1, Residues
<1>2. CASE ~(s - d >= 0)
  <2> DEFINE a == s - d + mod
  <2>1. a \in 0 .. mod - 1 /\ a - mod = s - d
    BY <1>2
  <2>2. (a - mod) % mod = a
    BY <2>1, Residues
  <2> QED BY <1>2, <2>1, <2>2
<1> QED BY <1>1, <1>2

(* The window of w numbers that ends with s.                               *)
LEMMA SeenWindow ==
    ASSUME NEW mod \in Nat \ {0}, NEW s \in 0 .. mod - 1, NEW d \in 0 .. mod - 1, NEW w \in 1 .. mod
    PROVE  olsr_seq_inrange_high(s - w, s, (s + d) % mod, mod) <=> (d = 0 \/ d > mod - w)
<1> DEFINE q == (s + d) % mod
           b == (s - w) % mod
<1>1. q = IF s + d < mod THEN s + d ELSE s + d - mod
  <2>1. d \in Nat /\ d < mod
    OBVIOUS
  <2> QED BY <2>1, Ahead
<1>2. b = IF s - w < 0 THEN s - w + mod ELSE s - w
  BY Behind
<1>3. olsr_seq_inrange_high(s - w, s, q, mod) <=>
        IF s - w < 0 THEN q > b \/ q <= s ELSE q > s - w /\ q <= s
  BY DEF olsr_seq_inrange_high
<1> HIDE DEF q, b
<1>4. (IF s - w < 0 THEN q > b \/ q <= s ELSE q > s - w /\ q <= s) <=> (d = 0 \/ d > mod - w)
  BY <1>1, <1>2
<1> QED BY <1>3, <1>4 DEF q

(* The window of w numbers that starts behind s, and the one that starts   *)
(* with s.                                                                 *)
LEMMA FutureWindow ==
    ASSUME NEW mod \in Nat \ {0}, NEW s \in 0 .. mod - 1, NEW d \in 0 .. mod - 1, NEW w \in Nat, w < mod
    PROVE  /\ olsr_seq_inrange_high(s, s + w, (s + d) % mod, mod) <=> d \in 1 .. w
           /\ olsr_seq_inrange_low(s, s + w, (s + d) % mod, mod) <=> d \in 0 .. w - 1
<1> DEFINE q == (s + d) % mod
           e == (s + w) % mod
<1>1. q = IF s + d < mod THEN s + d ELSE s + d - mod
  <2>1. d \in Nat /\ d < mod
    OBVIOUS
  <2> QED BY <2>1, Ahead
<1>2. e = IF s + w < mod THEN s + w ELSE s + w - mod
  BY Ahead
<1>3. /\ olsr_seq_inrange_high(s, s + w, q, mod) <=>
           IF s + w >= mod THEN q > s \/ q <= e ELSE q > s /\ q <= s + w
      /\ olsr_seq_inrange_low(s, s + w, q, mod) <=>
           IF s + w >= mod THEN q >= s \/ q < e ELSE q >= s /\ q < s + w
  BY DEF olsr_seq_inrange_high, olsr_seq_inrange_low
<1> HIDE DEF q, e
<1>4. (IF s + w >= mod THEN q > s \/ q <= e ELSE q > s /\ q <= s + w) <=> d \in 1 .. w
  BY <1>1, <1>2
<1>5. (IF s + w >= mod THEN q >= s \/ q < e ELSE q >= s /\ q < s + w) <=> d \in 0 .. w - 1
  BY <1>1, <1>2
<1> QED BY <1>3, <1>4, <1>5 DEF q

(* Which of two ANSNs is greater.                                          *)
LEMMA GreaterAnsn ==
    ASSUME AnsnMod \in Nat \ {0}, NEW s \in 0 .. AnsnMod - 1, NEW d \in 0 .. AnsnMod - 1
    PROVE  SEQNO_GREATER_THAN(s, (s - d) % AnsnMod, AnsnMod) <=> Outdated(d, (s - d) % AnsnMod > s)
<1> DEFINE q == (s - d) % AnsnMod
           h == (AnsnMod - 1) \div 2
<1>1. q = IF s - d < 0 THEN s - d + AnsnMod ELSE s - d
  BY Behind
<1>2. h \in Nat /\ (AnsnMod = 2 * h + 1 \/ AnsnMod = 2 * h + 2)
  OBVIOUS
<1>3. SEQNO_GREATER_THAN(s, q, AnsnMod) <=> (s > q /\ s - q <= h) \/ (q > s /\ q - s > h)
  BY DEF SEQNO_GREATER_THAN
<1>4. Outdated(d, q > s) <=> d \in 1 .. h \/ (q > s /\ 2 * d = AnsnMod)
  BY DEF Outdated
<1> HIDE DEF q, h
<1>5. ((s > q /\ s - q <= h) \/ (q > s /\ q - s > h)) <=> (d \in 1 .. h \/ (q > s /\ 2 * d = AnsnMod))
  BY <1>1, <1>2
<1> QED BY <1>3, <1>4, <1>5 DEF q

(* The windows of olsr_input_tc, and the comparison of the ANSNs of edges, *)
(* depend on the distance of two numbers only, wherever in their range     *)
(* they are: the handlers may be described by distances.                   *)
THEOREM WindowsAlwaysRelative == Spec => []WindowsAreRelative
<1>1. TypeOK => WindowsAreRelative
  <2> SUFFICES ASSUME TypeOK PROVE WindowsAreRelative
    OBVIOUS
  <2> DEFINE ws == TC_SEQNO_WINDOW * TC_SEQNO_WINDOW_MULT
             wa == TC_ANSN_WINDOW * TC_ANSN_WINDOW_MULT
  <2>1. /\ SeqMod \in Nat \ {0} /\ AnsnMod \in Nat \ {0}
        /\ TC_SEQNO_WINDOW \in 1 .. SeqMod /\ TC_ANSN_WINDOW \in 1 .. AnsnMod
        /\ ws < SeqMod /\ wa < AnsnMod
    BY LsdbAssumption
  <2>2. ws \in Nat /\ wa \in Nat
    BY LsdbAssumption
  <2>3. /\ net.numbers \subseteq [seq : 0 .. SeqMod - 1, ansn : 0 .. AnsnMod - 1]
        /\ edges \subseteq Edge /\ age \in [Edge -> 0 .. AnsnMod - 1]
    BY LsdbAssumption DEF TypeOK
  <2> HIDE DEF ws, wa
  <2>4. ASSUME NEW n \in net.numbers, NEW s \in 0 .. SeqMod - 1
        PROVE  /\ olsr_seq_inrange_high(s - TC_SEQNO_WINDOW, s, (s + n.seq) % SeqMod, SeqMod)
                     <=> SeenSeq(n.seq)
               /\ olsr_seq_inrange_high(s, s + ws, (s + n.seq) % SeqMod, SeqMod)
                     <=> FutureSeq(n.seq)
    <3>1. n.seq \in 0 .. SeqMod - 1
      BY <2>3
    <3> QED BY <2>1, <2>2, <3>1, SeenWindow, FutureWindow DEF SeenSeq, FutureSeq, ws
  <2>5. ASSUME NEW n \in net.numbers, NEW s \in 0 .. AnsnMod - 1
        PROVE  /\ olsr_seq_inrange_high(s - TC_ANSN_WINDOW, s, (s + n.ansn) % AnsnMod, AnsnMod)
                     <=> SeenAnsn(n.ansn)
               /\ olsr_seq_inrange_low(s, s + wa, (s + n.ansn) % AnsnMod, AnsnMod)
                     <=> FutureAnsn(n.ansn)
    <3>1. n.ansn \in 0 .. AnsnMod - 1
      BY <2>3
    <3> QED BY <2>1, <2>2, <3>1, SeenWindow, FutureWindow DEF SeenAnsn, FutureAnsn, wa
  <2>6. ASSUME NEW e \in edges, NEW s \in 0 .. AnsnMod - 1
        PROVE  SEQNO_GREATER_THAN(s, (s - age[e]) % AnsnMod, AnsnMod)
                  <=> Outdated(age[e], (s - age[e]) % AnsnMod > s)
    <3>1. age[e] \in 0 .. AnsnMod - 1
      BY <2>3
    <3> QED BY <2>1, <3>1, GreaterAnsn
  <2> QED BY <2>4, <2>5, <2>6 DEF WindowsAreRelative, ws, wa
<1> QED BY <1>1, LsdbTypeCorrect, PTL

=============================================================================
