----------------------------- MODULE MCFlooding -----------------------------
(* Small networks for TLC.                                               *)
EXTENDS Flooding, TLC

CONSTANTS src, u, w, m, k, x

Adjacent(E) == [h \in Node |-> {o \in Node : {h, o} \in E}]
Kinds(f) == [h \in Node |-> IF h \in DOMAIN f THEN f[h] ELSE {}]

TwoHop(nbr, h) == {o \in Node : o # h /\ o \notin nbr[h] /\ nbr[o] \cap nbr[h] # {}}
Covers(nbr, h) ==
    {R \in SUBSET nbr[h] : \A o \in TwoHop(nbr, h) : R \cap nbr[o] # {}}
Least(S) == {R \in S : \A Q \in S : Q \subseteq R => Q = R}

(* src - {u, w} - {m, k} - x, each on a level hears each on the next.  m  *)
(* forwards for u, m or k for w.  Once src is known, the one that hears it *)
(* first from the neighbour it does not forward for never forwards it.     *)
Levels == Adjacent({{src, u}, {src, w}, {u, m}, {u, k}, {w, m}, {w, k}, {m, x}, {k, x}})

Reach ==
    [hears |-> Levels, sym |-> Levels,
     relays |-> {[h \in Node |-> CASE h = src -> a [] h = u -> b [] h = w -> c
                                    [] h \in {m, k} -> {u} [] h = x -> {m}] :
        a \in {{u, w}}, b \in {{m}}, c \in Least(Covers(Levels, w))},
     kinds |-> Kinds(src :> {"flood"} @@ x :> {"flood"}), first |-> {0},
     messages |-> 3, apart |-> TRUE, faults |-> 0]

(* src and its two neighbours hear each other; m forwards for src, whose *)
(* numbers wrap.                                                         *)
Triangle == Adjacent({{src, u}, {src, m}, {u, m}})
Wrap ==
    [hears |-> Triangle, sym |-> Triangle,
     relays |-> {[h \in Node |-> IF h = src THEN {m} ELSE {}]},
     kinds |-> Kinds(src :> {"flood"}), first |-> {SeqRange - 2}, messages |-> 6, apart |-> FALSE, faults |-> 0]

(* src may start again with any number, u may miss packets of src or not hear*)
(* src for a long time.                                                  *)
Pair == Adjacent({{src, u}})
Restarted ==
    [hears |-> Pair, sym |-> Pair, relays |-> {[h \in Node |-> {}]},
     kinds |-> Kinds(src :> {"hello"}), first |-> {4}, messages |-> 5, apart |-> FALSE, faults |-> 1]

(* A line src - u - x; x also hears src, which does not hear x.  u packs its*)
(* own messages with those it forwards.                                  *)
Line == Adjacent({{src, u}, {u, x}})
Mixed ==
    [hears |-> [Line EXCEPT ![src] = @ \cup {x}], sym |-> Line,
     relays |-> {[h \in Node |-> IF h \in {src, x} THEN {u} ELSE {}]},
     kinds |-> Kinds(src :> {"hello", "flood"} @@ u :> {"unknown"}),
     first |-> {0}, messages |-> 3, apart |-> FALSE, faults |-> 0]

MCScenario == {Reach, Wrap, Restarted, Mixed}
=============================================================================
