------------------------------- MODULE MCLsdb -------------------------------
(* Small networks around node 1 for TLC.                                   *)
EXTENDS Lsdb, Sequences

(* The body that lists the addresses of s in this order.                   *)
Lists(o, s, flags) ==
    [listed |-> {s[i] : i \in DOMAIN s}, border |-> flags,
     first |-> IF s = <<>> THEN o ELSE s[1],
     last |-> IF s = <<>> THEN o ELSE s[Len(s)]]

Open == <<All, All>>
Numbers(S) == {[seq |-> p[1], ansn |-> p[2]] : p \in S}
Bodies(f) == [o \in Remote |-> IF o \in DOMAIN f THEN f[o] ELSE {}]

(* One originator: old, new and stray numbers, parts of a message.         *)
AnyNumbers ==
    [bodies |-> Bodies([o \in {2} |->
        {Lists(2, s, <<0, 0>>) : s \in {<<>>, <<3>>}}
          \cup {Lists(2, s, Open) : s \in {<<3, 4>>, <<4, 3>>}}
          \cup {Lists(2, <<3>>, <<All, 3>>), Lists(2, <<4>>, <<3, All>>)}]),
     numbers |-> Numbers({<<0, 0>>, <<7, 3>>, <<7, 0>>, <<1, 1>>, <<5, 1>>, <<6, 0>>, <<1, 2>>}),
     nbrs |-> {}]

(* Two originators that advertise each other, their messages in order.     *)
EachOther ==
    [bodies |-> Bodies([o \in {2, 3} |->
        {Lists(o, s, <<0, 0>>) : s \in {<<>>, <<5 - o>>}}]),
     numbers |-> Numbers({<<1, 0>>, <<1, 1>>}),
     nbrs |-> {}]

(* An originator that advertises this node, and neighbours that come and go. *)
Neighbours ==
    [bodies |-> Bodies([o \in {2} |-> {Lists(2, s, <<0, 0>>) : s \in {<<>>, <<1>>}}]),
     numbers |-> Numbers({<<1, 0>>, <<1, 1>>}),
     nbrs |-> {2, 3}]

(* One originator whose messages are complete and arrive in order.         *)
Complete ==
    [bodies |-> Bodies([o \in {2} |-> {Lists(2, s, Open) : s \in {<<3>>, <<3, 4>>}}]),
     numbers |-> Numbers({<<1, 1>>}),
     nbrs |-> {}]

MCScenario == {AnyNumbers, EachOther, Neighbours, Complete}
=============================================================================
