----------------------------- MODULE MCSerPath -----------------------------
(* Small instances of SerPath: this host m and its neighbours. *)
EXTENDS SerPath, TLC

CONSTANTS m, a, b, x, y, net

\* every interface on one network
MCFlat == [c \in Addr |-> net]

\* the neighbours are only reached through their aliases
MCFar == [c \in Addr |-> IF c \in {a, b} THEN "far" ELSE net]

\* without local aliases the neighbours are interchangeable then
Swaps == Permutations({a, b})
=============================================================================
