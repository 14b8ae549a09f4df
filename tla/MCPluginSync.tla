---------------------------- MODULE MCPluginSync ----------------------------
(* This host m, two other nodes, one alias. *)
EXTENDS PluginSync, TLC

CONSTANTS m, a, b, x, y, net

MCSubnet == [c \in Addr |-> net]

\* every main address in a bucket of its own, and a and b in the same one
OwnBucket == [n \in Node |-> n]
SameBucket == [n \in Node |-> IF n = b THEN a ELSE n]
=============================================================================
