---------------------------- MODULE MCForwarding ----------------------------
(* Four hosts.  c has a second interface x, which b uses to reach it; a and *)
(* c have no common network.                                               *)
EXTENDS Forwarding, TLC

CONSTANTS a, b, c, d, x

MCOwner == [i \in Addr |-> IF i = x THEN c ELSE i]
MCRealAddr == [e \in Node \X Node |->
    IF e = <<b, c>> THEN x ELSE IF e \in {<<a, c>>, <<c, a>>} THEN NoAddr ELSE e[2]]

Sym(E) == {e \in Node \X Node : {e[1], e[2]} \in E}

\* a line, and the diamond with it
Line == Sym({{a, b}, {b, c}, {c, d}})
Diamond == Line \cup Sym({{a, d}, {b, d}})
MCGraphs == {Line, Diamond, Sym({{a, b}, {b, d}, {d, c}})}
=============================================================================
