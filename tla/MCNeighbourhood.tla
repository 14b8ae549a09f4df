--------------------------- MODULE MCNeighbourhood --------------------------
(* Three neighbourhoods for TLC.                                         *)
EXTENDS Neighbourhood, TLC

CONSTANTS a, b, far, i, j

Msg(me, mpr, will, nbrs) == [me |-> me, mpr |-> mpr, will |-> will, nbrs |-> nbrs]
Nobody == [k \in {} |-> 0]

(* One neighbour on two interfaces that says everything a neighbour may. *)
Sensing ==
    [links |-> {a} \X Iface,
     hellos |-> [n \in Nbr |-> IF n = b THEN {} ELSE
        {Msg(me, FALSE, "WILL_DEFAULT", Nobody) : me \in {"ASYM_LINK", "LOST_LINK", "UNSPEC_LINK"}}
          \cup {Msg("SYM_LINK", TRUE, "WILL_DEFAULT", far :> 1)}
          \cup {Msg("SYM_LINK", FALSE, w, Nobody) : w \in {"WILL_NEVER", "WILL_ALWAYS"}}],
     costs |-> [n \in Nbr |-> {1, Broken}]]

(* Two neighbours that reach far, one of them also over the other, which *)
(* is cheaper or dearer than its own link.                               *)
Choosing ==
    [links |-> {<<a, i>>, <<b, i>>},
     hellos |-> [n \in Nbr |->
        {Msg("SYM_LINK", FALSE, "WILL_DEFAULT", f) :
            f \in IF n = a THEN {(far :> Broken @@ b :> 5), (far :> 1 @@ b :> 1)}
                  ELSE {Nobody, far :> 1}}],
     costs |-> [n \in Nbr |-> IF n = a THEN {1, Broken} ELSE {3, Broken}]]

(* One neighbour with two links of different costs: the best one depends *)
(* on the order of the links in the list.                                *)
Measuring ==
    [links |-> {a} \X Iface,
     hellos |-> [n \in Nbr |-> IF n = b THEN {} ELSE
        {Msg("LOST_LINK", FALSE, "WILL_DEFAULT", Nobody),
         Msg("SYM_LINK", FALSE, "WILL_DEFAULT", far :> 1)}],
     costs |-> [n \in Nbr |-> {1, 3, Broken}]]

MCScenario == {Sensing, Choosing, Measuring}
=============================================================================
