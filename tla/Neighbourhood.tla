--------------------------- MODULE Neighbourhood ----------------------------
(***************************************************************************)
(* olsrd's local tables: the links to the neighbours' interfaces           *)
(* (link_set.c), the neighbours (neighbor_table.c), the two-hop neighbours *)
(* (two_hop_neighbor_table.c), the multipoint relays chosen among the      *)
(* neighbours (lq_mpr.c) and the neighbours that chose this node           *)
(* (mpr_selector_set.c), as a HELLO message (process_package.c) and the    *)
(* timers change them.                                                     *)
(*                                                                         *)
(* The configuration is the testbed's: link quality 2, TC redundancy 2, no *)
(* hysteresis.  A handler is a composition of functions from the tables to *)
(* the tables, one for each function of the code it calls.                 *)
(***************************************************************************)
EXTENDS Integers, Sequences, FiniteSets, FiniteSetsExt

CONSTANTS
    Nbr,           \* main addresses of possible neighbours
    Far,           \* nodes that are never neighbours
    Iface,         \* the interfaces of this node
    Broken,        \* LINK_COST_BROKEN
    mpr_coverage,  \* olsr_cnf->mpr_coverage
    None,          \* no such entry
    Scenario       \* what the neighbours may send, see below

Addr == Nbr \cup Far
Link == Nbr \X Iface
Pair == {p \in Nbr \X Addr : p[1] # p[2]}

(* No path costs more than a broken one.                                   *)
Cost == 1 .. Broken
LinkStatus == {"SYM_LINK", "ASYM_LINK", "LOST_LINK", "UNSPEC_LINK"}
Willingness == {"WILL_NEVER", "WILL_DEFAULT", "WILL_ALWAYS"}
LinkEntry == [sym : BOOLEAN, prev : LinkStatus, cost : Cost]
WalkerEntry == [cost : Cost, saved : Cost]

(* A HELLO message says how its sender sees this node's interface, whether  *)
(* it chose this node as relay, its willingness, and its symmetric         *)
(* neighbours with the cost of the links to them.  A scenario has the      *)
(* links on which messages arrive, the messages of every neighbour, and    *)
(* the costs that this node may measure for a link to it.  The counter of  *)
(* a two-hop neighbour (neighbor_2_pointer) has 16 bits: it counts         *)
(* neighbours, and there are not as many as it can hold.                   *)
ASSUME NeighbourhoodAssumption ==
    /\ Broken \in Nat \ {0} /\ mpr_coverage \in Nat
    /\ IsFiniteSet(Nbr) /\ IsFiniteSet(Iface)
    /\ Cardinality(Nbr) < 2^15
    /\ Nbr \cap Far = {}
    /\ \A s \in Scenario :
          /\ s.links \subseteq Link
          /\ \A n \in Nbr : s.costs[n] \subseteq Cost
          /\ \A n \in Nbr : \A h \in s.hellos[n] :
                /\ h.me \in LinkStatus
                /\ h.mpr => h.me = "SYM_LINK"
                /\ h.will \in Willingness
                /\ h.mpr \in BOOLEAN
                /\ DOMAIN h.nbrs \subseteq Addr \ {n}
                /\ \A t \in DOMAIN h.nbrs : h.nbrs[t] \in Nat

(* No entry is not an entry.                                               *)
ASSUME NoneAssumption ==
    None \notin LinkEntry \cup WalkerEntry \cup {"SYM", "NOT_SYM", "timed", "untimed"}

VARIABLES
    net,       \* the scenario
    tab,       \* the tables and flags, see TypeOK
    silent     \* history: two-hop neighbours with a path whose cost changed since
               \* the last MPR calculation without a change being flagged

vars == <<net, tab, silent>>

-----------------------------------------------------------------------------
(* Links and their costs.                                                  *)
LinksOf(s, n) == {l \in Link : l[1] = n /\ s.link[l] # None}

(* lookup_link_status(l) = SYM_LINK                                        *)
SymLink(s, l) == s.link[l] # None /\ s.link[l].sym

get_neighbor_status(s, l) == \E k \in LinksOf(s, l[1]) : SymLink(s, k)

(* The links to n that are better than all links to n before them in the   *)
(* list of links.                                                          *)
Improving(s, n) ==
    LET cost(i) == s.link[s.list[i]].cost
    IN  {i \in DOMAIN s.list :
            /\ s.list[i][1] = n /\ cost(i) < Broken
            /\ \A j \in 1 .. i - 1 : s.list[j][1] = n => cost(i) < cost(j)}

(* The cost of the best link, Broken without one: of the last improving    *)
(* link that is symmetric, or else of the last one, which is the cheapest  *)
(* in either case.  So an asymmetric link that is cheaper is chosen only   *)
(* if it comes first.                                                      *)
get_best_link_to_neighbor(s, n) ==
    LET good == {i \in Improving(s, n) : SymLink(s, s.list[i])}
        some == IF good # {} THEN good ELSE Improving(s, n)
    IN  Min({s.link[s.list[i]].cost : i \in some} \cup {Broken})

(* The costs are unsigned and the code subtracts the greater one from the  *)
(* smaller one: every difference is relevant, whatever the threshold.      *)
olsr_is_relevant_costchange(c1, c2) == c1 # c2

(* Mutant: a change of the cost does not reach the advertised links.       *)
LossUnsignalled(s, l, c) ==
    IF olsr_is_relevant_costchange(c, s.link[l].cost)
    THEN [s EXCEPT !.link[l].cost = c, !.changed = TRUE]
    ELSE s

olsr_update_packet_loss_worker(s, l, c) ==
    IF olsr_is_relevant_costchange(c, s.link[l].cost)
    THEN [s EXCEPT !.link[l].cost = c, !.changed = TRUE, !.link_changes = TRUE]
    ELSE s

-----------------------------------------------------------------------------
(* Two-hop neighbours.  A one-hop neighbour n and a two-hop neighbour t    *)
(* are connected by an entry in t's list of neighbours, with the cost of   *)
(* the path, and one in n's list of two-hop neighbours, with a timer.      *)
Walkers(s, t) == {n \in Nbr : <<n, t>> \in Pair /\ s.walker[<<n, t>>] # None}

(* All entries of the neighbour n.  As the entries of one neighbour are    *)
(* about different two-hop neighbours, the operations below take a set of  *)
(* them at once.                                                           *)
EntriesOf(s, n) == {p \in Pair : p[1] = n /\ s.nbr2[p] # None}

Without(f, P) == [p \in Pair |-> IF p \in P THEN None ELSE f[p]]
Ends(P) == {p[2] : p \in P}

(* The two-hop neighbour itself goes when nothing points to it.            *)
olsr_del_nbr2_list(s, P) ==
    [s EXCEPT !.nbr2 = Without(@, P), !.changed = @ \/ P # {},
              !.two = @ \ {t \in Ends(P) : s.ptr[t] < 1}]

(* Mutant: the two-hop neighbour's counter is left.                        *)
UnlinkUncounted(s, P) == olsr_del_nbr2_list([s EXCEPT !.walker = Without(@, P)], P)

(* What olsr_expire_nbr2_list and olsr_delete_neighbor_table do with the   *)
(* entries P of a neighbour.                                               *)
Unlink(s, P) ==
    olsr_del_nbr2_list(
        [s EXCEPT !.ptr = [t \in Addr |-> IF t \in Ends(P) THEN @[t] - 1 ELSE @[t]],
                  !.walker = Without(@, P)], P)

(* The new entries have no timer: olsr_change_timer does not start one.    *)
linking_this_2_entries(s, P) ==
    [s EXCEPT !.walker = [p \in Pair |-> IF p \in P THEN [cost |-> Broken, saved |-> Broken]
                                         ELSE @[p]],
              !.nbr2 = [p \in Pair |-> IF p \in P THEN "untimed" ELSE @[p]],
              !.ptr = [t \in Addr |-> IF t \in Ends(P) THEN @[t] + 1 ELSE @[t]]]

olsr_delete_two_hop_neighbor_table(s, t) ==
    LET P == {p \in Pair : p[2] = t /\ s.walker[p] # None}
    IN  [s EXCEPT !.nbr2 = Without(@, P),
                  !.walker = Without(@, P),
                  !.ptr[t] = 0,
                  !.two = @ \ {t},
                  !.changed = @ \/ P # {}]

-----------------------------------------------------------------------------
(* Neighbours.                                                             *)
olsr_delete_neighbor_table(s, n) ==
    [Unlink(s, EntriesOf(s, n)) EXCEPT !.status[n] = None, !.will[n] = "WILL_NEVER",
                                       !.mpr = @ \ {n}, !.changed = TRUE]

update_neighbor_status(s, n, sym) ==
    LET u == IF sym /\ s.status[n] = "NOT_SYM" /\ n \in s.two
             THEN olsr_delete_two_hop_neighbor_table(s, n) ELSE s
        new == IF sym THEN "SYM" ELSE "NOT_SYM"
    IN  IF s.status[n] = new THEN s
        ELSE [u EXCEPT !.status[n] = new, !.changed = TRUE, !.link_changes = TRUE]

(* list_remove of an entry that is in the list.                            *)
Unlisted(q, l) ==
    LET at == CHOOSE k \in DOMAIN q : q[k] = l
    IN  [k \in 1 .. Len(q) - 1 |-> IF k < at THEN q[k] ELSE q[k + 1]]

olsr_delete_link_entry(s, l) ==
    LET n == l[1]
        u == IF s.linkcount[n] = 1 THEN olsr_delete_neighbor_table(s, n) ELSE s
    IN  [u EXCEPT !.linkcount[n] = @ - 1, !.link[l] = None,
                  !.list = Unlisted(@, l), !.changed = TRUE]

add_link_entry(s, l) ==
    IF s.link[l] # None THEN s
    ELSE [s EXCEPT !.link[l] = [sym |-> FALSE, prev |-> "ASYM_LINK", cost |-> Broken],
                   !.list = Append(@, l),
                   !.linkcount[l[1]] = @ + 1,
                   !.status[l[1]] = IF @ = None THEN "NOT_SYM" ELSE @]

(* A neighbour that hears this node, symmetrically or not, makes the link  *)
(* symmetric; one that does not mention it changes nothing.                *)
update_link_entry(s, l, h) ==
    LET u == [add_link_entry(s, l) EXCEPT
                 !.link[l].prev = h.me,
                 !.link[l].sym = IF h.me \in {"SYM_LINK", "ASYM_LINK"} THEN TRUE
                                 ELSE IF h.me = "LOST_LINK" THEN FALSE ELSE @]
    IN  update_neighbor_status(u, l[1], get_neighbor_status(u, l))

-----------------------------------------------------------------------------
(* The neighbours of a neighbour.                                          *)

(* First pass: create entries, restart the timers of known ones and reset  *)
(* their costs.                                                            *)
HeardTwoHops(s, P) ==
    LET New == {p \in P : s.nbr2[p] = None}
        u == linking_this_2_entries([s EXCEPT !.two = @ \cup Ends(New)], New)
    IN  [u EXCEPT !.nbr2 = [p \in Pair |-> IF p \in P \ New THEN "timed" ELSE @[p]],
                  !.walker = [p \in Pair |-> IF p \in P \ New THEN [@[p] EXCEPT !.cost = Broken]
                                             ELSE @[p]],
                  !.changed = @ \/ New # {}]

(* Second pass: the costs of the paths over the neighbour's best link.     *)
(* They were reset to Broken, so a path that is broken now flags no change. *)
PathCosts(s, P, h) ==
    LET new(p) == get_best_link_to_neighbor(s, p[1]) + h.nbrs[p[2]]
        Works == {p \in P : get_best_link_to_neighbor(s, p[1]) < Broken /\ new(p) < Broken}
        Relevant == {p \in Works : olsr_is_relevant_costchange(new(p), s.walker[p].saved)}
    IN  [s EXCEPT !.walker = [p \in Pair |->
                      IF p \in Works
                      THEN [cost |-> new(p), saved |-> IF p \in Relevant THEN new(p) ELSE @[p].saved]
                      ELSE @[p]],
                  !.changed = @ \/ Relevant # {}]

process_message_neighbors(s, n, h) ==
    LET P == {<<n, t>> : t \in DOMAIN h.nbrs}
    IN  PathCosts(HeardTwoHops(s, P), P, h)

-----------------------------------------------------------------------------
(* Multipoint relays.                                                      *)

SymWalker(s, t) == {n \in Walkers(s, t) : s.status[n] = "SYM"}

(* What a path to t over a relay has to beat: the direct link.             *)
best_1hop(s, t) ==
    IF t \in Nbr /\ s.status[t] = "SYM" THEN get_best_link_to_neighbor(s, t) ELSE Broken

(* A symmetric neighbour without a usable link is passed over.             *)
Candidates(s, t) ==
    IF t \in Nbr /\ s.status[t] = "SYM" /\ get_best_link_to_neighbor(s, t) >= Broken THEN {}
    ELSE {n \in SymWalker(s, t) : s.walker[<<n, t>>].cost < best_1hop(s, t)}

(* Mutant: the costs are compared the other way round.                     *)
DearestChoices(s, t) ==
    LET C == Candidates(s, t)
    IN  {S \in SUBSET C :
            /\ Cardinality(S) = Min({mpr_coverage, Cardinality(C)})
            /\ \A n \in S, k \in C \ S : s.walker[<<n, t>>].cost >= s.walker[<<k, t>>].cost}

(* The mpr_coverage best candidates, in any order among equal ones.        *)
RelayChoices(s, t) ==
    LET C == Candidates(s, t)
    IN  {S \in SUBSET C :
            /\ Cardinality(S) = Min({mpr_coverage, Cardinality(C)})
            /\ \A n \in S, k \in C \ S : s.walker[<<n, t>>].cost <= s.walker[<<k, t>>].cost}

olsr_calculate_lq_mpr(s) ==
    LET Always == {n \in Nbr : s.status[n] = "SYM" /\ s.will[n] = "WILL_ALWAYS"}
        Picks == {f \in [s.two -> SUBSET Nbr] : \A t \in s.two : f[t] \in RelayChoices(s, t)}
    IN  {[s EXCEPT !.mpr = M, !.link_changes = @ \/ ~(M \subseteq s.mpr)] :
            M \in {Always \cup UNION {f[t] : t \in s.two} : f \in Picks}}

olsr_process_changes(s) ==
    IF s.changed THEN {[u EXCEPT !.changed = FALSE] : u \in olsr_calculate_lq_mpr(s)}
    ELSE {s}

-----------------------------------------------------------------------------
(* Actions.                                                                *)

(* The two-hop neighbours with a path whose cost is another one in u.      *)
Repriced(u) == {t \in Addr : \E n \in Nbr \ {t} : u.walker[<<n, t>>] # tab.walker[<<n, t>>]}

olsr_hello_tap(l, h, c) ==
    LET n == l[1]
        u1 == olsr_update_packet_loss_worker(update_link_entry(tab, l, h), l, c)
        u2 == IF h.mpr THEN [u1 EXCEPT !.mprs = @ \cup {n}, !.link_changes = @ \/ n \notin u1.mprs]
              ELSE u1
        u3 == IF h.will = u2.will[n] THEN u2 ELSE [u2 EXCEPT !.will[n] = h.will, !.changed = TRUE]
        u4 == IF h.will = "WILL_NEVER" THEN u3 ELSE process_message_neighbors(u3, n, h)
    IN  /\ tab' \in olsr_process_changes(u4)
        /\ silent' = IF u4.changed THEN {} ELSE silent \cup Repriced(u4)
        /\ UNCHANGED net

(* A neighbour that does not list this node has no opinion of the link:    *)
(* its cost is Broken.                                                     *)
Hello(l) ==
    \E h \in net.hellos[l[1]] :
       \E c \in IF h.me = "UNSPEC_LINK" THEN {Broken} ELSE net.costs[l[1]] :
          olsr_hello_tap(l, h, c)

Step(u) == tab' = u /\ UNCHANGED <<net, silent>>

(* A HELLO message is overdue.                                             *)
olsr_expire_link_loss_timer(l) ==
    /\ tab.link[l] # None
    /\ \E c \in net.costs[l[1]] :
          c > tab.link[l].cost /\ Step(olsr_update_packet_loss_worker(tab, l, c))

(* The callback returns at once if the last message did not call the link  *)
(* symmetric.                                                              *)
olsr_expire_link_sym_timer(l) ==
    LET u == [tab EXCEPT !.link[l].sym = FALSE]
        v == [tab EXCEPT !.link[l].prev = "ASYM_LINK", !.link[l].sym = FALSE, !.changed = TRUE]
    IN  /\ SymLink(tab, l)
        /\ Step(IF tab.link[l].prev # "SYM_LINK" THEN u
                ELSE update_neighbor_status(v, l[1], get_neighbor_status(v, l)))

(* Mutant: the link of a neighbour that counts as symmetric is kept.       *)
ExpireUnlessSymmetric(l) ==
    /\ tab.link[l] # None /\ ~tab.link[l].sym
    /\ Step(IF tab.status[l[1]] = "SYM" THEN tab ELSE olsr_delete_link_entry(tab, l))

(* link_timer is set NEIGHB_HOLD_TIME later than link_sym_timer.           *)
olsr_expire_link_entry(l) ==
    /\ tab.link[l] # None /\ ~tab.link[l].sym
    /\ Step(olsr_delete_link_entry(tab, l))

olsr_expire_nbr2_list(p) ==
    /\ tab.nbr2[p] = "timed"
    /\ Step(Unlink(tab, {p}))

olsr_expire_mpr_sel_entry(n) ==
    /\ n \in tab.mprs
    /\ Step([tab EXCEPT !.mprs = @ \ {n}, !.link_changes = TRUE])

(* The end of a round of the main loop: pending changes are processed and  *)
(* the ANSN is increased.                                                  *)
EndOfRound ==
    /\ tab.changed \/ tab.link_changes
    /\ tab' \in {[u EXCEPT !.link_changes = FALSE] : u \in olsr_process_changes(tab)}
    /\ silent' = IF tab.changed THEN {} ELSE silent
    /\ UNCHANGED net

Init ==
    /\ net \in Scenario
    /\ tab = [link |-> [l \in Link |-> None],
              list |-> <<>>,
              linkcount |-> [n \in Nbr |-> 0],
              status |-> [n \in Nbr |-> None],
              will |-> [n \in Nbr |-> "WILL_NEVER"],
              walker |-> [p \in Pair |-> None],
              nbr2 |-> [p \in Pair |-> None],
              ptr |-> [t \in Addr |-> 0],
              two |-> {}, mpr |-> {}, mprs |-> {},
              changed |-> FALSE, link_changes |-> FALSE]
    /\ silent = {}

Next ==
    \/ \E l \in net.links : Hello(l)
    \/ \E l \in net.links : olsr_expire_link_loss_timer(l)
    \/ \E l \in net.links : olsr_expire_link_sym_timer(l)
    \/ \E l \in net.links : olsr_expire_link_entry(l)
    \/ \E p \in Pair : olsr_expire_nbr2_list(p)
    \/ \E n \in Nbr : olsr_expire_mpr_sel_entry(n)
    \/ EndOfRound

Spec == Init /\ [][Next]_vars

(* Timers fire when they are due: the scheduler walks all slots, and a     *)
(* timer that no message restarts is reached.                              *)
FairSpec == Spec /\ \A l \in Link : WF_vars(olsr_expire_link_entry(l))

-----------------------------------------------------------------------------
(* The tables and the flags: the links and their order in the list, the    *)
(* neighbours with the number of their links, the entries that connect     *)
(* neighbours and two-hop neighbours, the two-hop neighbours with the      *)
(* number of their entries, the relays and the neighbours that chose this  *)
(* node.                                                                   *)
Tables ==
    [link : [Link -> LinkEntry \cup {None}],
     list : Seq(Link),
     linkcount : [Nbr -> Int],
     status : [Nbr -> {None, "SYM", "NOT_SYM"}],
     will : [Nbr -> Willingness],
     walker : [Pair -> WalkerEntry \cup {None}],
     nbr2 : [Pair -> {None, "timed", "untimed"}],
     ptr : [Addr -> Int],
     two : SUBSET Addr, mpr : SUBSET Nbr, mprs : SUBSET Nbr,
     changed : BOOLEAN, link_changes : BOOLEAN]

(* Type invariant: entries are there as a whole or not at all, no path     *)
(* costs more than a broken one, and the counters are not negative.        *)
TypeOK ==
    /\ net \in Scenario /\ silent \in SUBSET Addr
    /\ tab \in Tables
    /\ \A n \in Nbr : tab.linkcount[n] \in 0 .. Cardinality(Iface)
    /\ \A t \in Addr : tab.ptr[t] \in 0 .. Cardinality(Nbr)

(* The tables never point to freed memory: the list holds every link once, *)
(* a neighbour exists exactly as long as it has links, every two-hop entry *)
(* belongs to a neighbour and is in the lists of both ends, and a two-hop  *)
(* neighbour exists exactly as long as its counter, the number of its      *)
(* entries, is positive (link_set.c olsr_delete_link_entry, neighbor_table.c *)
(* olsr_del_nbr2_list, process_package.c linking_this_2_entries).  A       *)
(* neighbour with a symmetric link is a symmetric neighbour, also when     *)
(* another of its links was lost (link_set.c get_neighbor_status).         *)
TablesSound ==
    /\ TypeOK
    /\ \A l \in Link : SymLink(tab, l) => tab.status[l[1]] = "SYM"
    /\ \A l \in Link : tab.link[l] # None <=> \E i \in DOMAIN tab.list : tab.list[i] = l
    /\ \A i, j \in DOMAIN tab.list : tab.list[i] = tab.list[j] => i = j
    /\ \A n \in Nbr : /\ tab.linkcount[n] = Cardinality(LinksOf(tab, n))
                      /\ tab.status[n] = None <=> tab.linkcount[n] = 0
    /\ \A p \in Pair : /\ tab.walker[p] = None <=> tab.nbr2[p] = None
                       /\ tab.nbr2[p] # None => tab.status[p[1]] # None /\ p[2] \in tab.two
    /\ \A t \in Addr : /\ tab.ptr[t] = Cardinality(Walkers(tab, t))
                       /\ t \in tab.two => tab.ptr[t] > 0

Stale(n) == tab.status[n] = "SYM" /\ ~\E l \in LinksOf(tab, n) : SymLink(tab, l)

(* The symmetry timer of a link may pass without the neighbour's status    *)
(* being recomputed, but no neighbour stays symmetric for good without a   *)
(* symmetric link (link_set.c olsr_expire_link_sym_timer,                  *)
(* olsr_expire_link_entry).                                                *)
LostNeighbourLeaves == \A n \in Nbr : Stale(n) ~> ~Stale(n)

(* The relays that t needs: the symmetric neighbours with a usable path to *)
(* t, and if t is a neighbour itself, one that is cheaper than each of its  *)
(* links.                                                                  *)
Wanted(s, t) ==
    {n \in Walkers(s, t) :
        /\ s.status[n] = "SYM" /\ s.walker[<<n, t>>].cost < Broken
        /\ t \in Nbr /\ s.status[t] = "SYM" =>
              \A l \in LinksOf(s, t) : s.walker[<<n, t>>].cost < s.link[l].cost}

(* "if (!lnk) continue": a symmetric neighbour without a usable link.      *)
PassedOver(s, t) ==
    t \in Nbr /\ s.status[t] = "SYM" /\ \A l \in LinksOf(s, t) : s.link[l].cost >= Broken

CheaperRelays(s, n, t) ==
    {k \in Wanted(s, t) \cap s.mpr : s.walker[<<k, t>>].cost <= s.walker[<<n, t>>].cost}

(* With no change pending, the relays are symmetric neighbours, and each   *)
(* two-hop neighbour is reached over its cheapest paths: one that is not   *)
(* used is no cheaper than mpr_coverage others that are.  A two-hop        *)
(* neighbour that is a symmetric neighbour counts too, with the paths that *)
(* cost less than its links ("see wether we find a better route via an     *)
(* MPR"), unless none of its links is usable.  Not covered is a two-hop    *)
(* neighbour with a path that broke, or came back at its old cost: that    *)
(* flags no change, and the relays stay (lq_mpr.c olsr_calculate_lq_mpr,   *)
(* process_package.c process_message_neighbors).                           *)
RelaysCover ==
    ~tab.changed =>
       /\ \A n \in tab.mpr : tab.status[n] = "SYM"
       /\ \A t \in tab.two \ silent : PassedOver(tab, t) \/
             \A n \in Wanted(tab, t) \ tab.mpr :
                Cardinality(CheaperRelays(tab, n, t)) >= mpr_coverage

(* The neighbours that a TC message of this node advertises (lq_packet.c   *)
(* create_lq_tc).                                                          *)
Advertised(s) ==
    {n \in Nbr : s.status[n] = "SYM" /\ get_best_link_to_neighbor(s, n) < Broken}

(* Whenever the set of neighbours to advertise changes, link_changes is    *)
(* set, so that the ANSN increases and the other nodes drop what is gone.  *)
(* The one exception is the end of a link entry: it signals nothing, and   *)
(* takes the neighbour along if that was still symmetric (link_set.c       *)
(* signal_link_changes, olsr_delete_link_entry).                           *)
ChangesSignalled ==
    [][Advertised(tab') # Advertised(tab) =>
          \/ tab'.link_changes
          \/ \E l \in Link : tab.link[l] # None /\ tab'.link[l] = None]_vars

=============================================================================
