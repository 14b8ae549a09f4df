------------------------------- MODULE Lsdb --------------------------------
(***************************************************************************)
(* olsrd's link-state database (tc_set.c), the local edges that the route  *)
(* calculation adds to it (olsr_spf.c), and olsr_process_changes, which    *)
(* triggers that calculation and hands the database to the plugins.        *)
(*                                                                         *)
(* The code compares sequence numbers only with the ones stored for the    *)
(* same originator.  They are therefore kept relative to the stored ones:  *)
(* a message is described by how far its numbers are ahead of these, an    *)
(* edge by how far its ANSN is behind.  WindowsAreRelative, checked for    *)
(* all absolute values, is what makes this exact.                          *)
(***************************************************************************)
EXTENDS Integers, FiniteSets

CONSTANTS
    Node,          \* main addresses, by their last byte, in which they differ: the
                   \* trees are ordered by it, whatever the byte order of the host
    Me,            \* olsr_cnf->main_addr
    SeqMod,        \* message sequence numbers are 0..SeqMod-1
    AnsnMod,       \* ANSNs are 0..AnsnMod-1
    TC_SEQNO_WINDOW, TC_SEQNO_WINDOW_MULT,
    TC_ANSN_WINDOW, TC_ANSN_WINDOW_MULT,
    MaxIgnored,    \* old messages ignored in a row (32)
    Scenario       \* what the network may do, see below

All == 255         \* the border flag of the first and the last part
Remote == Node \ {Me}
Edge == {e \in Node \X Node : e[1] # e[2]}

(* The body of a TC message has the destinations it lists, the first and   *)
(* the last of them in the order of the message, and its border flags.     *)
(* A scenario has the bodies each originator may send, the numbers of a    *)
(* message relative to the stored ones, and the neighbours that come and go. *)
ASSUME LsdbAssumption ==
    /\ Node \subseteq Nat /\ Me \in Node
    /\ SeqMod \in Nat \ {0} /\ AnsnMod \in Nat \ {0}
    /\ TC_SEQNO_WINDOW \in 1 .. SeqMod /\ TC_SEQNO_WINDOW_MULT \in Nat
    /\ TC_SEQNO_WINDOW * TC_SEQNO_WINDOW_MULT < SeqMod
    /\ TC_ANSN_WINDOW \in 1 .. AnsnMod /\ TC_ANSN_WINDOW_MULT \in Nat
    /\ TC_ANSN_WINDOW * TC_ANSN_WINDOW_MULT < AnsnMod
    /\ MaxIgnored \in Nat
    /\ \A s \in Scenario :
          /\ s.numbers \subseteq [seq : 0 .. SeqMod - 1, ansn : 0 .. AnsnMod - 1]
          /\ s.nbrs \subseteq Remote
          /\ \A o \in Remote : \A c \in s.bodies[o] :
                /\ c.listed \subseteq Node \ {o}
                /\ IF c.listed = {} THEN c.first = o /\ c.last = o
                   ELSE {c.first, c.last} \subseteq c.listed

VARIABLES
    net,           \* the scenario
    tcs,           \* originators with a tc_entry
    edges,         \* pairs <<originator, destination>> with a tc_edge_entry
    age,           \* tc->ansn - tc_edge->ansn, 0 without an edge
    inv,           \* the edges whose edge_inv is set
    ignored,       \* tc->ignored
    err,           \* err_seq - msg_seq, or -1 when err_seq_valid is unset
    valid,         \* entries whose validity_timer runs
    gc,            \* entries whose edge_gc_timer runs
    nb,            \* "sym" with a usable link, "broken" (SYM without) or "none"
    changed,       \* changes_neighborhood, changes_topology or changes_hna
    backoff,       \* spf_backoff_timer runs
    published,     \* the edges at the last call of the plugins
    dropped,       \* history: messages ignored since one was accepted
    skipped        \* history: a calculation fell into the backoff

db == <<tcs, edges, age, inv, ignored, err, valid, gc, dropped>>
calc == <<backoff, published, skipped>>
vars == <<net, db, nb, changed, calc>>

From(o) == {e \in edges : e[1] = o}
Rev(e) == <<e[2], e[1]>>

-----------------------------------------------------------------------------
(* Sequence number arithmetic, on absolute values modulo mod.              *)

(* Mutant: the upper end of the range is not reduced when it wraps.        *)
InRangeHighUnwrapped(beg, end, seq, mod) ==
    IF beg < 0 THEN seq > beg % mod \/ seq <= end
    ELSE seq > beg /\ seq <= end

olsr_seq_inrange_high(beg, end, seq, mod) ==
    IF beg < 0 THEN seq > beg % mod \/ seq <= end
    ELSE IF end >= mod THEN seq > beg \/ seq <= end % mod
    ELSE seq > beg /\ seq <= end

olsr_seq_inrange_low(beg, end, seq, mod) ==
    IF beg < 0 THEN seq >= beg % mod \/ seq < end
    ELSE IF end >= mod THEN seq >= beg \/ seq < end % mod
    ELSE seq >= beg /\ seq < end

SEQNO_GREATER_THAN(s1, s2, mod) ==
    \/ s1 > s2 /\ s1 - s2 <= (mod - 1) \div 2
    \/ s2 > s1 /\ s2 - s1 > (mod - 1) \div 2

(* The same tests on a difference d, as the handlers use them.             *)
SeenSeq(d) == d = 0 \/ d > SeqMod - TC_SEQNO_WINDOW
SeenAnsn(d) == d = 0 \/ d > AnsnMod - TC_ANSN_WINDOW
FutureSeq(d) == d \in 1 .. TC_SEQNO_WINDOW * TC_SEQNO_WINDOW_MULT
FutureAnsn(d) == d \in 0 .. TC_ANSN_WINDOW * TC_ANSN_WINDOW_MULT - 1

(* Half the range apart, which of two ANSNs is greater depends on their    *)
(* absolute values: tie says how such a comparison ends.                   *)
Outdated(d, tie) == d \in 1 .. (AnsnMod - 1) \div 2 \/ (tie /\ 2 * d = AnsnMod)

(* Whatever numbers are stored for an originator, the window tests of      *)
(* olsr_input_tc for any of its messages, and the comparison of the ANSNs  *)
(* of its edges, depend on nothing but the difference of the two numbers,  *)
(* wherever in the number range a window lies or wraps around.  The one    *)
(* exception is that of two ANSNs half the range apart each is greater if  *)
(* it is the smaller number.                                               *)
WindowsAreRelative ==
    /\ \A n \in net.numbers, s \in 0 .. SeqMod - 1 :
          LET q == (s + n.seq) % SeqMod
          IN  /\ olsr_seq_inrange_high(s - TC_SEQNO_WINDOW, s, q, SeqMod) <=> SeenSeq(n.seq)
              /\ olsr_seq_inrange_high(s, s + TC_SEQNO_WINDOW * TC_SEQNO_WINDOW_MULT, q, SeqMod)
                    <=> FutureSeq(n.seq)
    /\ \A n \in net.numbers, s \in 0 .. AnsnMod - 1 :
          LET q == (s + n.ansn) % AnsnMod
          IN  /\ olsr_seq_inrange_high(s - TC_ANSN_WINDOW, s, q, AnsnMod) <=> SeenAnsn(n.ansn)
              /\ olsr_seq_inrange_low(s, s + TC_ANSN_WINDOW * TC_ANSN_WINDOW_MULT, q, AnsnMod)
                    <=> FutureAnsn(n.ansn)
    /\ \A e \in edges, s \in 0 .. AnsnMod - 1 :
          LET q == (s - age[e]) % AnsnMod
          IN  SEQNO_GREATER_THAN(s, q, AnsnMod) <=> Outdated(age[e], q > s)

-----------------------------------------------------------------------------
(* Entries and edges.                                                      *)

(* The edges that have an edge_inv once New is inserted: an edge that finds *)
(* its inverse is connected with it mutually.                               *)
olsr_add_tc_edge_entry(New) ==
    inv \cup {e \in New : e[2] \in tcs /\ Rev(e) \in edges}
        \cup {e \in edges : Rev(e) \in New /\ e[1] \in tcs}

(* Mutant: the back pointer of the inverse edge is left.                   *)
DeleteOneWay(I, Gone) == I \ Gone

olsr_delete_tc_edge_entry(I, Gone) == (I \ Gone) \ {Rev(e) : e \in Gone}

(* Remove the edges Gone and no entry.                                     *)
RemoveEdges(Gone) ==
    /\ edges' = edges \ Gone
    /\ age' = [e \in Edge |-> IF e \in Gone THEN 0 ELSE age[e]]
    /\ inv' = olsr_delete_tc_edge_entry(inv, Gone)

-----------------------------------------------------------------------------
(* A TC message, as far ahead of the stored numbers as ds and da say.      *)

(* Clear the bits below the flag's bit, and set that bit.                  *)
BorderOf(flag, a) ==
    LET bit == 2 ^ (flag - 1)
        high == a \div bit
    IN  bit * (IF high % 2 = 1 THEN high ELSE high + 1)

(* The flag All is meant to open the border; the memset in the code clears *)
(* the function's own pointer, and the address found in the message stays. *)
olsr_calculate_tc_border(flag, a) == IF flag = All THEN a ELSE BorderOf(flag, a)

(* The destinations whose outdated edges the message revokes.              *)
Borders(c) ==
    {d \in Node : /\ d >= olsr_calculate_tc_border(c.border[1], c.first)
                  /\ d < olsr_calculate_tc_border(c.border[2], c.last)}

(* The three ways a message fares against the stored numbers.              *)
Seen(n) == SeenSeq(n.seq) /\ SeenAnsn(n.ansn)
Future(n) == FutureSeq(n.seq) /\ FutureAnsn(n.ansn)

Ignore(o, n) ==
    /\ From(o) # {} /\ Seen(n)
    /\ n.seq = 0 \/ ignored[o] < MaxIgnored
    /\ IF n.seq = 0 THEN UNCHANGED <<ignored, dropped>>
       ELSE /\ ignored' = [ignored EXCEPT ![o] = @ + 1]
            /\ dropped' = [dropped EXCEPT ![o] = @ + 1]
    /\ UNCHANGED <<net, tcs, edges, age, inv, err, valid, gc, nb, changed, calc>>

(* Mutant: every stray message replaces the remembered one.                *)
StrayEvery(o, n) ==
    /\ From(o) # {} /\ ~Seen(n) /\ ~Future(n)
    /\ err' = [err EXCEPT ![o] = n.seq]
    /\ dropped' = [dropped EXCEPT ![o] = @ + 1]
    /\ UNCHANGED <<net, tcs, edges, age, inv, ignored, valid, gc, nb, changed, calc>>

(* A single stray message is remembered and ignored.                       *)
Stray(o, n) ==
    /\ From(o) # {} /\ ~Seen(n) /\ ~Future(n)
    /\ err[o] \in {-1, n.seq}
    /\ err' = [err EXCEPT ![o] = n.seq]
    /\ dropped' = [dropped EXCEPT ![o] = IF err[o] = -1 THEN @ + 1 ELSE @]
    /\ UNCHANGED <<net, tcs, edges, age, inv, ignored, valid, gc, nb, changed, calc>>

Accepted(o, n) ==
    \/ From(o) = {}
    \/ Seen(n) /\ n.seq # 0 /\ ignored[o] >= MaxIgnored
    \/ ~Seen(n) /\ (Future(n) \/ err[o] \notin {-1, n.seq})

(* The numbers are stored before the sender is looked at.                  *)
Store(o) ==
    /\ tcs' = tcs \cup {o}
    /\ ignored' = [ignored EXCEPT ![o] = 0]
    /\ err' = [err EXCEPT ![o] = -1]
    /\ dropped' = [dropped EXCEPT ![o] = 0]

(* Mutant: the difference of two ANSNs is taken without the wrap-around.   *)
AgedUnwrapped(o, n) == [e \in Edge |-> IF e \in From(o) THEN age[e] + n.ansn ELSE age[e]]

Aged(o, n) == [e \in Edge |-> IF e \in From(o) THEN (age[e] + n.ansn) % AnsnMod ELSE age[e]]

(* The message comes from a neighbour without a symmetric link.  A new     *)
(* entry comes with a route to itself, which sets changes_hna.             *)
Discard(o, n) ==
    /\ Accepted(o, n)
    /\ Store(o)
    /\ age' = Aged(o, n)
    /\ changed' = (changed \/ o \notin tcs)
    /\ UNCHANGED <<net, edges, inv, valid, gc, nb, calc>>

(* Mutant: the lifetime is renewed only when edges are revoked.            *)
ValidIfRevoking(o, c) == IF c.listed = {} \/ c.border = <<0, 0>> THEN valid ELSE valid \cup {o}

SetValidity(o, c) == valid \cup {o}

(* Mutant: an edge that is new is not a change.                            *)
RelevantKnown(New, relevant) == relevant

olsr_tc_update_edge(New, relevant) == New # {} \/ relevant

(* relevant: the quality of an edge known before changed noticeably.       *)
olsr_input_tc(o, n, c, relevant, tie) ==
    LET Listed == {<<o, d>> : d \in c.listed}
        New == Listed \ edges
        borderSet == c.listed # {} /\ c.border # <<0, 0>>
        aged == Aged(o, n)
        Revoked == IF borderSet
                   THEN {e \in From(o) \ Listed : e[2] \in Borders(c) /\ Outdated(aged[e], tie)}
                   ELSE {}
    IN  /\ Accepted(o, n)
        /\ relevant => Listed \cap edges # {} /\ New = {}
        /\ tie => \E e \in From(o) : 2 * aged[e] = AnsnMod
        /\ Store(o)
        /\ edges' = (edges \cup New) \ Revoked
        /\ age' = [e \in Edge |-> IF e \in Listed \cup Revoked THEN 0 ELSE aged[e]]
        /\ inv' = olsr_delete_tc_edge_entry(olsr_add_tc_edge_entry(New), Revoked)
        /\ valid' = SetValidity(o, c)
        /\ gc' = IF borderSet THEN gc ELSE gc \cup {o}
        /\ changed' = (changed \/ o \notin tcs \/ olsr_tc_update_edge(New, relevant))
        /\ UNCHANGED <<net, nb, calc>>

-----------------------------------------------------------------------------
(* Timers.                                                                 *)

olsr_expire_tc_entry(o) ==
    /\ o \in valid
    /\ RemoveEdges(From(o))
    /\ tcs' = tcs \ {o}
    /\ valid' = valid \ {o}
    /\ gc' = gc \ {o}
    /\ ignored' = [ignored EXCEPT ![o] = 0]
    /\ err' = [err EXCEPT ![o] = -1]
    /\ dropped' = [dropped EXCEPT ![o] = 0]
    /\ changed' = TRUE
    /\ UNCHANGED <<net, nb, calc>>

olsr_expire_tc_edge_gc(o, tie) ==
    LET Gone == {e \in From(o) : Outdated(age[e], tie)}
    IN  /\ o \in gc
        /\ tie => \E e \in From(o) : 2 * age[e] = AnsnMod
        /\ gc' = gc \ {o}
        /\ RemoveEdges(Gone)
        /\ changed' = (changed \/ Gone # {})
        /\ UNCHANGED <<net, tcs, ignored, err, valid, dropped, nb, calc>>

olsr_expire_spf_backoff ==
    /\ backoff
    /\ backoff' = FALSE
    /\ UNCHANGED <<net, db, nb, changed, published, skipped>>

-----------------------------------------------------------------------------
(* The neighbour table changes; the HELLO handlers and the link timers set *)
(* changes_neighborhood when they change it.                               *)
NeighbourChange(n, s) ==
    /\ nb[n] # s
    /\ nb' = [nb EXCEPT ![n] = s]
    /\ changed' = TRUE
    /\ UNCHANGED <<net, db, calc>>

(* Mutant: the edge of a SYM neighbour without a link is kept.             *)
AddLocalEdgesOnly ==
    LET New == {<<Me, n>> : n \in {k \in Remote : nb[k] = "sym"}} \ edges
    IN  /\ edges' = edges \cup New
        /\ inv' = olsr_add_tc_edge_entry(New)
        /\ UNCHANGED age

(* The local edges: added for a SYM neighbour with a link, removed for one *)
(* without, and left alone for a neighbour that is not SYM any more.       *)
CalculateLocalEdges ==
    LET New == {<<Me, n>> : n \in {k \in Remote : nb[k] = "sym"}} \ edges
        Gone == {<<Me, n>> : n \in {k \in Remote : nb[k] = "broken"}} \cap edges
    IN  /\ edges' = (edges \cup New) \ Gone
        /\ age' = [e \in Edge |-> IF e \in New \cup Gone THEN 0 ELSE age[e]]
        /\ inv' = olsr_delete_tc_edge_entry(olsr_add_tc_edge_entry(New), Gone)

olsr_calculate_routing_table ==
    IF backoff THEN skipped' = TRUE /\ UNCHANGED <<backoff, edges, age, inv>>
    ELSE /\ backoff' = TRUE
         /\ skipped' = FALSE
         /\ CalculateLocalEdges

olsr_process_changes ==
    /\ changed
    /\ olsr_calculate_routing_table
    /\ published' = edges'
    /\ changed' = FALSE
    /\ UNCHANGED <<net, tcs, ignored, err, valid, gc, dropped, nb>>

-----------------------------------------------------------------------------
(* olsr_change_myself_tc made the entry of this node and flagged it.       *)
Init ==
    /\ net \in Scenario
    /\ tcs = {Me} /\ edges = {} /\ inv = {} /\ valid = {} /\ gc = {}
    /\ age = [e \in Edge |-> 0]
    /\ ignored = [o \in Remote |-> 0]
    /\ err = [o \in Remote |-> -1]
    /\ nb = [n \in Remote |-> "none"]
    /\ changed = TRUE /\ backoff = FALSE /\ published = {}
    /\ dropped = [o \in Remote |-> 0]
    /\ skipped = FALSE

Receive(o, n) ==
    \/ Ignore(o, n)
    \/ Stray(o, n)
    \/ Discard(o, n)
    \/ \E c \in net.bodies[o], relevant, tie \in BOOLEAN : olsr_input_tc(o, n, c, relevant, tie)

Next ==
    \/ \E o \in Remote, n \in net.numbers : net.bodies[o] # {} /\ Receive(o, n)
    \/ \E o \in Remote : olsr_expire_tc_entry(o)
    \/ \E o \in Remote, tie \in BOOLEAN : olsr_expire_tc_edge_gc(o, tie)
    \/ \E n \in net.nbrs, s \in {"sym", "broken", "none"} : NeighbourChange(n, s)
    \/ olsr_process_changes
    \/ olsr_expire_spf_backoff

Spec == Init /\ [][Next]_vars

-----------------------------------------------------------------------------
(* Type invariant: the counters and differences stay within the fields of  *)
(* tc_entry and tc_edge_entry, and timers run for entries of others only.  *)
TypeOK ==
    /\ net \in Scenario
    /\ tcs \subseteq Node /\ Me \in tcs
    /\ edges \subseteq Edge
    /\ age \in [Edge -> 0 .. AnsnMod - 1]
    /\ inv \subseteq Edge
    /\ ignored \in [Remote -> 0 .. MaxIgnored]
    /\ err \in [Remote -> -1 .. SeqMod - 1]
    /\ valid \subseteq Remote /\ gc \subseteq Remote
    /\ nb \in [Remote -> {"sym", "broken", "none"}]
    /\ changed \in BOOLEAN /\ backoff \in BOOLEAN /\ skipped \in BOOLEAN
    /\ published \subseteq Edge
    /\ dropped \in [Remote -> Nat]

(* The short cuts between an edge and its inverse, which the route         *)
(* calculation follows without a look at the trees, are set exactly where  *)
(* both edges exist, whichever came first and whatever was deleted between *)
(* (tc_set.c olsr_add_tc_edge_entry, olsr_delete_tc_edge_entry).           *)
InvMutual ==
    /\ \A e \in edges : e[1] \in tcs
    /\ inv = {e \in edges : Rev(e) \in edges}

(* Nothing an originator advertised stays for ever once it is silent: as   *)
(* long as it has edges a timer runs that deletes its entry, although a    *)
(* message of a stranger creates an entry without one (tc_set.c            *)
(* olsr_input_tc).                                                         *)
NoImmortalEdges == \A e \in edges : e[1] # Me => e[1] \in valid

(* An originator that restarted with other numbers is heard again: at most *)
(* MaxIgnored old messages and one stray message are ignored before one is *)
(* accepted, however the two kinds alternate (tc_set.c olsr_input_tc).     *)
BoundedDrops == \A o \in Remote : dropped[o] <= MaxIgnored + 1

(* With no change pending the plugins know every edge of the database; an  *)
(* edge may be missing there only if it was revoked, which is not reported *)
(* (olsr.c olsr_process_changes, tc_set.c olsr_tc_update_edge).            *)
AddsPublished == ~changed => edges \subseteq published

(* Unless a calculation fell into the backoff of the previous one, the     *)
(* symmetric neighbours with a usable link have a local edge as soon as no *)
(* change is pending (olsr_spf.c olsr_calculate_routing_table).            *)
LocalEdgesUnlessBackoff ==
    ~changed /\ ~skipped =>
        \A n \in Remote : /\ nb[n] = "sym" => <<Me, n>> \in edges
                          /\ nb[n] = "broken" => <<Me, n>> \notin edges
=============================================================================
