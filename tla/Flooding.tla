------------------------------ MODULE Flooding ------------------------------
(***************************************************************************)
(* How olsrd floods messages: the duplicate set (duplicate_set.c), the     *)
(* parser that consults it before any handler runs (parser.c), the relays  *)
(* that send a message on (olsr_forward_message in olsr.c) and the output  *)
(* buffer that packs messages into packets (net_olsr.c).                   *)
(*                                                                         *)
(* Every host has one interface.  The neighbours and the relays they chose *)
(* stay as they are: Neighbourhood models how they come about.  The radio  *)
(* is external: a packet reaches the receivers' sockets in the order of    *)
(* the transmissions, and each may miss it.                                *)
(***************************************************************************)
EXTENDS Integers, Sequences, FiniteSets

CONSTANTS
    Node,          \* the hosts, by main address
    SeqRange,      \* message sequence numbers are 0..SeqRange-1
    Window,        \* bits of dup_entry.array (32)
    TooLow,        \* numbers too low in a row that are blocked (16)
    MaxTtl,        \* 255
    PacketRoom,    \* messages that fit into a packet
    MaxMessages,   \* bound: messages all hosts make together
    None,          \* no dup_entry
    Scenario       \* the networks, see below

(* A scenario has the hosts that hear a host, its symmetric neighbours,    *)
(* the relays each host may have chosen, who sends which kinds of message, *)
(* the first sequence numbers, whether a flood ends before the next one    *)
(* begins, and bounds on messages, restarts, losses and expired entries.   *)
ASSUME FloodingAssumption ==
    /\ SeqRange \in Nat \ {0} /\ SeqRange % 2 = 0 /\ Window \in 1 .. (SeqRange \div 2)
    /\ TooLow \in Nat /\ MaxTtl \in Nat \ {0} /\ PacketRoom \in Nat \ {0}
    /\ MaxMessages \in Nat
    /\ \A s \in Scenario :
          /\ s.messages \in 1 .. MaxMessages /\ s.apart \in BOOLEAN
          /\ s.first \subseteq 0 .. SeqRange - 1
          /\ s.hears \in [Node -> SUBSET Node]
          /\ s.sym \in [Node -> SUBSET Node]
          /\ \A h \in Node : s.sym[h] \subseteq s.hears[h]
          /\ \A h, k \in Node : h \in s.sym[k] <=> k \in s.sym[h]
          /\ s.relays \subseteq [Node -> SUBSET Node]

Kind == {"hello", "flood", "unknown"}

(* struct dup_entry: seen is the set of the bits of array.                  *)
Entry == [seqnr : 0 .. SeqRange - 1, low : 0 .. TooLow, seen : SUBSET (0 .. Window - 1)]

ASSUME NoEntryAssumption == None \notin Entry

VARIABLES
    net,           \* the scenario
    relays,        \* relays[h]: the neighbours that h selected
    seqno,         \* message_seqno of each host
    dup,           \* dup[h][o]: h's dup_entry for originator o
    out,           \* the messages in the interface's netbuf
    queue,         \* packets in the socket, oldest first
    busy,          \* hosts in the middle of the first packet of the queue
    made,          \* the messages made so far: originator and kind
    faults,        \* restarts, losses and expired entries so far
    handled,       \* history: handled[h][n], how often h processed message n
    opened,        \* history: messages that created a dup_entry of h
    resets,        \* history: dup_entries of h set back to a low number
    missed,        \* history: copies of new messages of o in a row that h blocked
    late,          \* history: blocked copies in between that cleared too_low_counter
    spoiled        \* history: messages that a host lost for another reason

vars == <<net, relays, seqno, dup, out, queue, busy, made, faults,
          handled, opened, resets, missed, late, spoiled>>
history == <<handled, opened, resets, missed, late, spoiled>>

-----------------------------------------------------------------------------
(* The duplicate set *)

\* A wrap from high to low is left as it is: 0 after SeqRange - 1 is far too low.
Difference(s, t) == IF s - t > SeqRange \div 2 THEN s - t - SeqRange ELSE s - t

TooLowFor(e, s) == Difference(s, e.seqnr) < 1 - Window

olsr_create_duplicate_entry(s) == [seqnr |-> s, low |-> 0, seen |-> {}]

\* mutant: the new number is marked, the ones before it are forgotten
ForgetSeen(e, d) == {0}

\* array <<= diff, array |= 1
Shifted(e, d) == {0} \cup {k \in 0 .. Window - 1 : k - d \in e.seen}

\* mutant: the counter starts again, the number does not
BlockAgain(e, s) == [entry |-> [e EXCEPT !.low = (@ + 1) % (TooLow + 1)], process |-> FALSE]

\* too_low_counter > 16: the originator started again with a lower number
TooLowResult(e, s) ==
    IF e.low < TooLow
    THEN [entry |-> [e EXCEPT !.low = @ + 1], process |-> FALSE]
    ELSE [entry |-> [seqnr |-> s, low |-> 0, seen |-> {0}], process |-> TRUE]

\* entry afterwards, and whether the message is processed
olsr_shall_process_message(e, s) ==
    LET d == Difference(s, e.seqnr)
    IN IF e = None THEN [entry |-> olsr_create_duplicate_entry(s), process |-> TRUE]
       ELSE IF TooLowFor(e, s) THEN TooLowResult(e, s)
       ELSE IF d <= 0 THEN [entry |-> [e EXCEPT !.low = 0, !.seen = @ \cup {-d}],
                            process |-> -d \notin e.seen]
       ELSE [entry |-> [seqnr |-> s, low |-> 0, seen |-> Shifted(e, d)], process |-> TRUE]

-----------------------------------------------------------------------------
(* Sending *)

\* A message that does not fit sends the buffer first.
net_outbuffer_push(b, m) == IF Len(b) < PacketRoom THEN Append(b, m) ELSE <<m>>
Overflow(b) == IF Len(b) < PacketRoom THEN <<>> ELSE <<b>>

\* The packets of s reach the sockets of all that hear h.
Broadcast(h, q, s) ==
    [k \in Node |-> IF k \notin net.hears[h] THEN q[k]
                    ELSE q[k] \o [i \in DOMAIN s |-> [from |-> h, msgs |-> s[i]]]]

Forwarded(m) == [m EXCEPT !.hop = @ + 1, !.ttl = @ - 1]

\* mutant: the originator, not the sender, has to be a selector
OriginatorSelected(h, f, m) == m.ttl >= 2 /\ m.hop + m.ttl <= MaxTtl /\ h \in relays[m.org]

\* olsr_forward_message: ttl, and the sender is a symmetric MPR selector
Forwards(h, f, m) ==
    /\ m.ttl >= 2 /\ m.hop + m.ttl <= MaxTtl
    /\ f \in net.sym[h]
    /\ h \in relays[f]

\* The handlers of flooded messages discard what a host that is not a symmetric
\* neighbour sent, and forward the rest; HELLOs are never forwarded.  A flooded
\* message is a MID or an HNA message: what olsr_input_tc makes of a TC message's
\* own numbers before that is in Lsdb.
Accepts(h, f, m) == m.kind = "unknown" \/ f \in net.sym[h]

-----------------------------------------------------------------------------
(* Receiving.  A step is one turn of the loop over a packet: the hosts run *)
(* side by side, and what one of them sends in the middle of a packet may  *)
(* be received before it comes to the end.                                 *)

MessagesOf(s) == {s[i] : i \in DOMAIN s}

\* The messages of the packet behind the first one, none where the loop is left.
Rest(pkt, stop) == IF stop THEN <<>> ELSE Tail(pkt.msgs)

\* The loop goes on to the next message; the packets of s have left.
NextMessage(h, stop, s) ==
    LET rest == Rest(Head(queue[h]), stop)
        q == IF rest = <<>> THEN Tail(queue[h])
             ELSE <<[from |-> Head(queue[h]).from, msgs |-> rest]>> \o Tail(queue[h])
    IN  /\ queue' = Broadcast(h, [queue EXCEPT ![h] = q], s)
        /\ busy' = IF rest = <<>> THEN busy \ {h} ELSE busy \cup {h}

\* The parser skips the host's own messages.
OwnMessage(h, m) ==
    /\ m.org = h
    /\ NextMessage(h, FALSE, <<>>)
    /\ UNCHANGED <<dup, out, history>>

Block(h, m) ==
    LET e == dup[h][m.org]
        r == olsr_shall_process_message(e, m.seq)
        new == handled[h][m.n] = 0
        count == missed[h][m.org] + IF new THEN 1 ELSE 0
    IN  /\ m.org # h /\ ~r.process
        /\ dup' = [dup EXCEPT ![h][m.org] = r.entry]
        /\ NextMessage(h, FALSE, <<>>)
        /\ missed' = [missed EXCEPT ![h][m.org] = count]
        /\ late' = [late EXCEPT ![h][m.org] =
                       IF ~TooLowFor(e, m.seq) /\ count > 0 THEN @ + 1 ELSE @]
        /\ spoiled' = IF new THEN spoiled \cup {m.n} ELSE spoiled
        /\ UNCHANGED <<out, handled, opened, resets>>

\* The handler, olsr_forward_message and, behind a message of unknown type, the
\* end of the loop.
Process(h, f, m) ==
    LET e == dup[h][m.org]
        r == olsr_shall_process_message(e, m.seq)
        forward == m.kind # "hello" /\ Accepts(h, f, m) /\ Forwards(h, f, m)
        stop == m.kind = "unknown"
        behind == IF stop THEN MessagesOf(Tail(Head(queue[h]).msgs)) ELSE {}
    IN  /\ m.org # h /\ r.process
        /\ dup' = [dup EXCEPT ![h][m.org] = r.entry]
        /\ out' = IF forward THEN [out EXCEPT ![h] = net_outbuffer_push(@, Forwarded(m))] ELSE out
        /\ NextMessage(h, stop, IF forward THEN Overflow(out[h]) ELSE <<>>)
        /\ handled' = [handled EXCEPT ![h][m.n] = @ + 1]
        /\ opened' = IF e = None THEN [opened EXCEPT ![h] = @ \cup {m.n}] ELSE opened
        /\ resets' = IF e # None /\ TooLowFor(e, m.seq)
                     THEN [resets EXCEPT ![h][m.org] = @ + 1] ELSE resets
        /\ missed' = [missed EXCEPT ![h][m.org] = 0]
        /\ late' = [late EXCEPT ![h][m.org] = 0]
        /\ spoiled' = spoiled \cup {b.n : b \in behind} \cup IF Accepts(h, f, m) THEN {} ELSE {m.n}

\* olsr_input and parse_packet
parse_packet(h) ==
    /\ queue[h] # <<>>
    /\ LET msg == Head(Head(queue[h]).msgs)
       IN  OwnMessage(h, msg) \/ Block(h, msg) \/ Process(h, Head(queue[h]).from, msg)
    /\ UNCHANGED <<net, relays, seqno, made, faults>>

\* mutant: only a full buffer is sent
OutputWhenFull(h) ==
    /\ Len(out[h]) = PacketRoom /\ h \notin busy
    /\ out' = [out EXCEPT ![h] = <<>>]
    /\ queue' = Broadcast(h, queue, <<out[h]>>)
    /\ UNCHANGED <<net, relays, seqno, dup, busy, made, faults, history>>

\* the main loop, once fwdtimer has run out
net_output(h) ==
    /\ out[h] # <<>> /\ h \notin busy
    /\ out' = [out EXCEPT ![h] = <<>>]
    /\ queue' = Broadcast(h, queue, <<out[h]>>)
    /\ UNCHANGED <<net, relays, seqno, dup, busy, made, faults, history>>

\* mutant: the counter is wider than the field
UnboundedSeqno(h) == seqno[h] + 1

get_msg_seqno(h) == (seqno[h] + 1) % SeqRange

OnTheWay ==
    (UNION {MessagesOf(out[h]) : h \in Node})
      \cup (UNION {MessagesOf(p.msgs) : p \in UNION {MessagesOf(queue[h]) : h \in Node}})

\* h makes a message and puts it into the buffer
Generate(h, kind) ==
    /\ Len(made) < net.messages /\ kind \in net.kinds[h] /\ h \notin busy
    /\ net.apart => OnTheWay = {}
    /\ made' = Append(made, [org |-> h, kind |-> kind])
    /\ seqno' = [seqno EXCEPT ![h] = get_msg_seqno(h)]
    /\ out' = [out EXCEPT ![h] = net_outbuffer_push(@,
                  [org |-> h, seq |-> seqno[h], n |-> Len(made) + 1, kind |-> kind, hop |-> 0,
                   ttl |-> IF kind = "hello" THEN 1 ELSE MaxTtl])]
    /\ queue' = Broadcast(h, queue, Overflow(out[h]))
    /\ UNCHANGED <<net, relays, dup, busy, faults, history>>

-----------------------------------------------------------------------------
(* Faults *)

\* Two minutes without a message of o; no copy of one h has heard is still around.
olsr_cleanup_duplicate_entry(h, o) ==
    /\ faults < net.faults
    /\ dup[h][o] # None /\ h \notin busy
    /\ \A m \in OnTheWay : m.org = o => handled[h][m.n] = 0 /\ missed[h][o] = 0
    /\ dup' = [dup EXCEPT ![h][o] = None]
    /\ faults' = faults + 1
    /\ UNCHANGED <<net, relays, seqno, out, queue, busy, made, history>>

\* olsrd on h starts again, in the middle of a packet or not: init_msg_seqno picks
\* any number.
Restart(h) ==
    /\ faults < net.faults
    /\ faults' = faults + 1
    /\ \E s \in 0 .. SeqRange - 1 : seqno' = [seqno EXCEPT ![h] = s]
    /\ dup' = [dup EXCEPT ![h] = [o \in Node |-> None]]
    /\ out' = [out EXCEPT ![h] = <<>>]
    /\ queue' = [queue EXCEPT ![h] = <<>>]
    /\ busy' = busy \ {h}
    /\ handled' = [handled EXCEPT ![h] = [n \in 1 .. MaxMessages |-> 0]]
    /\ opened' = [opened EXCEPT ![h] = {}]
    /\ resets' = [resets EXCEPT ![h] = [o \in Node |-> 0]]
    /\ missed' = [missed EXCEPT ![h] = [o \in Node |-> 0]]
    /\ late' = [late EXCEPT ![h] = [o \in Node |-> 0]]
    /\ spoiled' = DOMAIN made
    /\ UNCHANGED <<net, relays, made>>

\* h misses a packet (external)
Lose(h) ==
    /\ faults < net.faults /\ queue[h] # <<>> /\ h \notin busy
    /\ faults' = faults + 1
    /\ queue' = [queue EXCEPT ![h] = Tail(@)]
    /\ spoiled' = spoiled \cup {m.n : m \in MessagesOf(Head(queue[h]).msgs)}
    /\ UNCHANGED <<net, relays, seqno, dup, out, busy, made, handled, opened, resets, missed, late>>

Init ==
    /\ net \in Scenario
    /\ relays \in net.relays
    /\ seqno \in [Node -> net.first]
    /\ dup = [h \in Node |-> [o \in Node |-> None]]
    /\ out = [h \in Node |-> <<>>]
    /\ queue = [h \in Node |-> <<>>]
    /\ busy = {} /\ made = <<>> /\ faults = 0
    /\ handled = [h \in Node |-> [n \in 1 .. MaxMessages |-> 0]]
    /\ opened = [h \in Node |-> {}]
    /\ resets = [h \in Node |-> [o \in Node |-> 0]]
    /\ missed = [h \in Node |-> [o \in Node |-> 0]]
    /\ late = [h \in Node |-> [o \in Node |-> 0]]
    /\ spoiled = {}

\* the hosts of this network
Present == {h \in Node : net.sym[h] # {}}

Next ==
    \E h \in Present :
        \/ parse_packet(h)
        \/ net_output(h)
        \/ \E kind \in Kind : Generate(h, kind)
        \/ \E o \in Present : olsr_cleanup_duplicate_entry(h, o)
        \/ Restart(h)
        \/ Lose(h)

Spec == Init /\ [][Next]_vars

\* the scheduler of every host polls the sockets and sends what is pending
FairSpec == Spec /\ \A h \in Node : WF_vars(parse_packet(h)) /\ WF_vars(net_output(h))

-----------------------------------------------------------------------------
(* Properties *)

Message(k) ==
    [org : Node, seq : 0 .. SeqRange - 1, n : 1 .. k, hop : 0 .. MaxTtl, ttl : 1 .. MaxTtl, kind : Kind]
Packet(k) == [from : Node, msgs : Seq(Message(k)) \ {<<>>}]

\* Type invariant: every copy on its way is of a message that was made, its ttl
\* has not run out, no packet is empty and no buffer exceeds a packet.
TypeOK ==
    /\ seqno \in [Node -> 0 .. SeqRange - 1]
    /\ dup \in [Node -> [Node -> Entry \cup {None}]]
    /\ made \in Seq([org : Node, kind : Kind]) /\ Len(made) <= MaxMessages
    /\ out \in [Node -> Seq(Message(Len(made)))]
    /\ \A h \in Node : Len(out[h]) <= PacketRoom
    /\ queue \in [Node -> Seq(Packet(Len(made)))]
    /\ missed \in [Node -> [Node -> Nat]] /\ late \in [Node -> [Node -> Nat]]
    /\ busy \subseteq Node /\ \A h \in busy : queue[h] # <<>>

\* However many copies of a message arrive, over whatever detours, a host
\* processes it once; twice only if it created the dup_entry, whose array is
\* then still empty, and once more for every time the entry was set back.
ProcessedOnce ==
    \A h \in Node : \A n \in DOMAIN made :
        handled[h][n] <= 1 + Cardinality(opened[h] \cap {n}) + resets[h][made[n].org]

\* Where the numbers of an originator wrap, or it starts again with a low one, a
\* host that hears it ignores at most TooLow copies before it follows again, and at
\* most TooLow + 1 more for each copy in between that falls into the window and is
\* blocked: an older message, or a new one whose number was used before the restart.
\* Such a copy clears too_low_counter (duplicate_set.c olsr_shall_process_message).
HeardAgain == \A h, o \in Node : missed[h][o] <= TooLow + (TooLow + 1) * late[h][o]

\* Without losses a flooded message has reached every host once nothing is on
\* its way any more, although a relay that knows the originator and hears the
\* message first from a neighbour that did not select it never forwards it (parser.c
\* parse_packet, olsr.c olsr_forward_message): the relays of every host cover its
\* two-hop neighbours.  Not covered is a message that a host lost because it came
\* behind one of unknown type in the same packet, its first copy came over a link
\* that is not symmetric, or its number was too low.
FloodReaches ==
    OnTheWay = {} => \A n \in DOMAIN made \ spoiled : made[n].kind # "hello" =>
        \A h \in Present \ {made[n].org} : handled[h][n] > 0

\* Every flood ends, although copies of the first message of an originator are
\* processed and forwarded twice.
FloodEnds == []<>(OnTheWay = {})
=============================================================================
