--------------------------- MODULE FloodingProofs ---------------------------
(***************************************************************************)
(* What holds of the flooding of messages in every network, with windows,  *)
(* counters and packets of any size.                                       *)
(***************************************************************************)
EXTENDS Flooding, FiniteSetTheorems, TLAPS

(* How many copies of messages of o host h may have blocked since late was *)
(* raised last: too_low_counter counts them, unless the entry has expired. *)
Blocked(h, o) == IF dup[h][o] = None THEN TooLow ELSE dup[h][o].low

Counted == \A h, o \in Node : missed[h][o] <= Blocked(h, o) + (TooLow + 1) * late[h][o]

(* The inductive invariant.                                                *)
FloodInv == net \in Scenario /\ TypeOK /\ Counted

-----------------------------------------------------------------------------
(* The duplicate set *)

(* What olsr_shall_process_message leaves is an entry again; where it      *)
(* blocks a message there was one, and its counter is one higher or zero.  *)
LEMMA ShallProcess ==
    ASSUME NEW e \in Entry \cup {None}, NEW s \in 0 .. SeqRange - 1
    PROVE  /\ olsr_shall_process_message(e, s).entry \in Entry
           /\ ~olsr_shall_process_message(e, s).process =>
                 /\ e \in Entry
                 /\ TooLowFor(e, s) => /\ e.low < TooLow
                                       /\ olsr_shall_process_message(e, s).entry.low = e.low + 1
                 /\ ~TooLowFor(e, s) => olsr_shall_process_message(e, s).entry.low = 0
<1> USE FloodingAssumption, NoEntryAssumption
<1>1. CASE e = None
  <2>1. olsr_shall_process_message(e, s) = [entry |-> olsr_create_duplicate_entry(s), process |-> TRUE]
    BY <1>1 DEF olsr_shall_process_message
  <2>2. olsr_create_duplicate_entry(s) \in Entry
    BY DEF olsr_create_duplicate_entry, Entry
  <2> QED BY <2>1, <2>2
<1>2. CASE e # None /\ TooLowFor(e, s)
  <2>1. olsr_shall_process_message(e, s) = TooLowResult(e, s)
    BY <1>2 DEF olsr_shall_process_message
  <2>2. CASE e.low < TooLow
    <3> DEFINE n == [e EXCEPT !.low = @ + 1]
    <3>1. TooLowResult(e, s) = [entry |-> n, process |-> FALSE]
      BY <2>2 DEF TooLowResult
    <3>2. e \in Entry
      BY <1>2
    <3>3. n \in Entry /\ n.low = e.low + 1
      BY <2>2, <3>2 DEF Entry
    <3> HIDE DEF n
    <3> QED BY <1>2, <2>1, <2>2, <3>1, <3>2, <3>3
  <2>3. CASE ~(e.low < TooLow)
    <3>1. TooLowResult(e, s) = [entry |-> [seqnr |-> s, low |-> 0, seen |-> {0}], process |-> TRUE]
      BY <2>3 DEF TooLowResult
    <3>2. [seqnr |-> s, low |-> 0, seen |-> {0}] \in Entry
      BY DEF Entry
    <3> QED BY <2>1, <3>1, <3>2
  <2> QED BY <2>2, <2>3
<1>3. CASE e # None /\ ~TooLowFor(e, s)
  <2> DEFINE d == Difference(s, e.seqnr)
  <2>1. e \in Entry
    BY <1>3
  <2>2. d \in Int /\ d >= 1 - Window
    BY <1>3, <2>1 DEF Difference, TooLowFor, Entry
  <2> HIDE DEF d
  <2>3. CASE d <= 0
    <3> DEFINE n == [e EXCEPT !.low = 0, !.seen = @ \cup {-d}]
               p == -d \notin e.seen
    <3>1. olsr_shall_process_message(e, s) = [entry |-> n, process |-> p]
      BY <1>3, <2>3 DEF olsr_shall_process_message, d
    <3>2. -d \in 0 .. Window - 1
      BY <2>2, <2>3
    <3> DEFINE i == [e EXCEPT !.low = 0]
               x == e.seen \cup {-d}
    <3>3. x \in SUBSET (0 .. Window - 1) /\ 0 \in 0 .. TooLow
      BY <2>1, <3>2 DEF Entry
    <3>4. n = [i EXCEPT !.seen = x]
      BY <2>1 DEF Entry
    <3>5. i \in Entry /\ i.low = 0
      BY <2>1, <3>3 DEF Entry
    <3> HIDE DEF i, x
    <3> HIDE DEF n
    <3>6. n \in Entry
      BY <3>3, <3>4, <3>5 DEF Entry
    <3>7. n.low = 0
      BY <3>4, <3>5 DEF Entry
    <3> HIDE DEF p
    <3> QED BY <1>3, <2>1, <3>1, <3>6, <3>7
  <2>4. CASE ~(d <= 0)
    <3>1. olsr_shall_process_message(e, s) =
             [entry |-> [seqnr |-> s, low |-> 0, seen |-> Shifted(e, d)], process |-> TRUE]
      BY <1>3, <2>4 DEF olsr_shall_process_message, d
    <3>2. Shifted(e, d) \in SUBSET (0 .. Window - 1)
      BY DEF Shifted
    <3>3. [seqnr |-> s, low |-> 0, seen |-> Shifted(e, d)] \in Entry
      BY <3>2 DEF Entry
    <3> QED BY <3>1, <3>3
  <2> QED BY <2>3, <2>4
<1> QED BY <1>1, <1>2, <1>3

-----------------------------------------------------------------------------
(* Messages, buffers and packets *)

LEMMA MessagesGrow ==
    ASSUME NEW k \in Nat
    PROVE  /\ \A b \in Seq(Message(k)) : b \in Seq(Message(k + 1))
           /\ \A b \in Seq(Packet(k)) : b \in Seq(Packet(k + 1))
<1>1. \A m \in Message(k) : m \in Message(k + 1)
  BY DEF Message
<1>2. \A b \in Seq(Message(k)) : b \in Seq(Message(k + 1))
  <2> HIDE DEF Message
  <2> QED BY <1>1
<1>3. \A p \in Packet(k) : p \in Packet(k + 1)
  BY <1>2 DEF Packet
<1>4. \A b \in Seq(Packet(k)) : b \in Seq(Packet(k + 1))
  BY <1>3
<1> QED BY <1>2, <1>4

(* A host forwards only what has two hops to go, so the copy that leaves   *)
(* has one.                                                                *)
LEMMA ForwardedType ==
    ASSUME NEW k \in Nat, NEW h, NEW f, NEW m \in Message(k), Forwards(h, f, m)
    PROVE  Forwarded(m) \in Message(k)
<1>1. m.ttl >= 2 /\ m.hop + m.ttl <= MaxTtl /\ MaxTtl \in Nat
  BY FloodingAssumption DEF Forwards
<1>2. m.ttl \in 1 .. MaxTtl /\ m.hop \in 0 .. MaxTtl
  BY DEF Message
<1>3. m.ttl - 1 \in 1 .. MaxTtl /\ m.hop + 1 \in 0 .. MaxTtl
  BY <1>1, <1>2
<1>4. [m EXCEPT !.hop = m.hop + 1] \in Message(k)
  BY <1>3 DEF Message
<1>5. [[m EXCEPT !.hop = m.hop + 1] EXCEPT !.ttl = m.ttl - 1] \in Message(k)
  BY <1>3, <1>4 DEF Message
<1>6. Forwarded(m) = [[m EXCEPT !.hop = m.hop + 1] EXCEPT !.ttl = m.ttl - 1]
  BY DEF Forwarded, Message
<1> QED BY <1>5, <1>6

(* Packets with messages of S.                                             *)
Packets(S) == [from : Node, msgs : Seq(S) \ {<<>>}]

LEMMA PacketsOf == \A k : Packet(k) = Packets(Message(k))
BY DEF Packets, Packet

LEMMA PacketsGrow ==
    ASSUME NEW S, NEW T, S \subseteq T
    PROVE  Seq(S) \subseteq Seq(T) /\ Seq(Packets(S)) \subseteq Seq(Packets(T))
<1>1. Seq(S) \subseteq Seq(T)
  OBVIOUS
<1>2. Packets(S) \subseteq Packets(T)
  BY <1>1 DEF Packets
<1> QED BY <1>1, <1>2

(* net_outbuffer_push never overfills the buffer, and what it sends first  *)
(* is a full packet.                                                       *)
LEMMA PushType ==
    ASSUME NEW S, NEW b \in Seq(S), Len(b) <= PacketRoom, NEW m \in S
    PROVE  /\ net_outbuffer_push(b, m) \in Seq(S)
           /\ Len(net_outbuffer_push(b, m)) <= PacketRoom
           /\ Overflow(b) \in Seq(Seq(S) \ {<<>>})
<1>1. PacketRoom \in Nat /\ PacketRoom > 0
  BY FloodingAssumption
<1>2. CASE Len(b) < PacketRoom
  BY <1>1, <1>2 DEF net_outbuffer_push, Overflow
<1>3. CASE ~(Len(b) < PacketRoom)
  <2>1. b # <<>>
    BY <1>1, <1>3
  <2> QED BY <1>1, <1>3, <2>1 DEF net_outbuffer_push, Overflow
<1> QED BY <1>2, <1>3

(* What a host sends comes behind what is in the sockets already.          *)
LEMMA BroadcastType ==
    ASSUME NEW S, NEW h \in Node, NEW q \in [Node -> Seq(Packets(S))],
           NEW s \in Seq(Seq(S) \ {<<>>})
    PROVE  /\ Broadcast(h, q, s) \in [Node -> Seq(Packets(S))]
           /\ \A j \in Node : q[j] # <<>> => Broadcast(h, q, s)[j] # <<>>
<1> DEFINE t == [i \in DOMAIN s |-> [from |-> h, msgs |-> s[i]]]
<1>1. t \in Seq(Packets(S))
  <2>1. \A i \in 1 .. Len(s) : [from |-> h, msgs |-> s[i]] \in Packets(S)
    BY DEF Packets
  <2>2. t \in [1 .. Len(s) -> Packets(S)] /\ Len(s) \in Nat
    BY <2>1
  <2> QED BY <2>2
<1> HIDE DEF t
<1>2. Broadcast(h, q, s) = [j \in Node |-> IF j \notin net.hears[h] THEN q[j] ELSE q[j] \o t]
  BY DEF Broadcast, t
<1>3. ASSUME NEW j \in Node
      PROVE  /\ Broadcast(h, q, s)[j] \in Seq(Packets(S))
             /\ q[j] # <<>> => Broadcast(h, q, s)[j] # <<>>
  <2>1. q[j] \in Seq(Packets(S))
    OBVIOUS
  <2>2. q[j] \o t \in Seq(Packets(S)) /\ (q[j] # <<>> => q[j] \o t # <<>>)
    BY <1>1, <2>1
  <2>3. Broadcast(h, q, s)[j] = q[j] \/ Broadcast(h, q, s)[j] = q[j] \o t
    BY <1>2
  <2> QED BY <2>1, <2>2, <2>3
<1> QED BY <1>2, <1>3

LEMMA FirstOf ==
    ASSUME NEW S, queue \in [Node -> Seq(Packets(S))], NEW h \in Node, queue[h] # <<>>
    PROVE  /\ Head(queue[h]) \in Packets(S)
           /\ Head(Head(queue[h]).msgs) \in S
           /\ Tail(queue[h]) \in Seq(Packets(S))
           /\ Tail(Head(queue[h]).msgs) \in Seq(S)
<1>1. queue[h] \in Seq(Packets(S))
  OBVIOUS
<1>2. Head(queue[h]) \in Packets(S) /\ Tail(queue[h]) \in Seq(Packets(S))
  BY <1>1
<1>3. Head(queue[h]).msgs \in Seq(S) /\ Head(queue[h]).msgs # <<>>
  BY <1>2 DEF Packets
<1> QED BY <1>1, <1>2, <1>3

(* The head of a packet that waits: its sender and its first message.      *)
LEMMA FirstMessage ==
    ASSUME TypeOK, NEW h \in Node, queue[h] # <<>>
    PROVE  /\ Len(made) \in Nat
           /\ Head(queue[h]) \in Packet(Len(made))
           /\ Head(Head(queue[h]).msgs) \in Message(Len(made))
           /\ Tail(queue[h]) \in Seq(Packet(Len(made)))
           /\ Tail(Head(queue[h]).msgs) \in Seq(Message(Len(made)))
<1>1. queue \in [Node -> Seq(Packets(Message(Len(made))))] /\ Len(made) \in Nat
  BY PacketsOf DEF TypeOK
<1> QED BY <1>1, FirstOf, PacketsOf

(* Going on to the next message leaves packets that are not empty, and a   *)
(* host is in the middle of one only as long as there is one.              *)
LEMMA NextMessageType ==
    ASSUME NEW S, queue \in [Node -> Seq(Packets(S))],
           busy \subseteq Node, \A j \in busy : queue[j] # <<>>,
           NEW h \in Node, queue[h] # <<>>, NEW stop \in BOOLEAN,
           NEW s \in Seq(Seq(S) \ {<<>>}), NextMessage(h, stop, s)
    PROVE  /\ queue' \in [Node -> Seq(Packets(S))]
           /\ busy' \subseteq Node
           /\ \A j \in busy' : queue'[j] # <<>>
<1> DEFINE rest == Rest(Head(queue[h]), stop)
           q == IF rest = <<>> THEN Tail(queue[h])
                ELSE <<[from |-> Head(queue[h]).from, msgs |-> rest]>> \o Tail(queue[h])
           all == [queue EXCEPT ![h] = q]
<1>1. /\ queue' = Broadcast(h, all, s)
      /\ busy' = IF rest = <<>> THEN busy \ {h} ELSE busy \cup {h}
  BY DEF NextMessage
<1>2. /\ Head(queue[h]) \in Packets(S) /\ Tail(queue[h]) \in Seq(Packets(S))
      /\ Tail(Head(queue[h]).msgs) \in Seq(S)
  BY FirstOf
<1>4. rest \in Seq(S)
  BY <1>2 DEF Rest
<1>5. Head(queue[h]).from \in Node
  BY <1>2 DEF Packets
<1> HIDE DEF rest
<1>6. q \in Seq(Packets(S)) /\ (rest # <<>> => q # <<>>)
  <2>1. CASE rest = <<>>
    BY <1>2, <2>1
  <2>2. CASE rest # <<>>
    <3> DEFINE p == [from |-> Head(queue[h]).from, msgs |-> rest]
    <3>1. p \in Packets(S)
      BY <1>4, <1>5, <2>2 DEF Packets
    <3> HIDE DEF p
    <3>2. <<p>> \o Tail(queue[h]) \in Seq(Packets(S)) /\ <<p>> \o Tail(queue[h]) # <<>>
      BY <1>2, <3>1
    <3>3. q = <<p>> \o Tail(queue[h])
      BY <2>2 DEF p
    <3> HIDE DEF q
    <3> QED BY <3>2, <3>3
  <2> QED BY <2>1, <2>2
<1> HIDE DEF q
<1>7. /\ all \in [Node -> Seq(Packets(S))] /\ all[h] = q
      /\ \A j \in Node : j # h => all[j] = queue[j]
  BY <1>6
<1> HIDE DEF all
<1>9. /\ Broadcast(h, all, s) \in [Node -> Seq(Packets(S))]
      /\ \A j \in Node : all[j] # <<>> => Broadcast(h, all, s)[j] # <<>>
  BY <1>7, BroadcastType
<1>10. busy' \subseteq Node
  BY <1>1
<1>11. ASSUME NEW j \in busy' PROVE queue'[j] # <<>>
  <2>1. j \in Node
    BY <1>10
  <2>2. all[j] # <<>>
    BY <1>1, <1>6, <1>7, <2>1
  <2> QED BY <1>1, <1>9, <2>1, <2>2
<1> QED BY <1>1, <1>9, <1>10, <1>11

LEMMA NextMessageTyped ==
    ASSUME TypeOK, NEW h \in Node, queue[h] # <<>>, NEW stop \in BOOLEAN,
           NEW s \in Seq(Seq(Message(Len(made))) \ {<<>>}), NextMessage(h, stop, s)
    PROVE  /\ queue' \in [Node -> Seq(Packet(Len(made)))]
           /\ busy' \subseteq Node
           /\ \A j \in busy' : queue'[j] # <<>>
<1>1. queue \in [Node -> Seq(Packets(Message(Len(made))))]
  BY PacketsOf DEF TypeOK
<1>2. busy \subseteq Node /\ \A j \in busy : queue[j] # <<>>
  BY DEF TypeOK
<1>3. /\ queue' \in [Node -> Seq(Packets(Message(Len(made))))]
      /\ busy' \subseteq Node
      /\ \A j \in busy' : queue'[j] # <<>>
  BY <1>1, <1>2, NextMessageType
<1> QED BY <1>3, PacketsOf

-----------------------------------------------------------------------------
(* The invariant, action by action *)

LEMMA Times ==
    ASSUME NEW a \in Nat, NEW b \in Nat
    PROVE  a * b \in Nat /\ a * (b + 1) = a * b + a
OBVIOUS

LEMMA InitInv == Init => FloodInv
<1> SUFFICES ASSUME Init PROVE FloodInv
  OBVIOUS
<1>1. net \in Scenario /\ net.first \subseteq 0 .. SeqRange - 1
  BY FloodingAssumption DEF Init
<1>2. TooLow \in Nat /\ MaxMessages \in Nat /\ PacketRoom \in Nat
  BY FloodingAssumption
<1>3. seqno \in [Node -> 0 .. SeqRange - 1] /\ dup \in [Node -> [Node -> Entry \cup {None}]]
  BY <1>1 DEF Init
<1>4. made \in Seq([org : Node, kind : Kind]) /\ Len(made) <= MaxMessages /\ Len(made) \in Nat
  BY <1>2 DEF Init
<1>5. /\ out \in [Node -> Seq(Message(Len(made)))] /\ queue \in [Node -> Seq(Packet(Len(made)))]
      /\ \A h \in Node : Len(out[h]) <= PacketRoom
  BY <1>2 DEF Init
<1>6. missed \in [Node -> [Node -> Nat]] /\ late \in [Node -> [Node -> Nat]]
  BY DEF Init
<1>7. busy \subseteq Node /\ \A h \in busy : queue[h] # <<>>
  BY DEF Init
<1>8. ASSUME NEW h \in Node, NEW o \in Node
      PROVE  missed[h][o] <= Blocked(h, o) + (TooLow + 1) * late[h][o]
  <2>1. missed[h][o] = 0 /\ late[h][o] = 0 /\ dup[h][o] = None
    BY DEF Init
  <2> QED BY <1>2, <2>1 DEF Blocked
<1> QED BY <1>1, <1>3, <1>4, <1>5, <1>6, <1>7, <1>8 DEF FloodInv, TypeOK, Counted

LEMMA OwnMessageInv ==
    ASSUME FloodInv, NEW h \in Node, queue[h] # <<>>, NEW m, OwnMessage(h, m),
           UNCHANGED <<net, relays, seqno, made, faults>>
    PROVE  FloodInv'
<1> DEFINE go == FALSE
<1>1. NextMessage(h, go, <<>>) /\ UNCHANGED <<dup, out, missed, late>>
  BY DEF OwnMessage, history
<1>2. TypeOK /\ go \in BOOLEAN /\ <<>> \in Seq(Seq(Message(Len(made))) \ {<<>>})
  BY DEF FloodInv
<1> HIDE DEF go
<1>3. /\ queue' \in [Node -> Seq(Packet(Len(made)))]
      /\ busy' \subseteq Node /\ \A j \in busy' : queue'[j] # <<>>
  BY <1>1, <1>2, NextMessageTyped
<1>4. TypeOK'
  BY <1>1, <1>2, <1>3 DEF TypeOK
<1>5. Counted'
  BY <1>1 DEF FloodInv, Counted, Blocked
<1> QED BY <1>4, <1>5 DEF FloodInv

LEMMA BlockInv ==
    ASSUME FloodInv, NEW h \in Node, queue[h] # <<>>, NEW m \in Message(Len(made)), Block(h, m),
           UNCHANGED <<net, relays, seqno, made, faults>>
    PROVE  FloodInv'
<1> DEFINE go == FALSE
           e == dup[h][m.org]
           r == olsr_shall_process_message(e, m.seq)
           count == missed[h][m.org] + IF handled[h][m.n] = 0 THEN 1 ELSE 0
           times == IF ~TooLowFor(e, m.seq) /\ count > 0 THEN late[h][m.org] + 1
                    ELSE late[h][m.org]
<1>1. /\ ~r.process
      /\ dup' = [dup EXCEPT ![h][m.org] = r.entry]
      /\ NextMessage(h, go, <<>>)
      /\ missed' = [missed EXCEPT ![h][m.org] = count]
      /\ late' = [late EXCEPT ![h][m.org] = times]
      /\ UNCHANGED out
  BY DEF Block
<1>2. TypeOK /\ go \in BOOLEAN /\ <<>> \in Seq(Seq(Message(Len(made))) \ {<<>>})
  BY DEF FloodInv
<1> HIDE DEF go
<1>3. /\ queue' \in [Node -> Seq(Packet(Len(made)))]
      /\ busy' \subseteq Node /\ \A j \in busy' : queue'[j] # <<>>
  BY <1>1, <1>2, NextMessageTyped
<1>4. m.org \in Node /\ m.seq \in 0 .. SeqRange - 1
  BY DEF Message
<1>5. /\ e \in Entry \cup {None} /\ dup \in [Node -> [Node -> Entry \cup {None}]]
      /\ missed \in [Node -> [Node -> Nat]] /\ late \in [Node -> [Node -> Nat]]
      /\ missed[h][m.org] \in Nat /\ late[h][m.org] \in Nat
  <2>1. /\ dup \in [Node -> [Node -> Entry \cup {None}]]
        /\ missed \in [Node -> [Node -> Nat]] /\ late \in [Node -> [Node -> Nat]]
    BY <1>2 DEF TypeOK
  <2> QED BY <1>4, <2>1
<1>6. count \in Nat /\ count <= missed[h][m.org] + 1 /\ times \in Nat
  <2> DEFINE a == missed[h][m.org]
             b == late[h][m.org]
  <2>1. a \in Nat /\ b \in Nat
    BY <1>5
  <2> HIDE DEF a, b
  <2> QED BY <2>1, SMTT(20) DEF a, b
<1>7. /\ r.entry \in Entry /\ e \in Entry
      /\ TooLowFor(e, m.seq) => e.low < TooLow /\ r.entry.low = e.low + 1
      /\ ~TooLowFor(e, m.seq) => r.entry.low = 0
  BY <1>1, <1>4, <1>5, ShallProcess
<1>8. /\ TooLowFor(e, m.seq) => times = late[h][m.org]
      /\ ~TooLowFor(e, m.seq) => times = late[h][m.org] + 1 \/ (count = 0 /\ times = late[h][m.org])
  BY <1>5, <1>6
<1>9. missed[h][m.org] <= e.low + (TooLow + 1) * late[h][m.org]
  <2>1. e # None
    BY <1>7, NoEntryAssumption
  <2> QED BY <1>4, <2>1 DEF FloodInv, Counted, Blocked
<1>10. e.low \in 0 .. TooLow /\ TooLow \in Nat /\ r.entry.low \in 0 .. TooLow
  BY <1>7, FloodingAssumption DEF Entry
<1> HIDE DEF e, r, count, times
<1>11. count <= r.entry.low + (TooLow + 1) * times
  <2> DEFINE l == late[h][m.org]
             c == missed[h][m.org]
             t == TooLowFor(e, m.seq)
             el == e.low
             rl == r.entry.low
             w == (TooLow + 1) * l
  <2>1. /\ l \in Nat /\ c \in Nat /\ el \in 0 .. TooLow /\ rl \in 0 .. TooLow /\ TooLow \in Nat
        /\ c <= el + w /\ count <= c + 1 /\ count \in Nat
        /\ t => times = l /\ rl = el + 1
        /\ ~t => rl = 0 /\ (times = l + 1 \/ (count = 0 /\ times = l))
    BY <1>5, <1>6, <1>7, <1>8, <1>9, <1>10
  <2>2. w \in Nat /\ (TooLow + 1) * (l + 1) = w + TooLow + 1
    <3> DEFINE a == TooLow + 1
    <3>1. a \in Nat /\ l \in Nat
      BY <2>1
    <3> HIDE DEF a, l
    <3>2. a * l \in Nat /\ a * (l + 1) = a * l + a
      BY <3>1, Times
    <3> QED BY <2>1, <3>2 DEF a
  <2> HIDE DEF l, c, t, el, rl
  <2>3. CASE t
    BY <2>1, <2>2, <2>3 DEF rl
  <2>4. CASE ~t /\ times = l + 1
    <3>1. (TooLow + 1) * times = w + TooLow + 1
      BY <2>2, <2>4
    <3> HIDE DEF w
    <3> QED BY <2>1, <2>2, <2>4, <3>1 DEF rl
  <2>5. CASE ~t /\ count = 0 /\ times = l
    <3>1. (TooLow + 1) * times = w
      BY <2>5
    <3> HIDE DEF w
    <3> QED BY <2>1, <2>2, <2>5, <3>1 DEF rl
  <2> QED BY <2>1, <2>3, <2>4, <2>5
<1>12. dup' \in [Node -> [Node -> Entry \cup {None}]]
  BY <1>1, <1>4, <1>5, <1>7
<1>13. missed' \in [Node -> [Node -> Nat]] /\ late' \in [Node -> [Node -> Nat]]
  BY <1>1, <1>4, <1>5, <1>6
<1>14. TypeOK'
  BY <1>1, <1>2, <1>3, <1>12, <1>13 DEF TypeOK
<1>15. ASSUME NEW i \in Node, NEW o \in Node
       PROVE  missed'[i][o] <= Blocked(i, o)' + (TooLow + 1) * late'[i][o]
  <2>1. CASE i = h /\ o = m.org
    <3>1. missed'[i][o] = count /\ late'[i][o] = times /\ dup'[i][o] = r.entry
      BY <1>1, <1>5, <2>1
    <3>2. Blocked(i, o)' = r.entry.low
      BY <1>7, <3>1, NoEntryAssumption DEF Blocked
    <3> QED BY <1>11, <3>1, <3>2
  <2>2. CASE ~(i = h /\ o = m.org)
    <3>1. missed'[i][o] = missed[i][o] /\ late'[i][o] = late[i][o] /\ dup'[i][o] = dup[i][o]
      BY <1>1, <1>5, <2>2
    <3>2. Blocked(i, o)' = Blocked(i, o)
      BY <3>1 DEF Blocked
    <3>3. missed[i][o] <= Blocked(i, o) + (TooLow + 1) * late[i][o]
      BY DEF FloodInv, Counted
    <3> QED BY <3>1, <3>2, <3>3
  <2> QED BY <2>1, <2>2
<1>16. Counted'
  BY <1>15 DEF Counted
<1> QED BY <1>14, <1>16 DEF FloodInv

LEMMA ProcessInv ==
    ASSUME FloodInv, NEW h \in Node, queue[h] # <<>>, NEW f, NEW m \in Message(Len(made)),
           Process(h, f, m), UNCHANGED <<net, relays, seqno, made, faults>>
    PROVE  FloodInv'
<1> DEFINE k == Len(made)
           e == dup[h][m.org]
           r == olsr_shall_process_message(e, m.seq)
           forward == m.kind # "hello" /\ Accepts(h, f, m) /\ Forwards(h, f, m)
           stop == m.kind = "unknown"
           sent == IF forward THEN Overflow(out[h]) ELSE <<>>
           buffer == net_outbuffer_push(out[h], Forwarded(m))
<1>1. /\ dup' = [dup EXCEPT ![h][m.org] = r.entry]
      /\ out' = IF forward THEN [out EXCEPT ![h] = buffer] ELSE out
      /\ NextMessage(h, stop, sent)
      /\ missed' = [missed EXCEPT ![h][m.org] = 0]
      /\ late' = [late EXCEPT ![h][m.org] = 0]
  BY DEF Process
<1>2. TypeOK /\ stop \in BOOLEAN
  BY DEF FloodInv
<1>3. /\ dup \in [Node -> [Node -> Entry \cup {None}]]
      /\ missed \in [Node -> [Node -> Nat]] /\ late \in [Node -> [Node -> Nat]]
      /\ out \in [Node -> Seq(Message(k))] /\ k \in Nat
      /\ \A j \in Node : Len(out[j]) <= PacketRoom
  BY <1>2 DEF TypeOK
<1>4. m.org \in Node /\ m.seq \in 0 .. SeqRange - 1
  BY DEF Message
<1>5. r.entry \in Entry
  <2>1. e \in Entry \cup {None}
    BY <1>3, <1>4
  <2> HIDE DEF e
  <2> QED BY <1>4, <2>1, ShallProcess
<1>6. forward => /\ buffer \in Seq(Message(k)) /\ Len(buffer) <= PacketRoom
                 /\ Overflow(out[h]) \in Seq(Seq(Message(k)) \ {<<>>})
  <2> SUFFICES ASSUME forward
               PROVE  /\ buffer \in Seq(Message(k)) /\ Len(buffer) <= PacketRoom
                      /\ Overflow(out[h]) \in Seq(Seq(Message(k)) \ {<<>>})
    OBVIOUS
  <2>1. Forwarded(m) \in Message(k)
    BY <1>3, ForwardedType
  <2>2. out[h] \in Seq(Message(k)) /\ Len(out[h]) <= PacketRoom
    BY <1>3
  <2> HIDE DEF k
  <2> QED BY <1>3, <2>1, <2>2, PushType
<1> HIDE DEF r, buffer
<1>7. sent \in Seq(Seq(Message(Len(made))) \ {<<>>})
  <2>1. <<>> \in Seq(Seq(Message(Len(made))) \ {<<>>})
    OBVIOUS
  <2> HIDE DEF forward
  <2> QED BY <1>6, <2>1
<1> HIDE DEF sent, stop, forward
<1>8. /\ queue' \in [Node -> Seq(Packet(Len(made)))]
      /\ busy' \subseteq Node /\ \A j \in busy' : queue'[j] # <<>>
  BY <1>1, <1>2, <1>7, NextMessageTyped
<1>9. dup' \in [Node -> [Node -> Entry \cup {None}]]
  BY <1>1, <1>3, <1>4, <1>5
<1>10. missed' \in [Node -> [Node -> Nat]] /\ late' \in [Node -> [Node -> Nat]]
  BY <1>1, <1>3, <1>4
<1>11. out' \in [Node -> Seq(Message(k))] /\ \A j \in Node : Len(out'[j]) <= PacketRoom
  <2> HIDE DEF k
  <2>1. CASE forward
    BY <1>1, <1>3, <1>6, <2>1
  <2>2. CASE ~forward
    BY <1>1, <1>3, <2>2
  <2> QED BY <2>1, <2>2
<1>12. TypeOK'
  BY <1>2, <1>8, <1>9, <1>10, <1>11 DEF TypeOK
<1>13. ASSUME NEW i \in Node, NEW o \in Node
       PROVE  missed'[i][o] <= Blocked(i, o)' + (TooLow + 1) * late'[i][o]
  <2>1. CASE i = h /\ o = m.org
    <3>1. missed'[i][o] = 0 /\ late'[i][o] = 0 /\ dup'[i][o] = r.entry
      BY <1>1, <1>3, <2>1
    <3>2. Blocked(i, o)' = r.entry.low
      BY <1>5, <3>1, NoEntryAssumption DEF Blocked
    <3>3. r.entry.low \in Nat /\ TooLow \in Nat
      BY <1>5, FloodingAssumption DEF Entry
    <3> QED BY <3>1, <3>2, <3>3
  <2>2. CASE ~(i = h /\ o = m.org)
    <3>1. missed'[i][o] = missed[i][o] /\ late'[i][o] = late[i][o] /\ dup'[i][o] = dup[i][o]
      BY <1>1, <1>3, <2>2
    <3>2. Blocked(i, o)' = Blocked(i, o)
      BY <3>1 DEF Blocked
    <3>3. missed[i][o] <= Blocked(i, o) + (TooLow + 1) * late[i][o]
      BY DEF FloodInv, Counted
    <3> QED BY <3>1, <3>2, <3>3
  <2> QED BY <2>1, <2>2
<1>14. Counted'
  BY <1>13 DEF Counted
<1> QED BY <1>12, <1>14 DEF FloodInv

LEMMA OutputInv ==
    ASSUME FloodInv, NEW h \in Node, net_output(h)
    PROVE  FloodInv'
<1> DEFINE k == Len(made)
           sent == <<out[h]>>
<1>1. /\ out' = [out EXCEPT ![h] = <<>>] /\ queue' = Broadcast(h, queue, sent) /\ out[h] # <<>>
      /\ UNCHANGED <<net, seqno, dup, busy, made, missed, late>>
  BY DEF net_output, history
<1>2. TypeOK
  BY DEF FloodInv
<1>3. /\ out \in [Node -> Seq(Message(k))] /\ k \in Nat /\ queue \in [Node -> Seq(Packet(k))]
      /\ \A j \in Node : Len(out[j]) <= PacketRoom
      /\ busy \subseteq Node /\ \A j \in busy : queue[j] # <<>>
  BY <1>2 DEF TypeOK
<1>4. sent \in Seq(Seq(Message(k)) \ {<<>>})
  BY <1>1, <1>3
<1> HIDE DEF k, sent
<1>5. /\ queue' \in [Node -> Seq(Packet(k))]
      /\ \A j \in Node : queue[j] # <<>> => queue'[j] # <<>>
  BY <1>1, <1>3, <1>4, BroadcastType, PacketsOf
<1>6. out' \in [Node -> Seq(Message(k))] /\ \A j \in Node : Len(out'[j]) <= PacketRoom
  <2>1. PacketRoom \in Nat
    BY FloodingAssumption
  <2> QED BY <1>1, <1>3, <2>1
<1>7. busy' \subseteq Node /\ \A j \in busy' : queue'[j] # <<>>
  BY <1>1, <1>3, <1>5
<1>8. TypeOK'
  BY <1>1, <1>2, <1>5, <1>6, <1>7 DEF TypeOK, k
<1>9. Counted'
  BY <1>1 DEF FloodInv, Counted, Blocked
<1> QED BY <1>1, <1>8, <1>9 DEF FloodInv

LEMMA GenerateInv ==
    ASSUME FloodInv, NEW h \in Node, NEW kind \in Kind, Generate(h, kind)
    PROVE  FloodInv'
<1> DEFINE k == Len(made) + 1
           m == [org |-> h, seq |-> seqno[h], n |-> Len(made) + 1, kind |-> kind, hop |-> 0,
                 ttl |-> IF kind = "hello" THEN 1 ELSE MaxTtl]
           buffer == net_outbuffer_push(out[h], m)
           record == [org |-> h, kind |-> kind]
<1>1. /\ Len(made) < net.messages
      /\ made' = Append(made, record)
      /\ seqno' = [seqno EXCEPT ![h] = get_msg_seqno(h)]
      /\ out' = [out EXCEPT ![h] = buffer]
      /\ queue' = Broadcast(h, queue, Overflow(out[h]))
      /\ UNCHANGED <<net, dup, busy, missed, late>>
  BY DEF Generate, history
<1>2. TypeOK /\ net.messages \in 1 .. MaxMessages /\ MaxMessages \in Nat
  BY FloodingAssumption DEF FloodInv
<1>3. made' \in Seq([org : Node, kind : Kind]) /\ Len(made') = k /\ k <= MaxMessages /\ k \in Nat
  <2>1. record \in [org : Node, kind : Kind]
    OBVIOUS
  <2>2. made \in Seq([org : Node, kind : Kind]) /\ Len(made) \in Nat
    BY <1>2 DEF TypeOK
  <2> HIDE DEF record
  <2>3. made' \in Seq([org : Node, kind : Kind]) /\ Len(made') = Len(made) + 1
    BY <1>1, <2>1, <2>2
  <2>4. k <= MaxMessages /\ k \in Nat
    BY <1>1, <1>2, <2>2
  <2> QED BY <2>3, <2>4
<1>4. seqno[h] \in 0 .. SeqRange - 1 /\ seqno' \in [Node -> 0 .. SeqRange - 1]
  <2>1. seqno \in [Node -> 0 .. SeqRange - 1] /\ SeqRange \in Nat /\ SeqRange > 0
    <3>1. SeqRange \in Nat /\ SeqRange > 0
      BY FloodingAssumption
    <3> QED BY <1>2, <3>1 DEF TypeOK
  <2>2. get_msg_seqno(h) \in 0 .. SeqRange - 1
    BY <2>1 DEF get_msg_seqno
  <2> QED BY <1>1, <2>1, <2>2
<1>5. m \in Message(k)
  <2>1. k \in 1 .. k /\ MaxTtl \in 1 .. MaxTtl /\ 0 \in 0 .. MaxTtl /\ 1 \in 1 .. MaxTtl
    BY <1>3, FloodingAssumption, <1>2 DEF TypeOK
  <2> QED BY <1>4, <2>1 DEF Message
<1>6. /\ out \in [Node -> Seq(Message(k))] /\ queue \in [Node -> Seq(Packet(k))]
      /\ \A j \in Node : Len(out[j]) <= PacketRoom
      /\ busy \subseteq Node /\ \A j \in busy : queue[j] # <<>>
  <2>1. /\ out \in [Node -> Seq(Message(Len(made)))] /\ queue \in [Node -> Seq(Packet(Len(made)))]
        /\ Len(made) \in Nat
        /\ \A j \in Node : Len(out[j]) <= PacketRoom
        /\ busy \subseteq Node /\ \A j \in busy : queue[j] # <<>>
    BY <1>2 DEF TypeOK
  <2>2. /\ \A b \in Seq(Message(Len(made))) : b \in Seq(Message(k))
        /\ \A b \in Seq(Packet(Len(made))) : b \in Seq(Packet(k))
    BY <2>1, MessagesGrow
  <2> QED BY <2>1, <2>2
<1> HIDE DEF k, m
<1>7. /\ buffer \in Seq(Message(k)) /\ Len(buffer) <= PacketRoom
      /\ Overflow(out[h]) \in Seq(Seq(Message(k)) \ {<<>>})
  <2>1. out[h] \in Seq(Message(k)) /\ Len(out[h]) <= PacketRoom
    BY <1>6
  <2> QED BY <1>3, <1>5, <2>1, PushType
<1> HIDE DEF buffer
<1>8. /\ queue' \in [Node -> Seq(Packet(k))]
      /\ \A j \in Node : queue[j] # <<>> => queue'[j] # <<>>
  BY <1>1, <1>3, <1>6, <1>7, BroadcastType, PacketsOf
<1>9. out' \in [Node -> Seq(Message(k))] /\ \A j \in Node : Len(out'[j]) <= PacketRoom
  BY <1>1, <1>6, <1>7
<1>10. busy' \subseteq Node /\ \A j \in busy' : queue'[j] # <<>>
  BY <1>1, <1>6, <1>8
<1>11. /\ dup' \in [Node -> [Node -> Entry \cup {None}]]
       /\ missed' \in [Node -> [Node -> Nat]] /\ late' \in [Node -> [Node -> Nat]]
  BY <1>1, <1>2 DEF TypeOK
<1>12. TypeOK'
  BY <1>3, <1>4, <1>8, <1>9, <1>10, <1>11 DEF TypeOK
<1>13. Counted'
  BY <1>1 DEF FloodInv, Counted, Blocked
<1> QED BY <1>1, <1>12, <1>13 DEF FloodInv

LEMMA CleanupInv ==
    ASSUME FloodInv, NEW h \in Node, NEW o \in Node, olsr_cleanup_duplicate_entry(h, o)
    PROVE  FloodInv'
<1>1. /\ dup[h][o] # None
      /\ dup' = [dup EXCEPT ![h][o] = None]
      /\ UNCHANGED <<net, seqno, out, queue, busy, made, missed, late>>
  BY DEF olsr_cleanup_duplicate_entry, history
<1>2. TypeOK
  BY DEF FloodInv
<1>3. /\ dup \in [Node -> [Node -> Entry \cup {None}]] /\ TooLow \in Nat
      /\ missed \in [Node -> [Node -> Nat]] /\ late \in [Node -> [Node -> Nat]]
  BY <1>2, FloodingAssumption DEF TypeOK
<1>4. dup' \in [Node -> [Node -> Entry \cup {None}]]
  BY <1>1, <1>3
<1>5. TypeOK'
  BY <1>1, <1>2, <1>4 DEF TypeOK
<1>6. ASSUME NEW i \in Node, NEW j \in Node
      PROVE  missed'[i][j] <= Blocked(i, j)' + (TooLow + 1) * late'[i][j]
  <2> DEFINE w == (TooLow + 1) * late[i][j]
  <2>1. missed[i][j] <= Blocked(i, j) + w
    BY DEF FloodInv, Counted
  <2>2. CASE i = h /\ j = o
    <3>1. Blocked(i, j) = dup[h][o].low /\ dup[h][o] \in Entry
      BY <1>1, <1>3, <2>2 DEF Blocked
    <3>2. dup[h][o].low \in 0 .. TooLow
      BY <3>1 DEF Entry
    <3>3. Blocked(i, j)' = TooLow
      BY <1>1, <1>3, <2>2 DEF Blocked
    <3>4. late[i][j] \in Nat /\ missed[i][j] \in Nat /\ TooLow + 1 \in Nat
      BY <1>3
    <3>5. w \in Nat
      BY <3>4, Times
    <3> HIDE DEF w
    <3>6. missed[i][j] <= TooLow + w
      BY <1>3, <2>1, <3>1, <3>2, <3>4, <3>5
    <3> QED BY <1>1, <3>3, <3>6 DEF w
  <2>3. CASE ~(i = h /\ j = o)
    <3>1. Blocked(i, j)' = Blocked(i, j)
      BY <1>1, <1>3, <2>3 DEF Blocked
    <3> QED BY <1>1, <2>1, <3>1
  <2> QED BY <2>2, <2>3
<1>7. Counted'
  BY <1>6 DEF Counted
<1> QED BY <1>1, <1>5, <1>7 DEF FloodInv

LEMMA RestartInv ==
    ASSUME FloodInv, NEW h \in Node, Restart(h)
    PROVE  FloodInv'
<1> DEFINE none == [o \in Node |-> None]
           zero == [o \in Node |-> 0]
<1>1. /\ dup' = [dup EXCEPT ![h] = none]
      /\ out' = [out EXCEPT ![h] = <<>>] /\ queue' = [queue EXCEPT ![h] = <<>>]
      /\ busy' = busy \ {h}
      /\ missed' = [missed EXCEPT ![h] = zero] /\ late' = [late EXCEPT ![h] = zero]
      /\ UNCHANGED <<net, made>>
  BY DEF Restart
<1>2. PICK s \in 0 .. SeqRange - 1 : seqno' = [seqno EXCEPT ![h] = s]
  BY DEF Restart
<1>3. TypeOK
  BY DEF FloodInv
<1>4. /\ seqno \in [Node -> 0 .. SeqRange - 1] /\ dup \in [Node -> [Node -> Entry \cup {None}]]
      /\ missed \in [Node -> [Node -> Nat]] /\ late \in [Node -> [Node -> Nat]]
      /\ TooLow \in Nat /\ PacketRoom \in Nat
  BY <1>3, FloodingAssumption DEF TypeOK
<1>5. none \in [Node -> Entry \cup {None}] /\ zero \in [Node -> Nat]
  OBVIOUS
<1>6. \A o \in Node : none[o] = None /\ zero[o] = 0
  OBVIOUS
<1> HIDE DEF none, zero
<1>7. /\ seqno' \in [Node -> 0 .. SeqRange - 1] /\ dup' \in [Node -> [Node -> Entry \cup {None}]]
      /\ missed' \in [Node -> [Node -> Nat]] /\ late' \in [Node -> [Node -> Nat]]
  BY <1>1, <1>2, <1>4, <1>5
<1>8. /\ out' \in [Node -> Seq(Message(Len(made)))]
      /\ queue' \in [Node -> Seq(Packet(Len(made)))]
      /\ \A j \in Node : Len(out'[j]) <= PacketRoom
      /\ \A j \in Node : j # h => queue'[j] = queue[j]
  <2>1. /\ out \in [Node -> Seq(Message(Len(made)))] /\ queue \in [Node -> Seq(Packet(Len(made)))]
        /\ \A j \in Node : Len(out[j]) <= PacketRoom
    BY <1>3 DEF TypeOK
  <2>2. \A S : <<>> \in Seq(S)
    OBVIOUS
  <2>3. Len(<<>>) <= PacketRoom
    BY <1>4
  <2> QED BY <1>1, <2>1, <2>2, <2>3
<1>9. busy' \subseteq Node /\ \A j \in busy' : queue'[j] # <<>>
  BY <1>1, <1>3, <1>8 DEF TypeOK
<1>10. TypeOK'
  BY <1>1, <1>3, <1>7, <1>8, <1>9 DEF TypeOK
<1>11. ASSUME NEW i \in Node, NEW j \in Node
       PROVE  missed'[i][j] <= Blocked(i, j)' + (TooLow + 1) * late'[i][j]
  <2>1. CASE i = h
    <3>1. missed'[i][j] = 0 /\ late'[i][j] = 0 /\ dup'[i][j] = None
      BY <1>1, <1>4, <1>6, <2>1
    <3> QED BY <1>4, <3>1 DEF Blocked
  <2>2. CASE i # h
    <3>1. missed'[i] = missed[i] /\ late'[i] = late[i] /\ dup'[i] = dup[i]
      BY <1>1, <1>4, <2>2
    <3>2. Blocked(i, j)' = Blocked(i, j)
      BY <3>1 DEF Blocked
    <3>3. missed[i][j] <= Blocked(i, j) + (TooLow + 1) * late[i][j]
      BY DEF FloodInv, Counted
    <3> QED BY <3>1, <3>2, <3>3
  <2> QED BY <2>1, <2>2
<1>12. Counted'
  BY <1>11 DEF Counted
<1> QED BY <1>1, <1>10, <1>12 DEF FloodInv

LEMMA LoseInv ==
    ASSUME FloodInv, NEW h \in Node, Lose(h)
    PROVE  FloodInv'
<1>1. /\ queue' = [queue EXCEPT ![h] = Tail(@)] /\ queue[h] # <<>> /\ h \notin busy
      /\ UNCHANGED <<net, seqno, dup, out, busy, made, missed, late>>
  BY DEF Lose
<1>2. TypeOK
  BY DEF FloodInv
<1>3. Tail(queue[h]) \in Seq(Packet(Len(made)))
  BY <1>1, <1>2, FirstMessage
<1>4. queue \in [Node -> Seq(Packet(Len(made)))]
  BY <1>2 DEF TypeOK
<1>5. queue' \in [Node -> Seq(Packet(Len(made)))] /\ \A j \in Node : j # h => queue'[j] = queue[j]
  BY <1>1, <1>3, <1>4
<1>6. TypeOK'
  BY <1>1, <1>2, <1>5 DEF TypeOK
<1>7. Counted'
  BY <1>1 DEF FloodInv, Counted, Blocked
<1> QED BY <1>1, <1>6, <1>7 DEF FloodInv

LEMMA NextInv == FloodInv /\ [Next]_vars => FloodInv'
<1> SUFFICES ASSUME FloodInv, [Next]_vars PROVE FloodInv'
  OBVIOUS
<1>1. CASE UNCHANGED vars
  BY <1>1 DEF vars, history, FloodInv, TypeOK, Counted, Blocked
<1>2. CASE Next
  <2>1. PICK h \in Node :
           \/ parse_packet(h) \/ net_output(h)
           \/ \E kind \in Kind : Generate(h, kind)
           \/ \E o \in Node : olsr_cleanup_duplicate_entry(h, o)
           \/ Restart(h) \/ Lose(h)
    BY <1>2 DEF Next, Present
  <2>2. CASE parse_packet(h)
    <3> DEFINE m == Head(Head(queue[h]).msgs)
               f == Head(queue[h]).from
    <3>1. /\ queue[h] # <<>> /\ UNCHANGED <<net, relays, seqno, made, faults>>
          /\ OwnMessage(h, m) \/ Block(h, m) \/ Process(h, f, m)
      BY <2>2 DEF parse_packet
    <3>2. m \in Message(Len(made))
      BY <3>1, FirstMessage DEF FloodInv
    <3> HIDE DEF m, f
    <3> QED BY <3>1, <3>2, OwnMessageInv, BlockInv, ProcessInv
  <2> QED BY <2>1, <2>2, OutputInv, GenerateInv, CleanupInv, RestartInv, LoseInv
<1> QED BY <1>1, <1>2

-----------------------------------------------------------------------------
(* How often a host processes a message                                    *)

Half == SeqRange \div 2

(* How far behind b the number s comes, and the numbers of half the range  *)
(* from b on.                                                              *)
Behind(b, s) == IF s >= b THEN s - b ELSE s - b + SeqRange
Arc(b) == {s \in 0 .. SeqRange - 1 : Behind(b, s) < Half}

(* A copy with the number s is not processed, unless it sets the entry     *)
(* back.                                                                   *)
Known(e, s) ==
    \/ TooLowFor(e, s)
    \/ Difference(s, e.seqnr) <= 0 /\ -Difference(s, e.seqnr) \in e.seen

LEMMA HalfRange == Half \in Nat \ {0} /\ SeqRange = Half + Half /\ Window \in 1 .. Half
BY FloodingAssumption DEF Half

(* Within half of the range, what was not ahead of the newest number stays *)
(* behind a newer one by as much more as that one is ahead: no number that *)
(* wrapped looks new again.                                                *)
LEMMA DifferenceAdds ==
    ASSUME NEW b \in 0 .. SeqRange - 1, NEW x \in Arc(b), NEW t \in Arc(b), NEW s \in Arc(b),
           Difference(s, t) > 0, Difference(x, t) <= 0
    PROVE  /\ Difference(x, s) = Difference(x, t) - Difference(s, t)
           /\ Difference(s, t) \in Nat /\ Difference(x, t) \in Int
<1>1. Half \in Nat \ {0} /\ SeqRange = Half + Half
  BY HalfRange
<1>2. /\ x \in 0 .. SeqRange - 1 /\ t \in 0 .. SeqRange - 1 /\ s \in 0 .. SeqRange - 1
      /\ Behind(b, x) < Half /\ Behind(b, t) < Half /\ Behind(b, s) < Half
  BY DEF Arc
<1>3. /\ \A i, j : Difference(i, j) = IF i - j > Half THEN i - j - SeqRange ELSE i - j
  BY DEF Difference, Half
<1> HIDE DEF Half
<1>4. /\ (x >= b /\ x - b < Half) \/ (x < b /\ x - b + SeqRange < Half)
      /\ (t >= b /\ t - b < Half) \/ (t < b /\ t - b + SeqRange < Half)
      /\ (s >= b /\ s - b < Half) \/ (s < b /\ s - b + SeqRange < Half)
  BY <1>1, <1>2 DEF Behind
<1>5. s > t /\ s - t <= Half /\ Difference(s, t) = s - t
  BY <1>1, <1>2, <1>3
<1>6. CASE x - t > Half
  <2>1. Difference(x, t) = x - t - SeqRange
    BY <1>3, <1>6
  <2>2. x - s > Half
    BY <1>1, <1>2, <1>4, <1>5, <1>6
  <2>3. Difference(x, s) = x - s - SeqRange
    BY <1>3, <2>2
  <2> QED BY <1>1, <1>2, <1>5, <2>1, <2>3
<1>7. CASE ~(x - t > Half)
  <2>1. Difference(x, t) = x - t
    BY <1>3, <1>7
  <2>2. ~(x - s > Half)
    BY <1>1, <1>2, <1>5, <1>7
  <2>3. Difference(x, s) = x - s
    BY <1>3, <2>2
  <2> QED BY <1>1, <1>2, <1>5, <2>1, <2>3
<1> QED BY <1>6, <1>7

(* Except where it sets the entry back, a message leaves every number      *)
(* known that was, and its own becomes known.                              *)
LEMMA NumbersKnown ==
    ASSUME NEW b \in 0 .. SeqRange - 1, NEW e \in Entry, e # None, e.seqnr \in Arc(b),
           NEW s \in Arc(b), NEW x \in Arc(b), NEW r, r = olsr_shall_process_message(e, s)
    PROVE  /\ r.entry \in Entry /\ r.entry.seqnr \in Arc(b)
           /\ r.process => Known(r.entry, s)
           /\ r.process /\ ~TooLowFor(e, s) => ~Known(e, s)
           /\ ~(r.process /\ TooLowFor(e, s)) /\ Known(e, x) => Known(r.entry, x)
<1> DEFINE d == Difference(s, e.seqnr)
<1>1. e.seqnr \in 0 .. SeqRange - 1 /\ s \in 0 .. SeqRange - 1 /\ x \in 0 .. SeqRange - 1
      /\ e.seen \in SUBSET (0 .. Window - 1) /\ Window \in Nat /\ Window > 0 /\ TooLow \in Nat
      /\ Half \in Nat \ {0} /\ SeqRange = Half + Half
  BY HalfRange, FloodingAssumption DEF Arc, Entry
<1>2. \A i, j : Difference(i, j) = IF i - j > Half THEN i - j - SeqRange ELSE i - j
  BY DEF Difference, Half
<1>3. d \in Int /\ Difference(x, e.seqnr) \in Int /\ Difference(s, s) = 0
  BY <1>1, <1>2
<1>4. r.entry \in Entry
  BY <1>1, ShallProcess
<1> HIDE DEF d
<1>5. CASE TooLowFor(e, s) /\ e.low < TooLow
  <2>1. r = [entry |-> [e EXCEPT !.low = @ + 1], process |-> FALSE]
    BY <1>5 DEF olsr_shall_process_message, TooLowResult
  <2>2. ~r.process /\ r.entry.seqnr = e.seqnr /\ r.entry.seen = e.seen
    BY <2>1 DEF Entry
  <2> QED BY <1>4, <2>2 DEF Known, TooLowFor
<1>6. CASE TooLowFor(e, s) /\ ~(e.low < TooLow)
  <2>1. r = [entry |-> [seqnr |-> s, low |-> 0, seen |-> {0}], process |-> TRUE]
    BY <1>6 DEF olsr_shall_process_message, TooLowResult
  <2>2. r.process /\ r.entry.seqnr = s /\ r.entry.seen = {0}
    BY <2>1
  <2>3. Known(r.entry, s)
    <3>1. 0 \in r.entry.seen /\ r.entry.seqnr = s
      BY <2>2
    <3> QED BY <1>3, <3>1 DEF Known
  <2> QED BY <1>4, <1>6, <2>2, <2>3
<1>7. CASE ~TooLowFor(e, s) /\ d <= 0
  <2>1. r = [entry |-> [e EXCEPT !.low = 0, !.seen = @ \cup {-d}], process |-> -d \notin e.seen]
    BY <1>7 DEF olsr_shall_process_message, d
  <2>2. r.entry.seqnr = e.seqnr /\ r.entry.seen = e.seen \cup {-d} /\ (r.process <=> -d \notin e.seen)
    <3> DEFINE n == [e EXCEPT !.low = 0, !.seen = @ \cup {-d}]
               p == -d \notin e.seen
               new == e.seen \cup {-d}
    <3>1. n = [[e EXCEPT !.low = 0] EXCEPT !.seen = new]
      BY DEF Entry
    <3> HIDE DEF new
    <3>2. n.seqnr = e.seqnr /\ n.seen = new
      BY <3>1 DEF Entry
    <3>3. r.entry = n /\ r.process = p
      BY <2>1
    <3> HIDE DEF n
    <3> QED BY <3>2, <3>3 DEF new
  <2>3. Known(r.entry, s)
    BY <1>7, <2>2 DEF Known, d
  <2>4. r.process => ~Known(e, s)
    BY <1>7, <2>2 DEF Known, d
  <2>5. Known(e, x) => Known(r.entry, x)
    BY <2>2 DEF Known, TooLowFor
  <2> QED BY <1>4, <1>7, <2>2, <2>3, <2>4, <2>5
<1>8. CASE ~TooLowFor(e, s) /\ ~(d <= 0)
  <2>1. r = [entry |-> [seqnr |-> s, low |-> 0, seen |-> Shifted(e, d)], process |-> TRUE]
    BY <1>8 DEF olsr_shall_process_message, d
  <2>2. r.process /\ r.entry.seqnr = s /\ r.entry.seen = Shifted(e, d)
    BY <2>1
  <2>3. 0 \in Shifted(e, d)
    BY DEF Shifted
  <2>4. Known(r.entry, s)
    BY <1>3, <2>2, <2>3 DEF Known
  <2>5. ~Known(e, s)
    BY <1>8 DEF Known, d
  <2>6. ASSUME Known(e, x) PROVE Known(r.entry, x)
    <3> DEFINE y == Difference(x, e.seqnr)
               z == Difference(x, s)
    <3>1. y <= 0 /\ y \in Int
      BY <1>1, <1>3, <2>6 DEF Known, TooLowFor
    <3>2. z = y - d /\ d > 0
      BY <1>3, <1>8, <3>1, DifferenceAdds DEF d
    <3> HIDE DEF z
    <3>3. CASE z < 1 - Window
      BY <2>2, <3>3 DEF Known, TooLowFor, z
    <3>4. CASE ~(z < 1 - Window)
      <4>1. z \in Int /\ z <= 0 /\ -z \in 0 .. Window - 1 /\ (-z) - d = -y /\ ~(y < 1 - Window)
        BY <1>1, <1>3, <3>1, <3>2, <3>4
      <4>2. -y \in e.seen
        BY <2>6, <4>1 DEF Known, TooLowFor
      <4>3. -z \in Shifted(e, d)
        BY <4>1, <4>2 DEF Shifted
      <4> QED BY <2>2, <4>1, <4>3 DEF Known, z
    <3> QED BY <3>3, <3>4
  <2> QED BY <1>4, <1>8, <2>2, <2>4, <2>5, <2>6
<1> QED BY <1>5, <1>6, <1>7, <1>8

-----------------------------------------------------------------------------
(* What a host may have processed message n, the first time of a dup_entry *)
(* and the resets counted; a number that is known counts once more.        *)
Allowance(h, n) == (IF n \in opened[h] THEN 1 ELSE 0) + resets[h][made[n].org]

AtMostOnce(h) == \A n \in 1 .. Len(made) : handled[h][n] <= 1 + Allowance(h, n)

Bounded(h, n, number) ==
    LET e == dup[h][made[n].org]
    IN IF e = None THEN handled[h][n] = 0
       ELSE handled[h][n] <= Allowance(h, n) + IF Known(e, number) THEN 1 ELSE 0

(* Copies of the messages of live, each with the number it was made with.  *)
Copies(numbers, live) ==
    {m \in Message(Len(made)) : m.n \in live /\ m.org = made[m.n].org /\ m.seq = numbers[m.n]}

Carried(S) == out \in [Node -> Seq(S)] /\ queue \in [Node -> Seq(Packets(S))]

HistoryType ==
    /\ handled \in [Node -> [1 .. MaxMessages -> Nat]]
    /\ opened \in [Node -> SUBSET Nat]
    /\ resets \in [Node -> [Node -> Nat]]
    /\ \A h \in Node : \A n \in 1 .. MaxMessages : n > Len(made) => handled[h][n] = 0

(* b is where the half range of every originator starts, numbers the       *)
(* number of every message, and live what may still be on its way.         *)
Once(b, numbers, live) ==
    /\ numbers \in [1 .. Len(made) -> 0 .. SeqRange - 1]
    /\ live \subseteq 1 .. Len(made)
    /\ \A n \in 1 .. Len(made) : numbers[n] \in Arc(b[made[n].org])
    /\ \A h, o \in Node : dup[h][o] # None => dup[h][o].seqnr \in Arc(b[o])
    /\ HistoryType
    /\ \A h \in Node : AtMostOnce(h)
    /\ Carried(Copies(numbers, live))
    /\ \A h \in Node : \A n \in live : Bounded(h, n, numbers[n])

OnceInv(b) == FloodInv /\ \E numbers, live : Once(b, numbers, live)

(* Every originator's next number is in its half of the range.             *)
Within(b) == \A h \in Node : seqno[h] \in Arc(b[h])

LEMMA OnceTypes ==
    ASSUME FloodInv
    PROVE  /\ made \in Seq([org : Node, kind : Kind]) /\ Len(made) \in Nat
           /\ Len(made) <= MaxMessages /\ MaxMessages \in Nat
           /\ \A n \in 1 .. Len(made) : made[n].org \in Node /\ n \in 1 .. MaxMessages
           /\ dup \in [Node -> [Node -> Entry \cup {None}]]
<1>1. made \in Seq([org : Node, kind : Kind]) /\ Len(made) \in Nat /\ Len(made) <= MaxMessages
  BY DEF FloodInv, TypeOK
<1>2. \A n \in 1 .. Len(made) : made[n] \in [org : Node, kind : Kind]
  <2> DEFINE M == [org : Node, kind : Kind]
  <2>1. made \in Seq(M)
    BY <1>1
  <2> HIDE DEF M
  <2>2. \A n \in 1 .. Len(made) : made[n] \in M
    BY <2>1
  <2> QED BY <2>2 DEF M
<1>3. \A n \in 1 .. Len(made) : made[n].org \in Node
  BY <1>2
<1>4. MaxMessages \in Nat /\ dup \in [Node -> [Node -> Entry \cup {None}]]
  BY FloodingAssumption DEF FloodInv, TypeOK
<1> QED BY <1>1, <1>3, <1>4

LEMMA AllowanceType ==
    ASSUME FloodInv, NEW b, NEW numbers, NEW live, Once(b, numbers, live),
           NEW h \in Node, NEW n \in 1 .. Len(made)
    PROVE  handled[h][n] \in Nat /\ Allowance(h, n) \in Nat
<1>1. n \in 1 .. MaxMessages /\ made[n].org \in Node
  BY OnceTypes
<1>2. handled \in [Node -> [1 .. MaxMessages -> Nat]] /\ resets \in [Node -> [Node -> Nat]]
  BY DEF Once, HistoryType
<1>3. handled[h][n] \in Nat /\ resets[h][made[n].org] \in Nat
  BY <1>1, <1>2
<1> QED BY <1>3 DEF Allowance

(* Where neither the duplicate set nor the history changes, the bounds     *)
(* stay.                                                                   *)
LEMMA OnceKept ==
    ASSUME NEW b, NEW numbers, NEW live, Once(b, numbers, live),
           UNCHANGED <<dup, made, handled, opened, resets>>, Carried(Copies(numbers, live))'
    PROVE  Once(b, numbers, live)'
<1>1. \A h \in Node : AtMostOnce(h)'
  BY DEF Once, AtMostOnce, Allowance
<1>2. \A h \in Node : \A n \in live : Bounded(h, n, numbers[n])'
  BY DEF Once, Bounded, Allowance, Known, TooLowFor
<1>3. HistoryType'
  BY DEF Once, HistoryType
<1> QED BY <1>1, <1>2, <1>3 DEF Once

LEMMA OnceInit ==
    ASSUME Init, NEW b \in [Node -> 0 .. SeqRange - 1]
    PROVE  OnceInv(b)
<1> DEFINE numbers == [n \in 1 .. Len(made) |-> 0]
<1>1. FloodInv
  BY InitInv
<1>2. Len(made) = 0 /\ 1 .. Len(made) = {}
  BY DEF Init
<1>3. HistoryType
  BY FloodingAssumption DEF Init, HistoryType
<1>4. Carried(Copies(numbers, {}))
  BY DEF Init, Carried
<1>5. \A h, o \in Node : dup[h][o] = None
  BY DEF Init
<1>6. \A h \in Node : AtMostOnce(h)
  BY <1>2 DEF AtMostOnce
<1>7. numbers \in [1 .. Len(made) -> 0 .. SeqRange - 1]
  BY <1>2
<1> HIDE DEF numbers
<1>8. Once(b, numbers, {})
  BY <1>2, <1>3, <1>4, <1>5, <1>6, <1>7 DEF Once
<1> QED BY <1>1, <1>8 DEF OnceInv

LEMMA OnceOutput ==
    ASSUME NEW b, NEW numbers, NEW live, Once(b, numbers, live), NEW h \in Node, net_output(h)
    PROVE  Once(b, numbers, live)'
<1> DEFINE S == Copies(numbers, live)
           sent == <<out[h]>>
<1>1. /\ out' = [out EXCEPT ![h] = <<>>] /\ queue' = Broadcast(h, queue, sent) /\ out[h] # <<>>
      /\ UNCHANGED <<dup, made, handled, opened, resets>>
  BY DEF net_output, history
<1>2. out \in [Node -> Seq(S)] /\ queue \in [Node -> Seq(Packets(S))]
  BY DEF Once, Carried
<1>3. S' = S
  BY <1>1 DEF Copies
<1> HIDE DEF S
<1>4. sent \in Seq(Seq(S) \ {<<>>})
  <2>1. out[h] \in Seq(S) \ {<<>>}
    BY <1>1, <1>2
  <2> QED BY <2>1
<1> HIDE DEF sent
<1>5. queue' \in [Node -> Seq(Packets(S))]
  BY <1>1, <1>2, <1>4, BroadcastType
<1>6. out' \in [Node -> Seq(S)]
  <2>1. <<>> \in Seq(S)
    OBVIOUS
  <2> QED BY <1>1, <1>2, <2>1
<1>7. Carried(S)'
  BY <1>3, <1>5, <1>6 DEF Carried
<1> QED BY <1>1, <1>7, OnceKept DEF S

LEMMA OnceLose ==
    ASSUME NEW b, NEW numbers, NEW live, Once(b, numbers, live), NEW h \in Node, Lose(h)
    PROVE  Once(b, numbers, live)'
<1> DEFINE S == Copies(numbers, live)
<1>1. /\ queue' = [queue EXCEPT ![h] = Tail(@)] /\ queue[h] # <<>>
      /\ UNCHANGED <<out, dup, made, handled, opened, resets>>
  BY DEF Lose
<1>2. out \in [Node -> Seq(S)] /\ queue \in [Node -> Seq(Packets(S))]
  BY DEF Once, Carried
<1>3. S' = S
  BY <1>1 DEF Copies
<1> HIDE DEF S
<1>4. Tail(queue[h]) \in Seq(Packets(S))
  BY <1>1, <1>2, FirstOf
<1>5. queue' \in [Node -> Seq(Packets(S))]
  BY <1>1, <1>2, <1>4
<1>6. Carried(S)'
  BY <1>1, <1>2, <1>3, <1>5 DEF Carried
<1> QED BY <1>1, <1>6, OnceKept DEF S

LEMMA OnceOwn ==
    ASSUME FloodInv, NEW b, NEW numbers, NEW live, Once(b, numbers, live), NEW h \in Node,
           queue[h] # <<>>, NEW m, OwnMessage(h, m), UNCHANGED made
    PROVE  Once(b, numbers, live)'
<1> DEFINE S == Copies(numbers, live)
           go == FALSE
<1>1. NextMessage(h, go, <<>>) /\ UNCHANGED <<out, dup, made, handled, opened, resets>>
  BY DEF OwnMessage, history
<1>2. out \in [Node -> Seq(S)] /\ queue \in [Node -> Seq(Packets(S))]
  BY DEF Once, Carried
<1>3. S' = S
  BY <1>1 DEF Copies
<1> HIDE DEF S
<1>4. go \in BOOLEAN /\ <<>> \in Seq(Seq(S) \ {<<>>})
  OBVIOUS
<1> HIDE DEF go
<1>5. busy \subseteq Node /\ \A j \in busy : queue[j] # <<>>
  BY DEF FloodInv, TypeOK
<1>6. queue' \in [Node -> Seq(Packets(S))]
  BY <1>1, <1>2, <1>4, <1>5, NextMessageType
<1>7. Carried(S)'
  BY <1>1, <1>2, <1>3, <1>6 DEF Carried
<1> QED BY <1>1, <1>7, OnceKept DEF S

(* What a step of the parser changes of h's entry for one originator: the  *)
(* numbers of the others keep their bounds.                                *)
LEMMA OthersBounded ==
    ASSUME FloodInv, NEW b, NEW numbers, NEW live, Once(b, numbers, live),
           NEW h \in Node, NEW o \in Node, NEW entry,
           dup' = [dup EXCEPT ![h][o] = entry], made' = made,
           NEW i \in Node, NEW n \in live, ~(i = h /\ made[n].org = o),
           handled'[i][n] = handled[i][n], Allowance(i, n)' = Allowance(i, n)
    PROVE  Bounded(i, n, numbers[n])'
<1>1. n \in 1 .. Len(made) /\ Bounded(i, n, numbers[n])
  BY DEF Once
<1>2. made[n].org \in Node /\ dup \in [Node -> [Node -> Entry \cup {None}]]
  BY <1>1, OnceTypes
<1>3. dup'[i][made[n].org] = dup[i][made[n].org]
  BY <1>2
<1> QED BY <1>1, <1>3 DEF Bounded, Known, TooLowFor

LEMMA OnceBlock ==
    ASSUME FloodInv, NEW b \in [Node -> 0 .. SeqRange - 1], NEW numbers, NEW live,
           Once(b, numbers, live), NEW h \in Node, queue[h] # <<>>,
           NEW m \in Copies(numbers, live), Block(h, m), UNCHANGED made
    PROVE  Once(b, numbers, live)'
<1> DEFINE S == Copies(numbers, live)
           go == FALSE
           e == dup[h][m.org]
           r == olsr_shall_process_message(e, m.seq)
<1>1. /\ ~r.process /\ dup' = [dup EXCEPT ![h][m.org] = r.entry]
      /\ NextMessage(h, go, <<>>)
      /\ UNCHANGED <<out, made, handled, opened, resets>>
  BY DEF Block
<1>2. out \in [Node -> Seq(S)] /\ queue \in [Node -> Seq(Packets(S))]
  BY DEF Once, Carried
<1>3. S' = S
  BY <1>1 DEF Copies
<1>4. /\ m \in Message(Len(made)) /\ m.n \in live /\ m.org = made[m.n].org /\ m.seq = numbers[m.n]
      /\ m.org \in Node /\ m.seq \in 0 .. SeqRange - 1 /\ m.n \in 1 .. Len(made)
  BY DEF Copies, Message
<1>5. m.seq \in Arc(b[m.org]) /\ dup \in [Node -> [Node -> Entry \cup {None}]]
  BY <1>4, OnceTypes DEF Once
<1> HIDE DEF S, r, e
<1>6. go \in BOOLEAN /\ <<>> \in Seq(Seq(S) \ {<<>>})
  OBVIOUS
<1> HIDE DEF go
<1>7. busy \subseteq Node /\ \A j \in busy : queue[j] # <<>>
  BY DEF FloodInv, TypeOK
<1>8. queue' \in [Node -> Seq(Packets(S))]
  BY <1>1, <1>2, <1>6, <1>7, NextMessageType
<1>9. Carried(S)'
  BY <1>1, <1>2, <1>3, <1>8 DEF Carried
<1>10. e \in Entry /\ e # None
  <2>1. e \in Entry \cup {None}
    BY <1>4, <1>5 DEF e
  <2>2. e \in Entry
    BY <1>1, <1>4, <2>1, ShallProcess DEF r
  <2> QED BY <2>2, NoEntryAssumption
<1>11. e.seqnr \in Arc(b[m.org]) /\ b[m.org] \in 0 .. SeqRange - 1
  BY <1>4, <1>10 DEF Once, e
<1>12. /\ r.entry \in Entry /\ r.entry # None /\ r.entry.seqnr \in Arc(b[m.org])
       /\ \A x \in Arc(b[m.org]) : Known(e, x) => Known(r.entry, x)
  BY <1>1, <1>5, <1>10, <1>11, NumbersKnown, NoEntryAssumption DEF r
<1>13. dup'[h][m.org] = r.entry
  BY <1>1, <1>4, <1>5
<1>14. ASSUME NEW i \in Node, NEW n \in live
       PROVE  Bounded(i, n, numbers[n])'
  <2>1. n \in 1 .. Len(made) /\ Bounded(i, n, numbers[n]) /\ numbers[n] \in Arc(b[made[n].org])
    BY DEF Once
  <2>2. Allowance(i, n)' = Allowance(i, n) /\ handled'[i][n] = handled[i][n]
    BY <1>1 DEF Allowance
  <2>3. CASE i = h /\ made[n].org = m.org
    <3>1. handled[i][n] <= Allowance(i, n) + IF Known(e, numbers[n]) THEN 1 ELSE 0
      BY <1>10, <2>1, <2>3 DEF Bounded, e
    <3>2. Known(e, numbers[n]) => Known(r.entry, numbers[n])
      BY <1>12, <2>1, <2>3
    <3>3. handled[i][n] \in Nat /\ Allowance(i, n) \in Nat
      BY <2>1, AllowanceType
    <3>4. handled[i][n] <= Allowance(i, n) + IF Known(r.entry, numbers[n]) THEN 1 ELSE 0
      BY <3>1, <3>2, <3>3
    <3> QED BY <1>1, <1>12, <1>13, <2>2, <2>3, <3>4 DEF Bounded
  <2>4. CASE ~(i = h /\ made[n].org = m.org)
    <3>1. dup' = [dup EXCEPT ![h][m.org] = r.entry] /\ made' = made /\ m.org \in Node
      BY <1>1, <1>4
    <3> QED BY <2>2, <2>4, <3>1, OthersBounded
  <2> QED BY <2>3, <2>4
<1>15. \A i, o \in Node : dup'[i][o] # None => dup'[i][o].seqnr \in Arc(b[o])
  <2> SUFFICES ASSUME NEW i \in Node, NEW o \in Node, dup'[i][o] # None
               PROVE  dup'[i][o].seqnr \in Arc(b[o])
    OBVIOUS
  <2>1. CASE i = h /\ o = m.org
    BY <1>12, <1>13, <2>1
  <2>2. CASE ~(i = h /\ o = m.org)
    <3>1. dup'[i][o] = dup[i][o]
      BY <1>1, <1>5, <2>2
    <3> QED BY <3>1 DEF Once
  <2> QED BY <2>1, <2>2
<1>16. \A i \in Node : AtMostOnce(i)'
  BY <1>1 DEF Once, AtMostOnce, Allowance
<1>17. HistoryType'
  BY <1>1 DEF Once, HistoryType
<1> QED BY <1>1, <1>9, <1>14, <1>15, <1>16, <1>17 DEF Once, S

LEMMA UpdatedType ==
    ASSUME NEW A, NEW B, NEW F \in [Node -> [A -> B]], NEW i \in Node, NEW j \in A, NEW v \in B
    PROVE  [F EXCEPT ![i][j] = v] \in [Node -> [A -> B]]
OBVIOUS

LEMMA OnceProcess ==
    ASSUME FloodInv, NEW b \in [Node -> 0 .. SeqRange - 1], NEW numbers, NEW live,
           Once(b, numbers, live), NEW h \in Node, queue[h] # <<>>, NEW f,
           NEW m \in Copies(numbers, live), Process(h, f, m), UNCHANGED made
    PROVE  Once(b, numbers, live)'
<1> DEFINE S == Copies(numbers, live)
           e == dup[h][m.org]
           r == olsr_shall_process_message(e, m.seq)
           forward == m.kind # "hello" /\ Accepts(h, f, m) /\ Forwards(h, f, m)
           stop == m.kind = "unknown"
           sent == IF forward THEN Overflow(out[h]) ELSE <<>>
           buffer == net_outbuffer_push(out[h], Forwarded(m))
           reset == e # None /\ TooLowFor(e, m.seq)
<1>1. /\ r.process /\ dup' = [dup EXCEPT ![h][m.org] = r.entry]
      /\ out' = IF forward THEN [out EXCEPT ![h] = buffer] ELSE out
      /\ NextMessage(h, stop, sent)
      /\ handled' = [handled EXCEPT ![h][m.n] = @ + 1]
      /\ opened' = IF e = None THEN [opened EXCEPT ![h] = @ \cup {m.n}] ELSE opened
      /\ resets' = IF reset THEN [resets EXCEPT ![h][m.org] = @ + 1] ELSE resets
      /\ made' = made
  BY DEF Process
<1>2. /\ out \in [Node -> Seq(S)] /\ queue \in [Node -> Seq(Packets(S))]
      /\ Len(out[h]) <= PacketRoom /\ stop \in BOOLEAN
  BY DEF Once, Carried, FloodInv, TypeOK
<1>3. S' = S
  BY <1>1 DEF Copies
<1>4. /\ m \in Message(Len(made)) /\ m.n \in live /\ m.org = made[m.n].org /\ m.seq = numbers[m.n]
      /\ m.org \in Node /\ m.seq \in 0 .. SeqRange - 1 /\ m.n \in 1 .. Len(made)
  BY DEF Copies, Message
<1>5. m.seq \in Arc(b[m.org]) /\ dup \in [Node -> [Node -> Entry \cup {None}]]
  BY <1>4, OnceTypes DEF Once
<1>6. /\ handled \in [Node -> [1 .. MaxMessages -> Nat]] /\ opened \in [Node -> SUBSET Nat]
      /\ resets \in [Node -> [Node -> Nat]] /\ m.n \in 1 .. MaxMessages
  BY <1>4, OnceTypes DEF Once, HistoryType
<1>7. forward => Forwarded(m) \in S
  <2> SUFFICES ASSUME forward PROVE Forwarded(m) \in S
    OBVIOUS
  <2>1. Forwarded(m) \in Message(Len(made))
    BY <1>4, OnceTypes, ForwardedType
  <2>2. Forwarded(m).n = m.n /\ Forwarded(m).org = m.org /\ Forwarded(m).seq = m.seq
    BY <1>4 DEF Forwarded, Message
  <2> QED BY <1>4, <2>1, <2>2 DEF Copies
<1> HIDE DEF S, r, e
<1>8. forward => buffer \in Seq(S) /\ Overflow(out[h]) \in Seq(Seq(S) \ {<<>>})
  BY <1>2, <1>7, PushType
<1> HIDE DEF buffer
<1>9. sent \in Seq(Seq(S) \ {<<>>})
  <2>1. <<>> \in Seq(Seq(S) \ {<<>>})
    OBVIOUS
  <2> HIDE DEF forward
  <2> QED BY <1>8, <2>1
<1> HIDE DEF sent, stop, forward
<1>10. busy \subseteq Node /\ \A j \in busy : queue[j] # <<>>
  BY DEF FloodInv, TypeOK
<1>11. queue' \in [Node -> Seq(Packets(S))]
  BY <1>1, <1>2, <1>9, <1>10, NextMessageType
<1>12. out' \in [Node -> Seq(S)]
  BY <1>1, <1>2, <1>8
<1>13. Carried(S)'
  BY <1>3, <1>11, <1>12 DEF Carried
<1>14. r.entry \in Entry /\ r.entry # None
  <2>1. e \in Entry \cup {None}
    BY <1>4, <1>5 DEF e
  <2> QED BY <1>4, <2>1, ShallProcess, NoEntryAssumption DEF r
<1>15. e = None => r.entry.seqnr = m.seq
  BY DEF r, olsr_shall_process_message, olsr_create_duplicate_entry
<1>16. e # None =>
          /\ r.entry.seqnr \in Arc(b[m.org])
          /\ Known(r.entry, m.seq)
          /\ ~reset => ~Known(e, m.seq)
          /\ ~reset => \A x \in Arc(b[m.org]) : Known(e, x) => Known(r.entry, x)
  <2> SUFFICES ASSUME e # None
               PROVE  /\ r.entry.seqnr \in Arc(b[m.org])
                      /\ Known(r.entry, m.seq)
                      /\ ~reset => ~Known(e, m.seq)
                      /\ ~reset => \A x \in Arc(b[m.org]) : Known(e, x) => Known(r.entry, x)
    OBVIOUS
  <2>1. e \in Entry /\ e.seqnr \in Arc(b[m.org]) /\ b[m.org] \in 0 .. SeqRange - 1
    BY <1>4, <1>5 DEF Once, e
  <2> QED BY <1>1, <1>5, <2>1, NumbersKnown DEF r
<1>17. dup'[h][m.org] = r.entry
  BY <1>1, <1>4, <1>5
<1>18. reset => e # None
  OBVIOUS
<1> HIDE DEF reset
<1>19. /\ \A i \in Node : \A n \in 1 .. MaxMessages :
             handled'[i][n] = IF i = h /\ n = m.n THEN handled[i][n] + 1 ELSE handled[i][n]
       /\ \A i \in Node : i # h => opened'[i] = opened[i]
       /\ opened'[h] = IF e = None THEN opened[h] \cup {m.n} ELSE opened[h]
       /\ \A i, o \in Node :
             resets'[i][o] = IF reset /\ i = h /\ o = m.org THEN resets[i][o] + 1 ELSE resets[i][o]
  <2>1. \A i \in Node : \A n \in 1 .. MaxMessages :
             handled'[i][n] = IF i = h /\ n = m.n THEN handled[i][n] + 1 ELSE handled[i][n]
    BY <1>1, <1>6
  <2>2. /\ \A i \in Node : i # h => opened'[i] = opened[i]
        /\ opened'[h] = IF e = None THEN opened[h] \cup {m.n} ELSE opened[h]
    BY <1>1, <1>6
  <2>3. \A i, o \in Node :
             resets'[i][o] = IF reset /\ i = h /\ o = m.org THEN resets[i][o] + 1 ELSE resets[i][o]
    BY <1>1, <1>4, <1>6
  <2> QED BY <2>1, <2>2, <2>3
<1>20. HistoryType'
  <2>1. handled' \in [Node -> [1 .. MaxMessages -> Nat]]
    <3>1. handled' = [handled EXCEPT ![h][m.n] = handled[h][m.n] + 1]
      BY <1>1
    <3>2. handled[h][m.n] + 1 \in Nat
      <4>1. handled[h] \in [1 .. MaxMessages -> Nat]
        BY <1>6
      <4>2. handled[h][m.n] \in Nat
        BY <1>6, <4>1
      <4> QED BY <4>2
    <3> QED BY <1>6, <3>1, <3>2, UpdatedType
  <2>2. opened' \in [Node -> SUBSET Nat]
    <3>1. [opened EXCEPT ![h] = @ \cup {m.n}] \in [Node -> SUBSET Nat]
      BY <1>6
    <3> QED BY <1>1, <1>6, <3>1
  <2>3. resets' \in [Node -> [Node -> Nat]]
    <3>1. resets[h][m.org] + 1 \in Nat
      BY <1>4, <1>6
    <3>2. [resets EXCEPT ![h][m.org] = resets[h][m.org] + 1] \in [Node -> [Node -> Nat]]
      BY <1>4, <1>6, <3>1, UpdatedType
    <3> QED BY <1>1, <1>6, <3>2
  <2>4. ASSUME NEW i \in Node, NEW n \in 1 .. MaxMessages, n > Len(made)
        PROVE  handled'[i][n] = 0
    <3>1. n # m.n
      BY <1>4, <2>4, OnceTypes
    <3>2. handled[i][n] = 0
      BY <2>4 DEF Once, HistoryType
    <3> QED BY <1>19, <3>1, <3>2
  <2> QED BY <1>1, <2>1, <2>2, <2>3, <2>4 DEF HistoryType
<1>21. ASSUME NEW i \in Node, NEW n \in 1 .. Len(made)
       PROVE  /\ handled[i][n] \in Nat /\ Allowance(i, n) \in Nat /\ Allowance(i, n)' \in Nat
              /\ handled'[i][n] = IF i = h /\ n = m.n THEN handled[i][n] + 1 ELSE handled[i][n]
              /\ Allowance(i, n)' >= Allowance(i, n)
              /\ ~(i = h /\ made[n].org = m.org) => Allowance(i, n)' = Allowance(i, n)
              /\ e # None /\ ~reset => Allowance(i, n)' = Allowance(i, n)
              /\ i = h /\ made[n].org = m.org /\ reset => Allowance(i, n)' = Allowance(i, n) + 1
              /\ i = h /\ n = m.n /\ e = None => Allowance(i, n)' >= 1
  <2> DEFINE x == resets[i][made[n].org]
             y == resets'[i][made[n].org]
  <2>1. n \in 1 .. MaxMessages /\ made[n].org \in Node
    BY OnceTypes
  <2>2. handled[i][n] \in Nat /\ x \in Nat
    BY <1>6, <2>1
  <2>3. y = IF reset /\ i = h /\ made[n].org = m.org THEN x + 1 ELSE x
    BY <1>19, <2>1
  <2>4. /\ n \in opened[i] => n \in opened'[i]
        /\ n \in opened'[i] /\ n \notin opened[i] => i = h /\ n = m.n /\ e = None
        /\ i = h /\ n = m.n /\ e = None => n \in opened'[i]
    BY <1>19
  <2>5. Allowance(i, n) = (IF n \in opened[i] THEN 1 ELSE 0) + x
    BY DEF Allowance
  <2>6. Allowance(i, n)' = (IF n \in opened'[i] THEN 1 ELSE 0) + y
    BY <1>1 DEF Allowance
  <2> HIDE DEF x, y
  <2>7. handled'[i][n] = IF i = h /\ n = m.n THEN handled[i][n] + 1 ELSE handled[i][n]
    BY <1>19, <2>1
  <2> QED BY <1>4, <1>18, <2>2, <2>3, <2>4, <2>5, <2>6, <2>7
<1>22. ASSUME NEW n \in live, made[n].org = m.org
       PROVE  handled'[h][n] <= Allowance(h, n)' + IF Known(r.entry, numbers[n]) THEN 1 ELSE 0
  <2> DEFINE k == Known(e, numbers[n])
             l == Known(r.entry, numbers[n])
             a == Allowance(h, n)
             a1 == Allowance(h, n)'
  <2>1. n \in 1 .. Len(made) /\ Bounded(h, n, numbers[n]) /\ numbers[n] \in Arc(b[m.org])
    BY <1>22 DEF Once
  <2>2. /\ e = None => handled[h][n] = 0
        /\ e # None => handled[h][n] <= a + IF k THEN 1 ELSE 0
    BY <1>22, <2>1 DEF Bounded, e
  <2>3. /\ handled[h][n] \in Nat /\ a \in Nat /\ a1 \in Nat
        /\ handled'[h][n] = IF n = m.n THEN handled[h][n] + 1 ELSE handled[h][n]
        /\ e # None /\ ~reset => a1 = a
        /\ reset => a1 = a + 1
        /\ n = m.n /\ e = None => a1 >= 1
    BY <1>21, <1>22, <2>1
  <2>4. /\ e # None /\ n = m.n => l /\ (~reset => ~k)
        /\ e # None /\ ~reset /\ k => l
    BY <1>4, <1>16, <2>1
  <2> HIDE DEF k, l, a, a1
  <2>5. handled'[h][n] <= a1 + IF l THEN 1 ELSE 0
    <3>1. CASE e = None
      BY <2>2, <2>3, <3>1
    <3>2. CASE reset
      BY <1>18, <2>2, <2>3, <2>4, <3>2
    <3>3. CASE e # None /\ ~reset
      BY <2>2, <2>3, <2>4, <3>3
    <3> QED BY <3>1, <3>2, <3>3
  <2> QED BY <2>5 DEF l, a1
<1>23. ASSUME NEW i \in Node, NEW n \in live
       PROVE  Bounded(i, n, numbers[n])'
  <2>1. n \in 1 .. Len(made)
    BY DEF Once
  <2>2. CASE i = h /\ made[n].org = m.org
    BY <1>1, <1>14, <1>17, <1>22, <2>2 DEF Bounded
  <2>3. CASE ~(i = h /\ made[n].org = m.org)
    <3>1. ~(i = h /\ n = m.n)
      BY <1>4, <2>3
    <3>2. Allowance(i, n)' = Allowance(i, n) /\ handled'[i][n] = handled[i][n]
      BY <1>21, <2>1, <2>3, <3>1
    <3> QED BY <1>1, <1>4, <2>3, <3>2, OthersBounded
  <2> QED BY <2>2, <2>3
<1>24. \A i, o \in Node : dup'[i][o] # None => dup'[i][o].seqnr \in Arc(b[o])
  <2> SUFFICES ASSUME NEW i \in Node, NEW o \in Node, dup'[i][o] # None
               PROVE  dup'[i][o].seqnr \in Arc(b[o])
    OBVIOUS
  <2>1. CASE i = h /\ o = m.org
    BY <1>5, <1>15, <1>16, <1>17, <2>1
  <2>2. CASE ~(i = h /\ o = m.org)
    <3>1. dup'[i][o] = dup[i][o]
      BY <1>1, <1>5, <2>2
    <3> QED BY <3>1 DEF Once
  <2> QED BY <2>1, <2>2
<1>25. ASSUME NEW i \in Node, NEW n \in 1 .. Len(made)
       PROVE  handled'[i][n] <= 1 + Allowance(i, n)'
  <2>1. CASE i = h /\ n = m.n
    <3>1. handled'[h][n] <= Allowance(h, n)' + IF Known(r.entry, numbers[n]) THEN 1 ELSE 0
      BY <1>4, <1>22, <2>1
    <3>2. /\ Allowance(h, n)' \in Nat /\ handled[h][n] \in Nat
          /\ handled'[h][n] = handled[h][n] + 1
      BY <1>21, <2>1
    <3> HIDE DEF Allowance
    <3> QED BY <2>1, <3>1, <3>2
  <2>2. CASE ~(i = h /\ n = m.n)
    <3>1. handled[i][n] <= 1 + Allowance(i, n)
      BY DEF Once, AtMostOnce
    <3> QED BY <1>21, <2>2, <3>1
  <2> QED BY <2>1, <2>2
<1>26. \A i \in Node : AtMostOnce(i)'
  BY <1>1, <1>25 DEF AtMostOnce
<1> QED BY <1>1, <1>13, <1>20, <1>23, <1>24, <1>26 DEF Once, S

(* A new message: nobody has processed it.                                 *)
LEMMA OnceGenerate ==
    ASSUME FloodInv, NEW b, NEW numbers, NEW live, Once(b, numbers, live), Within(b),
           NEW h \in Node, NEW kind \in Kind, Generate(h, kind)
    PROVE  \E numbers2, live2 : Once(b, numbers2, live2)'
<1>a. PICK k : k = Len(made) + 1
  OBVIOUS
<1>b. PICK x : x = seqno[h]
  OBVIOUS
<1> DEFINE m == [org |-> h, seq |-> x, n |-> k, kind |-> kind, hop |-> 0,
                 ttl |-> IF kind = "hello" THEN 1 ELSE MaxTtl]
           buffer == net_outbuffer_push(out[h], m)
           record == [org |-> h, kind |-> kind]
           numbers2 == [n \in 1 .. k |-> IF n = k THEN x ELSE numbers[n]]
           live2 == live \cup {k}
           S == Copies(numbers, live)
           T == {c \in Message(k) : c.n \in live2 /\ c.org = made'[c.n].org /\ c.seq = numbers2[c.n]}
<1>1. /\ Len(made) < net.messages
      /\ made' = Append(made, record)
      /\ out' = [out EXCEPT ![h] = buffer]
      /\ queue' = Broadcast(h, queue, Overflow(out[h]))
      /\ UNCHANGED <<dup, handled, opened, resets>>
  BY <1>a, <1>b DEF Generate, history
<1>2. /\ made \in Seq([org : Node, kind : Kind]) /\ Len(made) \in Nat
      /\ MaxMessages \in Nat /\ k <= MaxMessages
  <2>1. net.messages \in 1 .. MaxMessages /\ Len(made) \in Nat /\ MaxMessages \in Nat
    BY OnceTypes, FloodingAssumption DEF FloodInv
  <2>2. made \in Seq([org : Node, kind : Kind])
    BY OnceTypes
  <2> QED BY <1>a, <1>1, <2>1, <2>2
<1>3. /\ Len(made') = k /\ made'[k] = record /\ k \in Nat /\ k > 0
      /\ \A n \in 1 .. Len(made) : made'[n] = made[n]
  <2> DEFINE M == [org : Node, kind : Kind]
  <2>1. made \in Seq(M) /\ record \in M
    BY <1>2
  <2> HIDE DEF M, record
  <2> QED BY <1>a, <1>1, <1>2, <2>1
<1>4. record.org = h /\ 1 .. k = (1 .. Len(made)) \cup {k} /\ k \notin 1 .. Len(made)
  BY <1>a, <1>2
<1>5. /\ x \in Arc(b[h]) /\ x \in 0 .. SeqRange - 1
      /\ numbers \in [1 .. Len(made) -> 0 .. SeqRange - 1] /\ live \subseteq 1 .. Len(made)
  BY <1>b DEF Within, Arc, Once
<1>6. /\ numbers2 \in [1 .. k -> 0 .. SeqRange - 1] /\ numbers2[k] = x
      /\ \A n \in 1 .. Len(made) : numbers2[n] = numbers[n]
  BY <1>4, <1>5
<1>7. live2 \subseteq 1 .. k
  BY <1>4, <1>5
<1> HIDE DEF record, numbers2
<1>8. \A n \in 1 .. k : numbers2[n] \in Arc(b[made'[n].org])
  <2>1. \A n \in 1 .. Len(made) : numbers[n] \in Arc(b[made[n].org])
    BY DEF Once
  <2> QED BY <1>3, <1>4, <1>5, <1>6, <2>1
<1>9. S \subseteq T
  <2> SUFFICES ASSUME NEW c \in S PROVE c \in T
    OBVIOUS
  <2>1. /\ c \in Message(Len(made)) /\ c.n \in live
        /\ c.org = made[c.n].org /\ c.seq = numbers[c.n]
    BY DEF Copies
  <2>2. c \in Message(k)
    BY <1>a, <1>2, <2>1 DEF Message
  <2>3. c.n \in 1 .. Len(made)
    BY <1>5, <2>1
  <2> QED BY <1>3, <1>6, <2>1, <2>2, <2>3
<1>10. m \in T
  <2>1. k \in 1 .. k /\ MaxTtl \in 1 .. MaxTtl /\ 0 \in 0 .. MaxTtl /\ 1 \in 1 .. MaxTtl
    BY <1>3, FloodingAssumption DEF FloodInv
  <2>2. m \in Message(k)
    BY <1>5, <2>1 DEF Message
  <2> QED BY <1>3, <1>4, <1>6, <2>2
<1>11. Copies(numbers2, live2)' = T
  BY <1>3 DEF Copies
<1> HIDE DEF T, S, m, live2
<1>12. /\ out \in [Node -> Seq(T)] /\ queue \in [Node -> Seq(Packets(T))]
       /\ out[h] \in Seq(T) /\ Len(out[h]) <= PacketRoom
  <2>1. /\ out \in [Node -> Seq(S)] /\ queue \in [Node -> Seq(Packets(S))]
        /\ Len(out[h]) <= PacketRoom
    BY DEF Once, Carried, FloodInv, TypeOK, S
  <2>2. Seq(S) \subseteq Seq(T) /\ Seq(Packets(S)) \subseteq Seq(Packets(T))
    BY <1>9, PacketsGrow
  <2> QED BY <2>1, <2>2
<1>13. buffer \in Seq(T) /\ Overflow(out[h]) \in Seq(Seq(T) \ {<<>>})
  BY <1>10, <1>12, PushType
<1> HIDE DEF buffer
<1>14. out' \in [Node -> Seq(T)] /\ queue' \in [Node -> Seq(Packets(T))]
  BY <1>1, <1>12, <1>13, BroadcastType
<1>15. HistoryType'
  <2>1. HistoryType
    BY DEF Once
  <2>2. \A n : n \in 1 .. MaxMessages /\ n > Len(made') => n > Len(made)
    BY <1>a, <1>2, <1>3
  <2> QED BY <1>1, <2>1, <2>2 DEF HistoryType
<1>16. \A i \in Node : handled[i][k] = 0 /\ handled'[i][k] = 0
  <2>1. k \in 1 .. MaxMessages /\ k > Len(made)
    BY <1>a, <1>2, <1>3
  <2> QED BY <1>1, <2>1 DEF Once, HistoryType
<1>17. ASSUME NEW i \in Node, NEW n \in 1 .. Len(made)
       PROVE  Allowance(i, n)' = Allowance(i, n)
  BY <1>1, <1>3 DEF Allowance
<1>18. ASSUME NEW i \in Node
       PROVE  Allowance(i, k)' \in Nat
  <2>1. resets[i][h] \in Nat
    BY DEF Once, HistoryType
  <2>2. resets'[i][made'[k].org] = resets[i][h]
    BY <1>1, <1>3, <1>4
  <2> QED BY <2>1, <2>2 DEF Allowance
<1>19. ASSUME NEW i \in Node, NEW n \in 1 .. k
       PROVE  handled'[i][n] <= 1 + Allowance(i, n)'
  <2>1. CASE n = k
    <3>1. handled'[i][n] = 0 /\ Allowance(i, n)' \in Nat
      BY <1>16, <1>18, <2>1
    <3> HIDE DEF Allowance
    <3> QED BY <3>1
  <2>2. CASE n # k
    <3>1. n \in 1 .. Len(made)
      BY <1>4, <2>2
    <3>2. handled[i][n] <= 1 + Allowance(i, n)
      BY <3>1 DEF Once, AtMostOnce
    <3> QED BY <1>1, <1>17, <3>1, <3>2
  <2> QED BY <2>1, <2>2
<1>20. \A i \in Node : AtMostOnce(i)'
  BY <1>3, <1>19 DEF AtMostOnce
<1>21. ASSUME NEW i \in Node, NEW n \in live2
       PROVE  Bounded(i, n, numbers2[n])'
  <2>1. CASE n = k
    <3>1. handled'[i][n] = 0 /\ Allowance(i, n)' \in Nat
      BY <1>16, <1>18, <2>1
    <3> QED BY <3>1 DEF Bounded
  <2>2. CASE n # k
    <3>1. n \in live /\ n \in 1 .. Len(made)
      BY <1>5, <2>2 DEF live2
    <3>2. Bounded(i, n, numbers[n])
      BY <3>1 DEF Once
    <3>3. made'[n] = made[n] /\ numbers2[n] = numbers[n] /\ Allowance(i, n)' = Allowance(i, n)
      BY <1>3, <1>6, <1>17, <3>1
    <3> QED BY <1>1, <3>2, <3>3 DEF Bounded, Known, TooLowFor
  <2> QED BY <2>1, <2>2
<1>22. Once(b, numbers2, live2)'
  <2>1. Carried(Copies(numbers2, live2))'
    BY <1>11, <1>14 DEF Carried
  <2>2. \A i, o \in Node : dup'[i][o] # None => dup'[i][o].seqnr \in Arc(b[o])
    BY <1>1 DEF Once
  <2> QED BY <1>3, <1>6, <1>7, <1>8, <1>15, <1>20, <1>21, <2>1, <2>2 DEF Once
<1> QED BY <1>22

LEMMA OnTheWayIs ==
    ASSUME NEW m
    PROVE  m \in OnTheWay <=> \/ \E h \in Node : m \in MessagesOf(out[h])
                             \/ \E h \in Node : \E p \in MessagesOf(queue[h]) : m \in MessagesOf(p.msgs)
<1> DEFINE A == {MessagesOf(out[h]) : h \in Node}
           B == {MessagesOf(queue[h]) : h \in Node}
           C == {MessagesOf(p.msgs) : p \in UNION B}
<1>1. m \in OnTheWay <=> m \in UNION A \/ m \in UNION C
  <2> DEFINE X == UNION A
             Y == UNION C
  <2>1. OnTheWay = X \cup Y
    BY DEF OnTheWay
  <2> HIDE DEF X, Y
  <2>2. m \in OnTheWay <=> m \in X \/ m \in Y
    BY <2>1
  <2> QED BY <2>2 DEF X, Y
<1>2. m \in UNION A <=> \E h \in Node : m \in MessagesOf(out[h])
  OBVIOUS
<1>3. \A p : p \in UNION B <=> \E h \in Node : p \in MessagesOf(queue[h])
  OBVIOUS
<1> HIDE DEF A, B
<1>4. m \in UNION C <=> \E p \in UNION B : m \in MessagesOf(p.msgs)
  OBVIOUS
<1> HIDE DEF C
<1>5. (\E p \in UNION B : m \in MessagesOf(p.msgs))
         <=> \E h \in Node : \E p \in MessagesOf(queue[h]) : m \in MessagesOf(p.msgs)
  <2> HIDE DEF MessagesOf
  <2> QED BY <1>3, Zenon
<1> QED BY <1>1, <1>2, <1>4, <1>5

LEMMA InBuffer == \A h \in Node : \A m \in MessagesOf(out[h]) : m \in OnTheWay
BY OnTheWayIs

LEMMA InSocket ==
    \A h \in Node : \A p \in MessagesOf(queue[h]) : \A m \in MessagesOf(p.msgs) : m \in OnTheWay
BY OnTheWayIs

LEMMA CarriedOnTheWay ==
    ASSUME NEW S, Carried(S), out \in [Node -> Seq(S)], queue \in [Node -> Seq(Packets(S))]
    PROVE  OnTheWay \subseteq S /\ Carried(OnTheWay)
<1>1. ASSUME NEW h \in Node
      PROVE  out[h] \in Seq(S) /\ \A i \in DOMAIN out[h] : out[h][i] \in S /\ out[h][i] \in OnTheWay
  <2>1. out[h] \in Seq(S)
    OBVIOUS
  <2>2. \A i \in DOMAIN out[h] : out[h][i] \in S
    BY <2>1
  <2>3. \A i \in DOMAIN out[h] : out[h][i] \in MessagesOf(out[h])
    BY DEF MessagesOf
  <2>4. \A m \in MessagesOf(out[h]) : m \in OnTheWay
    BY InBuffer
  <2> QED BY <2>1, <2>2, <2>3, <2>4
<1>2. ASSUME NEW h \in Node, NEW j \in DOMAIN queue[h]
      PROVE  /\ queue[h] \in Seq(Packets(S)) /\ queue[h][j] \in Packets(S)
             /\ queue[h][j].msgs \in Seq(S) \ {<<>>}
             /\ \A i \in DOMAIN queue[h][j].msgs :
                   queue[h][j].msgs[i] \in S /\ queue[h][j].msgs[i] \in OnTheWay
  <2>1. queue[h] \in Seq(Packets(S))
    OBVIOUS
  <2>2. queue[h][j] \in Packets(S)
    BY <2>1
  <2>3. queue[h][j].msgs \in Seq(S) \ {<<>>}
    BY <2>2 DEF Packets
  <2>4. \A i \in DOMAIN queue[h][j].msgs : queue[h][j].msgs[i] \in S
    BY <2>3
  <2>5. queue[h][j] \in MessagesOf(queue[h])
    BY DEF MessagesOf
  <2>6. \A i \in DOMAIN queue[h][j].msgs : queue[h][j].msgs[i] \in MessagesOf(queue[h][j].msgs)
    BY DEF MessagesOf
  <2>7. \A i \in DOMAIN queue[h][j].msgs : queue[h][j].msgs[i] \in OnTheWay
    BY <2>5, <2>6, InSocket
  <2> QED BY <2>1, <2>2, <2>3, <2>4, <2>7
<1>3. OnTheWay \subseteq S
  <2> SUFFICES ASSUME NEW m \in OnTheWay PROVE m \in S
    OBVIOUS
  <2>1. CASE \E h \in Node : m \in MessagesOf(out[h])
    BY <1>1, <2>1 DEF MessagesOf
  <2>2. CASE \E h \in Node : \E p \in MessagesOf(queue[h]) : m \in MessagesOf(p.msgs)
    <3>1. PICK h \in Node : \E p \in MessagesOf(queue[h]) : m \in MessagesOf(p.msgs)
      BY <2>2
    <3>2. PICK j \in DOMAIN queue[h] : m \in MessagesOf(queue[h][j].msgs)
      BY <3>1 DEF MessagesOf
    <3> QED BY <1>2, <3>2 DEF MessagesOf
  <2> QED BY <2>1, <2>2, OnTheWayIs
<1>4. ASSUME NEW s \in Seq(S), \A i \in DOMAIN s : s[i] \in OnTheWay
      PROVE  s \in Seq(OnTheWay)
  BY <1>4
<1>5. out \in [Node -> Seq(OnTheWay)]
  BY <1>1, <1>4
<1>6. ASSUME NEW h \in Node
      PROVE  queue[h] \in Seq(Packets(OnTheWay))
  <2>1. \A j \in DOMAIN queue[h] : queue[h][j] \in Packets(OnTheWay)
    <3> SUFFICES ASSUME NEW j \in DOMAIN queue[h] PROVE queue[h][j] \in Packets(OnTheWay)
      OBVIOUS
    <3>1. queue[h][j].msgs \in Seq(OnTheWay) \ {<<>>}
      BY <1>2, <1>4
    <3> QED BY <1>2, <3>1 DEF Packets
  <2>2. queue[h] \in Seq(Packets(S))
    OBVIOUS
  <2> QED BY <2>1, <2>2
<1> QED BY <1>3, <1>5, <1>6 DEF Carried

LEMMA OnceCleanup ==
    ASSUME FloodInv, NEW b, NEW numbers, NEW live, Once(b, numbers, live),
           NEW h \in Node, NEW o \in Node, olsr_cleanup_duplicate_entry(h, o)
    PROVE  \E live2 : Once(b, numbers, live2)'
<1>1. /\ \A m \in OnTheWay : m.org = o => handled[h][m.n] = 0
      /\ dup' = [dup EXCEPT ![h][o] = None]
      /\ UNCHANGED <<out, queue, made, handled, opened, resets>>
  BY DEF olsr_cleanup_duplicate_entry, history
<1>2. PICK live2 : live2 = {n \in live : \E m \in OnTheWay : m.n = n}
  OBVIOUS
<1> DEFINE S == Copies(numbers, live)
           T == Copies(numbers, live2)
<1>3. live2 \subseteq live /\ live \subseteq 1 .. Len(made)
  BY <1>2 DEF Once
<1>4. OnTheWay \subseteq S /\ Carried(OnTheWay)
  <2>1. Carried(S)
    BY DEF Once
  <2> HIDE DEF S
  <2> QED BY <2>1, CarriedOnTheWay DEF Carried
<1>5. OnTheWay \subseteq T
  BY <1>2, <1>4 DEF Copies
<1>6. T' = T
  BY <1>1 DEF Copies
<1>7. \A n \in live2 : made[n].org = o => handled[h][n] = 0
  <2> SUFFICES ASSUME NEW n \in live2, made[n].org = o PROVE handled[h][n] = 0
    OBVIOUS
  <2>1. PICK m \in OnTheWay : m.n = n
    BY <1>2
  <2>2. m.org = made[m.n].org
    BY <1>4 DEF Copies
  <2> QED BY <1>1, <2>1, <2>2
<1> HIDE DEF S, T
<1>8. Carried(T)'
  <2>1. Seq(OnTheWay) \subseteq Seq(T) /\ Seq(Packets(OnTheWay)) \subseteq Seq(Packets(T))
    BY <1>5, PacketsGrow
  <2> QED BY <1>1, <1>4, <1>6, <2>1 DEF Carried
<1>9. dup \in [Node -> [Node -> Entry \cup {None}]]
  BY OnceTypes
<1>10. ASSUME NEW i \in Node, NEW n \in live2
       PROVE  Bounded(i, n, numbers[n])'
  <2>1. Allowance(i, n)' = Allowance(i, n) /\ handled'[i][n] = handled[i][n] /\ n \in live
    BY <1>1, <1>3 DEF Allowance
  <2>2. CASE i = h /\ made[n].org = o
    <3>1. dup'[i][made[n].org] = None
      BY <1>1, <1>9, <2>2
    <3> QED BY <1>1, <1>7, <2>1, <2>2, <3>1 DEF Bounded
  <2>3. CASE ~(i = h /\ made[n].org = o)
    BY <1>1, <2>1, <2>3, OthersBounded
  <2> QED BY <2>2, <2>3
<1>11. \A i, j \in Node : dup'[i][j] # None => dup'[i][j].seqnr \in Arc(b[j])
  <2> SUFFICES ASSUME NEW i \in Node, NEW j \in Node, dup'[i][j] # None
               PROVE  dup'[i][j].seqnr \in Arc(b[j])
    OBVIOUS
  <2>1. dup'[i][j] = dup[i][j]
    BY <1>1, <1>9
  <2> QED BY <2>1 DEF Once
<1>12. \A i \in Node : AtMostOnce(i)'
  BY <1>1 DEF Once, AtMostOnce, Allowance
<1>13. HistoryType'
  BY <1>1 DEF Once, HistoryType
<1>14. /\ numbers \in [1 .. Len(made') -> 0 .. SeqRange - 1] /\ live2 \subseteq 1 .. Len(made')
       /\ \A n \in 1 .. Len(made') : numbers[n] \in Arc(b[made'[n].org])
  BY <1>1, <1>3 DEF Once
<1>15. Once(b, numbers, live2)'
  BY <1>8, <1>10, <1>11, <1>12, <1>13, <1>14 DEF Once, T
<1> QED BY <1>15

(* The host that starts again has processed nothing; the others know what  *)
(* they knew.                                                              *)
LEMMA OnceRestart ==
    ASSUME FloodInv, NEW b, NEW numbers, NEW live, Once(b, numbers, live),
           NEW h \in Node, Restart(h)
    PROVE  Once(b, numbers, live)'
<1> DEFINE S == Copies(numbers, live)
           none == [o \in Node |-> None]
           zero == [o \in Node |-> 0]
           never == [n \in 1 .. MaxMessages |-> 0]
<1>1. /\ dup' = [dup EXCEPT ![h] = none]
      /\ out' = [out EXCEPT ![h] = <<>>] /\ queue' = [queue EXCEPT ![h] = <<>>]
      /\ handled' = [handled EXCEPT ![h] = never]
      /\ opened' = [opened EXCEPT ![h] = {}]
      /\ resets' = [resets EXCEPT ![h] = zero]
      /\ made' = made
  BY DEF Restart
<1>2. out \in [Node -> Seq(S)] /\ queue \in [Node -> Seq(Packets(S))]
  BY DEF Once, Carried
<1>3. S' = S
  BY <1>1 DEF Copies
<1>4. /\ never \in [1 .. MaxMessages -> Nat] /\ zero \in [Node -> Nat]
      /\ \A n \in 1 .. MaxMessages : never[n] = 0
      /\ \A o \in Node : none[o] = None /\ zero[o] = 0
  OBVIOUS
<1> HIDE DEF S, none, zero, never
<1>5. out' \in [Node -> Seq(S)] /\ queue' \in [Node -> Seq(Packets(S))]
  <2>1. <<>> \in Seq(S) /\ <<>> \in Seq(Packets(S))
    OBVIOUS
  <2> QED BY <1>1, <1>2, <2>1
<1>6. Carried(S)'
  BY <1>3, <1>5 DEF Carried
<1>7. /\ handled \in [Node -> [1 .. MaxMessages -> Nat]] /\ opened \in [Node -> SUBSET Nat]
      /\ resets \in [Node -> [Node -> Nat]] /\ dup \in [Node -> [Node -> Entry \cup {None}]]
  BY OnceTypes DEF Once, HistoryType
<1>8. /\ handled'[h] = never /\ opened'[h] = {} /\ resets'[h] = zero /\ dup'[h] = none
      /\ \A i \in Node : i # h => /\ handled'[i] = handled[i] /\ opened'[i] = opened[i]
                                  /\ resets'[i] = resets[i] /\ dup'[i] = dup[i]
  BY <1>1, <1>7
<1>9. HistoryType'
  <2>1. /\ handled' \in [Node -> [1 .. MaxMessages -> Nat]] /\ opened' \in [Node -> SUBSET Nat]
        /\ resets' \in [Node -> [Node -> Nat]]
    BY <1>1, <1>4, <1>7
  <2>2. ASSUME NEW i \in Node, NEW n \in 1 .. MaxMessages, n > Len(made)
        PROVE  handled'[i][n] = 0
    <3>1. handled[i][n] = 0
      BY <2>2 DEF Once, HistoryType
    <3> QED BY <1>4, <1>8, <3>1
  <2> QED BY <1>1, <2>1, <2>2 DEF HistoryType
<1>10. ASSUME NEW n \in 1 .. Len(made)
       PROVE  /\ handled'[h][n] = 0 /\ Allowance(h, n)' \in Nat /\ dup'[h][made[n].org] = None
              /\ \A i \in Node : i # h => Allowance(i, n)' = Allowance(i, n)
  <2>1. n \in 1 .. MaxMessages /\ made[n].org \in Node
    BY OnceTypes
  <2>2. resets'[h][made'[n].org] = 0
    BY <1>1, <1>4, <1>8, <2>1
  <2>3. Allowance(h, n)' \in Nat
    BY <2>2 DEF Allowance
  <2>4. \A i \in Node : i # h => Allowance(i, n)' = Allowance(i, n)
    BY <1>1, <1>8 DEF Allowance
  <2> QED BY <1>4, <1>8, <2>1, <2>3, <2>4
<1>11. ASSUME NEW i \in Node, NEW n \in 1 .. Len(made)
       PROVE  handled'[i][n] <= 1 + Allowance(i, n)'
  <2>1. handled[i][n] <= 1 + Allowance(i, n)
    BY DEF Once, AtMostOnce
  <2> HIDE DEF Allowance
  <2> QED BY <1>8, <1>10, <2>1
<1>12. \A i \in Node : AtMostOnce(i)'
  BY <1>1, <1>11 DEF AtMostOnce
<1>13. ASSUME NEW i \in Node, NEW n \in live
       PROVE  Bounded(i, n, numbers[n])'
  <2>1. n \in 1 .. Len(made) /\ Bounded(i, n, numbers[n])
    BY DEF Once
  <2>2. CASE i = h
    BY <1>1, <1>10, <2>1, <2>2 DEF Bounded
  <2>3. CASE i # h
    BY <1>1, <1>8, <1>10, <2>1, <2>3 DEF Bounded, Known, TooLowFor
  <2> QED BY <2>2, <2>3
<1>14. \A i, j \in Node : dup'[i][j] # None => dup'[i][j].seqnr \in Arc(b[j])
  <2> SUFFICES ASSUME NEW i \in Node, NEW j \in Node, dup'[i][j] # None
               PROVE  dup'[i][j].seqnr \in Arc(b[j])
    OBVIOUS
  <2>1. dup'[i][j] = dup[i][j]
    BY <1>4, <1>8
  <2> QED BY <2>1 DEF Once
<1> QED BY <1>1, <1>6, <1>9, <1>12, <1>13, <1>14 DEF Once, S

LEMMA OnceNext ==
    ASSUME NEW b \in [Node -> 0 .. SeqRange - 1], OnceInv(b), Within(b), [Next]_vars
    PROVE  OnceInv(b)'
<1>1. FloodInv /\ FloodInv'
  BY NextInv DEF OnceInv
<1>2. PICK numbers, live : Once(b, numbers, live)
  BY DEF OnceInv
<1>3. \E numbers2, live2 : Once(b, numbers2, live2)'
  <2>1. CASE UNCHANGED vars
    <3>1. UNCHANGED <<dup, made, handled, opened, resets, out, queue>>
      BY <2>1 DEF vars
    <3>2. Carried(Copies(numbers, live))'
      BY <1>2, <3>1 DEF Once, Carried, Copies
    <3> QED BY <1>2, <3>1, <3>2, OnceKept
  <2>2. CASE Next
    <3>1. PICK h \in Node :
             \/ parse_packet(h) \/ net_output(h)
             \/ \E kind \in Kind : Generate(h, kind)
             \/ \E o \in Node : olsr_cleanup_duplicate_entry(h, o)
             \/ Restart(h) \/ Lose(h)
      BY <2>2 DEF Next, Present
    <3>2. CASE parse_packet(h)
      <4> DEFINE m == Head(Head(queue[h]).msgs)
                 f == Head(queue[h]).from
      <4>1. /\ queue[h] # <<>> /\ UNCHANGED made
            /\ OwnMessage(h, m) \/ Block(h, m) \/ Process(h, f, m)
        BY <3>2 DEF parse_packet
      <4>2. m \in Copies(numbers, live)
        <5>1. queue \in [Node -> Seq(Packets(Copies(numbers, live)))]
          BY <1>2 DEF Once, Carried
        <5> QED BY <4>1, <5>1, FirstOf
      <4> HIDE DEF m, f
      <4>3. Once(b, numbers, live)'
        BY <1>1, <1>2, <4>1, <4>2, OnceOwn, OnceBlock, OnceProcess
      <4> QED BY <4>3
    <3>3. CASE net_output(h)
      BY <1>2, <3>3, OnceOutput
    <3>4. CASE \E kind \in Kind : Generate(h, kind)
      BY <1>1, <1>2, <3>4, OnceGenerate
    <3>5. CASE \E o \in Node : olsr_cleanup_duplicate_entry(h, o)
      BY <1>1, <1>2, <3>5, OnceCleanup
    <3>6. CASE Restart(h)
      BY <1>1, <1>2, <3>6, OnceRestart
    <3>7. CASE Lose(h)
      BY <1>2, <3>7, OnceLose
    <3> QED BY <3>1, <3>2, <3>3, <3>4, <3>5, <3>6, <3>7
  <2> QED BY <2>1, <2>2
<1>4. (\E numbers2, live2 : Once(b, numbers2, live2))'
  BY <1>3
<1> QED BY <1>1, <1>4 DEF OnceInv

LEMMA OnceImplies ==
    ASSUME NEW b, OnceInv(b)
    PROVE  ProcessedOnce
<1> SUFFICES ASSUME NEW h \in Node, NEW n \in DOMAIN made
             PROVE  handled[h][n] <= 1 + Cardinality(opened[h] \cap {n}) + resets[h][made[n].org]
  BY DEF ProcessedOnce
<1>1. PICK numbers, live : Once(b, numbers, live)
  BY DEF OnceInv
<1>2. FloodInv
  BY DEF OnceInv
<1>3. n \in 1 .. Len(made) /\ made[n].org \in Node
  BY <1>2, OnceTypes
<1>4. handled[h][n] <= 1 + Allowance(h, n)
  BY <1>1, <1>3 DEF Once, AtMostOnce
<1>5. resets[h][made[n].org] \in Nat /\ handled[h][n] \in Nat
  <2>1. resets \in [Node -> [Node -> Nat]]
    BY <1>1 DEF Once, HistoryType
  <2> QED BY <1>1, <1>2, <1>3, <2>1, AllowanceType
<1>6. Cardinality(opened[h] \cap {n}) = IF n \in opened[h] THEN 1 ELSE 0
  <2>1. CASE n \in opened[h]
    <3>1. opened[h] \cap {n} = {n}
      BY <2>1
    <3> QED BY <2>1, <3>1, FS_Singleton
  <2>2. CASE n \notin opened[h]
    <3>1. opened[h] \cap {n} = {}
      BY <2>2
    <3> QED BY <2>2, <3>1, FS_EmptySet
  <2> QED BY <2>1, <2>2
<1> QED BY <1>4, <1>5, <1>6 DEF Allowance

(* Without a restart the next number of a host is as far behind its first  *)
(* one as there are messages, at most.                                     *)
Numbered(first) ==
    /\ seqno \in [Node -> 0 .. SeqRange - 1] /\ Len(made) \in Nat /\ net \in Scenario
    /\ Len(made) <= net.messages
    /\ \A h \in Node : Behind(first[h], seqno[h]) <= Len(made)

LEMMA OneOn ==
    ASSUME NEW R \in Nat \ {0}, NEW a \in 0 .. R - 1
    PROVE  (a + 1) % R = IF a + 1 = R THEN 0 ELSE a + 1
OBVIOUS

LEMMA NumberedNext ==
    ASSUME NEW first \in [Node -> 0 .. SeqRange - 1], FloodInv, FloodInv', Numbered(first),
           [Next /\ \A h \in Node : ~Restart(h)]_vars
    PROVE  Numbered(first)'
<1>1. /\ seqno \in [Node -> 0 .. SeqRange - 1] /\ seqno' \in [Node -> 0 .. SeqRange - 1]
      /\ Len(made) \in Nat /\ Len(made') \in Nat /\ net \in Scenario /\ net' \in Scenario
      /\ made \in Seq([org : Node, kind : Kind]) /\ SeqRange \in Nat \ {0}
      /\ \A s \in Scenario : s.messages \in Nat
  BY FloodingAssumption DEF FloodInv, TypeOK
<1>2. CASE UNCHANGED <<seqno, made, net>>
  BY <1>2 DEF Numbered
<1>3. CASE \E h \in Node, kind \in Kind : Generate(h, kind)
  <2>1. PICK h \in Node, kind \in Kind : Generate(h, kind)
    BY <1>3
  <2> DEFINE record == [org |-> h, kind |-> kind]
  <2>2. /\ Len(made) < net.messages /\ net' = net
        /\ made' = Append(made, record)
        /\ seqno' = [seqno EXCEPT ![h] = get_msg_seqno(h)]
    BY <2>1 DEF Generate
  <2>3. record \in [org : Node, kind : Kind]
    OBVIOUS
  <2> HIDE DEF record
  <2>4. Len(made') = Len(made) + 1
    BY <1>1, <2>2, <2>3
  <2>5. ASSUME NEW i \in Node
        PROVE  Behind(first[i], seqno'[i]) <= Len(made) + 1
    <3>1. /\ first[i] \in 0 .. SeqRange - 1 /\ seqno[i] \in 0 .. SeqRange - 1
          /\ Behind(first[i], seqno[i]) <= Len(made)
      BY <1>1 DEF Numbered
    <3>2. CASE i # h
      <4>1. seqno'[i] = seqno[i]
        BY <1>1, <2>2, <3>2
      <4>2. Behind(first[i], seqno[i]) \in Int
        BY <1>1, <3>1 DEF Behind
      <4> QED BY <1>1, <3>1, <4>1, <4>2
    <3>3. CASE i = h
      <4>1. seqno'[i] = (seqno[i] + 1) % SeqRange
        BY <1>1, <2>2, <3>3 DEF get_msg_seqno
      <4>2. seqno'[i] = IF seqno[i] + 1 = SeqRange THEN 0 ELSE seqno[i] + 1
        BY <1>1, <3>1, <4>1, OneOn
      <4> DEFINE x == seqno[i]
                 y == seqno'[i]
                 z == first[i]
                 k == Len(made)
      <4>3. /\ x \in 0 .. SeqRange - 1 /\ y \in 0 .. SeqRange - 1 /\ z \in 0 .. SeqRange - 1
            /\ k \in Nat /\ SeqRange \in Nat
            /\ y = IF x + 1 = SeqRange THEN 0 ELSE x + 1
            /\ (IF x >= z THEN x - z ELSE x - z + SeqRange) <= k
        BY <1>1, <3>1, <4>2 DEF Behind
      <4> HIDE DEF x, y, z, k
      <4>4. (IF y >= z THEN y - z ELSE y - z + SeqRange) <= k + 1
        BY <4>3
      <4> QED BY <4>4 DEF Behind, x, y, z, k
    <3> QED BY <3>2, <3>3
  <2> QED BY <1>1, <2>2, <2>4, <2>5 DEF Numbered
<1>4. UNCHANGED <<seqno, made, net>> \/ \E h \in Node, kind \in Kind : Generate(h, kind)
  BY DEF Next, vars, Present, parse_packet, net_output, olsr_cleanup_duplicate_entry, Lose
<1> QED BY <1>2, <1>3, <1>4

-----------------------------------------------------------------------------
(* The theorems *)

(* FloodInv holds in every reachable state: too_low_counter bounds what a  *)
(* host has blocked since a copy inside the window last cleared it.        *)
THEOREM FloodingInvariant == Spec => []FloodInv
BY InitInv, NextInv, PTL DEF Spec

(* Type correctness of the flooding: only copies of messages that were     *)
(* made are on their way, with a ttl that has not run out, in packets that *)
(* are not empty and buffers no larger than a packet.                      *)
THEOREM FloodingTypeCorrect == Spec => []TypeOK
<1>1. FloodInv => TypeOK
  BY DEF FloodInv
<1> QED BY <1>1, FloodingInvariant, PTL

(* After a wrap or a restart olsr_shall_process_message blocks no more     *)
(* than TooLow copies of new messages, and TooLow + 1 more for every copy  *)
(* inside the window that clears too_low_counter in between.               *)
THEOREM AlwaysHeardAgain == Spec => []HeardAgain
<1>1. FloodInv => HeardAgain
  <2> SUFFICES ASSUME FloodInv, NEW h \in Node, NEW o \in Node
               PROVE  missed[h][o] <= TooLow + (TooLow + 1) * late[h][o]
    BY DEF HeardAgain
  <2> DEFINE w == (TooLow + 1) * late[h][o]
  <2>1. missed[h][o] <= Blocked(h, o) + w
    BY DEF FloodInv, Counted
  <2>2. /\ dup \in [Node -> [Node -> Entry \cup {None}]] /\ TooLow \in Nat
        /\ missed \in [Node -> [Node -> Nat]] /\ late \in [Node -> [Node -> Nat]]
    BY FloodingAssumption DEF FloodInv, TypeOK
  <2>3. Blocked(h, o) \in 0 .. TooLow
    <3>1. dup[h][o] \in Entry \cup {None}
      BY <2>2
    <3>2. dup[h][o] \in Entry => dup[h][o].low \in 0 .. TooLow
      BY DEF Entry
    <3> QED BY <2>2, <3>1, <3>2 DEF Blocked
  <2>4. late[h][o] \in Nat /\ missed[h][o] \in Nat /\ TooLow + 1 \in Nat
    BY <2>2
  <2>5. w \in Nat
    BY <2>4, Times
  <2> HIDE DEF w
  <2>6. missed[h][o] <= TooLow + w
    BY <2>1, <2>2, <2>3, <2>4, <2>5
  <2> QED BY <2>6 DEF w
<1> QED BY <1>1, FloodingInvariant, PTL

(* A host processes a message once, once more if it created the dup_entry  *)
(* with it and once more for every time the entry was set back, however    *)
(* many copies arrive and whoever forgets, restarts or misses packets, as  *)
(* long as the numbers of every originator stay within half of their       *)
(* range: that of a copy that comes later than that looks new again.       *)
THEOREM ProcessedOnceWithinHalf ==
    ASSUME NEW b \in [Node -> 0 .. SeqRange - 1]
    PROVE  Spec /\ []Within(b) => []ProcessedOnce
<1>1. Init => OnceInv(b)
  BY OnceInit
<1>2. OnceInv(b) /\ Within(b) /\ [Next]_vars => OnceInv(b)'
  BY OnceNext
<1>3. OnceInv(b) => ProcessedOnce
  BY OnceImplies
<1> QED BY <1>1, <1>2, <1>3, PTL DEF Spec

(* Numbers that start anywhere stay within half of their range, and wrap   *)
(* where they come to its end, if no more messages than that are made and  *)
(* no originator starts again with a number it picks.                      *)
THEOREM HandledOnce ==
    ASSUME NEW first \in [Node -> 0 .. SeqRange - 1],
           \A s \in Scenario : s.messages < SeqRange \div 2
    PROVE  Spec /\ seqno = first /\ [][\A h \in Node : ~Restart(h)]_vars => []ProcessedOnce
<1>1. Init => FloodInv
  BY InitInv
<1>2. FloodInv /\ [Next]_vars => FloodInv'
  BY NextInv
<1>3. Init /\ seqno = first => Numbered(first)
  <2> SUFFICES ASSUME Init, seqno = first PROVE Numbered(first)
    OBVIOUS
  <2>1. Len(made) = 0 /\ net \in Scenario /\ net.messages \in Nat
    BY FloodingAssumption DEF Init
  <2>2. ASSUME NEW h \in Node PROVE Behind(first[h], seqno[h]) = 0
    BY DEF Behind
  <2> QED BY <2>1, <2>2 DEF Numbered
<1>4. FloodInv /\ FloodInv' /\ Numbered(first) /\ [Next]_vars /\ [\A h \in Node : ~Restart(h)]_vars
         => Numbered(first)'
  BY NumberedNext
<1>5. Numbered(first) => Within(first)
  <2> SUFFICES ASSUME Numbered(first), NEW h \in Node PROVE seqno[h] \in Arc(first[h])
    BY DEF Within
  <2>1. /\ seqno[h] \in 0 .. SeqRange - 1 /\ Behind(first[h], seqno[h]) <= Len(made)
        /\ Len(made) <= net.messages /\ net.messages < Half /\ first[h] \in 0 .. SeqRange - 1
        /\ Len(made) \in Nat /\ net.messages \in Nat /\ SeqRange \in Nat /\ Half \in Nat
    BY FloodingAssumption, HalfRange DEF Numbered, Half
  <2>2. Behind(first[h], seqno[h]) \in Int
    BY <2>1 DEF Behind
  <2> HIDE DEF Half, Behind
  <2>3. Behind(first[h], seqno[h]) < Half
    BY <2>1, <2>2
  <2> QED BY <2>1, <2>3 DEF Arc
<1>6. Init => OnceInv(first)
  BY OnceInit
<1>7. OnceInv(first) /\ Within(first) /\ [Next]_vars => OnceInv(first)'
  BY OnceNext
<1>8. OnceInv(first) => ProcessedOnce
  BY OnceImplies
<1> QED BY <1>1, <1>2, <1>3, <1>4, <1>5, <1>6, <1>7, <1>8, PTL DEF Spec

=============================================================================
