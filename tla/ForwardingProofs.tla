-------------------------- MODULE ForwardingProofs --------------------------
(***************************************************************************)
(* Proofs about Forwarding for any hosts, addresses, views and datagrams.  *)
(*                                                                         *)
(* The inductive invariant says what a datagram looks like at each stage:  *)
(* on the wire, or in fragments at LOCAL_IN, it has one header for the     *)
(* current host (Travelling); at LOCAL_IN it may also be plain UDP for its *)
(* host (Arrived), or carry a second header for another host (Stacked),    *)
(* which pth_checkCurrentAddr stops.                                       *)
(***************************************************************************)
EXTENDS Forwarding, TLAPS

HeaderFor(h, i) ==
    /\ h.protocol = "udp"
    /\ h.first = sent[i].src
    /\ h.path \in Seq(Node)
    /\ Len(h.path) >= 1
    /\ h.path[Len(h.path)] = Host(sent[i].dst)
    /\ h.cur \in 1..Len(h.path)

Travelling(p) ==
    /\ p.protocol = "mpolsr"
    /\ \E h \in Header : /\ p.hdrs = <<h>>
                         /\ HeaderFor(h, p.id)
                         /\ h.path[h.cur] = p.at
                         /\ Host(p.saddr) = IF h.cur = 1 THEN h.first ELSE h.path[h.cur - 1]

Arrived(p) ==
    /\ p.protocol = "udp" /\ p.hdrs = <<>>
    /\ p.at = Host(sent[p.id].dst)
    /\ p.saddr = sent[p.id].src

Stacked(p) ==
    /\ p.protocol = "mpolsr"
    /\ Hdr(p) \in Header /\ Hdr(p).cur = 1 /\ Len(Hdr(p).path) >= 1 /\ Hdr(p).path[1] # p.at

InFlight(p) ==
    /\ p.at = Host(p.daddr)
    /\ sent[p.id] # NotSent
    /\ IF p.stage = "wire" THEN Travelling(p) ELSE Travelling(p) \/ Arrived(p) \/ Stacked(p)

Inv ==
    /\ TypeOK
    /\ \A p \in pkts : InFlight(p)
    /\ \A p \in delivered : Arrived(p) /\ sent[p.id] # NotSent
-----------------------------------------------------------------------------
(* What the hooks make of one datagram *)

LEMMA HeaderAddedFields ==
    ASSUME NEW p \in Datagram, NEW hs \in Seq(Header)
    PROVE  LET q == [p EXCEPT !.protocol = "mpolsr", !.hdrs = hs]
           IN /\ q \in Datagram /\ q.id = p.id /\ q.at = p.at /\ q.stage = p.stage
              /\ q.protocol = "mpolsr" /\ q.saddr = p.saddr /\ q.daddr = p.daddr /\ q.hdrs = hs
BY DEF Datagram

LEMMA AddToNone ==
    ASSUME NEW h \in Header
    PROVE  <<h>> \o <<>> = <<h>> /\ <<h>> \in Seq(Header) /\ <<>> \in Seq(Header)
OBVIOUS

LEMMA AddToSome ==
    ASSUME NEW h \in Header, NEW t \in Seq(Header)
    PROVE  <<h>> \o t \in Seq(Header) /\ Head(<<h>> \o t) = h
OBVIOUS

LEMMA TravellingFacts ==
    ASSUME NEW p \in Datagram, Travelling(p)
    PROVE  /\ Hdr(p) \in Header /\ p.hdrs = <<Hdr(p)>> /\ HeaderFor(Hdr(p), p.id)
           /\ Hdr(p).path[Hdr(p).cur] = p.at
           /\ Host(p.saddr) = IF Hdr(p).cur = 1 THEN Hdr(p).first ELSE Hdr(p).path[Hdr(p).cur - 1]
           /\ Tail(p.hdrs) = <<>>
<1>1. PICK h \in Header : /\ p.hdrs = <<h>>
                          /\ HeaderFor(h, p.id)
                          /\ h.path[h.cur] = p.at
                          /\ Host(p.saddr) = IF h.cur = 1 THEN h.first ELSE h.path[h.cur - 1]
  BY DEF Travelling
<1>2. Hdr(p) = h /\ Tail(p.hdrs) = <<>>
  BY <1>1 DEF Hdr
<1> QED
  BY <1>1, <1>2

LEMMA NextHop ==
    ASSUME NEW p \in Datagram, NEW h \in Header, h = Hdr(p), HeaderFor(h, p.id),
           NextAddr(p) # NoAddr
    PROVE  /\ h.cur + 1 \in 1..Len(h.path) /\ NextAddr(p) = h.path[h.cur + 1]
           /\ NextAddr(p) \in Node
BY DEF NextAddr, getHopAddr, HeaderFor, Header

LEMMA ForwardedInFlight ==
    ASSUME TypeOK, NEW p \in Datagram, Travelling(p), p.at = Host(p.daddr),
           sent[p.id] # NotSent, CanForward(p)
    PROVE  /\ Forwarded(p) \in Datagram /\ InFlight(Forwarded(p))
<1> DEFINE h == Hdr(p)
           r == RealAddr[<<p.at, NextAddr(p)>>]
           q == Forwarded(p)
<1>1. /\ h \in Header /\ HeaderFor(h, p.id) /\ h.path[h.cur] = p.at /\ Tail(p.hdrs) = <<>>
  BY TravellingFacts
<1>2. h.cur + 1 \in 1..Len(h.path) /\ NextAddr(p) = h.path[h.cur + 1] /\ NextAddr(p) \in Node
  BY <1>1, NextHop DEF CanForward
<1>3. r \in Addr /\ Host(r) = NextAddr(p)
  <2>1. <<p.at, NextAddr(p)>> \in Node \X Node /\ r # NoAddr
    BY <1>2 DEF CanForward, Datagram
  <2> QED
    BY <2>1, AddrAssumption DEF Host
<1>4. moveToNextHop(h) \in Header /\ HeaderFor(moveToNextHop(h), p.id)
      /\ moveToNextHop(h).path = h.path /\ moveToNextHop(h).cur = h.cur + 1
  BY <1>1, <1>2 DEF moveToNextHop, Header, HeaderFor
<1>5. <<moveToNextHop(h)>> \o Tail(p.hdrs) = <<moveToNextHop(h)>>
      /\ <<moveToNextHop(h)>> \in Seq(Header) /\ p.daddr \in Addr
  BY <1>1, <1>4, AddToNone DEF Datagram
<1>6. q = OnWire([p EXCEPT !.daddr = r, !.saddr = p.daddr, !.hdrs = <<moveToNextHop(h)>>])
  BY <1>5 DEF Forwarded
<1>7. /\ q \in Datagram /\ q.id = p.id /\ q.at = Host(r) /\ q.stage = "wire"
      /\ q.protocol = p.protocol /\ q.saddr = p.daddr /\ q.daddr = r
      /\ q.hdrs = <<moveToNextHop(h)>>
  <2> DEFINE hs == <<moveToNextHop(h)>>
             o  == OnWire([p EXCEPT !.daddr = r, !.saddr = p.daddr, !.hdrs = hs])
  <2>1. hs \in Seq(Header) /\ r \in Addr /\ p.daddr \in Addr
    BY <1>3, <1>5
  <2> HIDE DEF hs, r, h
  <2>2. /\ o \in Datagram /\ o.id = p.id /\ o.at = Host(r) /\ o.stage = "wire"
        /\ o.protocol = p.protocol /\ o.saddr = p.daddr /\ o.daddr = r /\ o.hdrs = hs
    BY <2>1, AddrAssumption DEF OnWire, Host, Datagram
  <2> QED
    BY <1>6, <2>2 DEF hs
<1>8. Travelling(q)
  <2>1. h.cur \in Nat /\ h.cur + 1 # 1 /\ h.cur + 1 - 1 = h.cur
    BY <1>1 DEF HeaderFor, Header
  <2> HIDE DEF h, r, q
  <2> QED
    BY <1>1, <1>2, <1>3, <1>4, <1>7, <2>1 DEF Travelling
<1> HIDE DEF q, r, h
<1>9. InFlight(q)
  BY <1>7, <1>8 DEF InFlight
<1> QED
  BY <1>7, <1>9 DEF q

LEMMA StrippedArrives ==
    ASSUME TypeOK, NEW p \in Datagram, Travelling(p), AtEnd(p)
    PROVE  /\ removeMpOlsrHeader(p) \in Datagram
           /\ removeMpOlsrHeader(p).id = p.id /\ removeMpOlsrHeader(p).at = p.at
           /\ removeMpOlsrHeader(p).daddr = p.daddr
           /\ Arrived(removeMpOlsrHeader(p))
<1> DEFINE h == Hdr(p)
           q == removeMpOlsrHeader(p)
<1>1. /\ h \in Header /\ HeaderFor(h, p.id) /\ h.path[h.cur] = p.at /\ Tail(p.hdrs) = <<>>
      /\ h = Head(p.hdrs)
  BY TravellingFacts DEF Hdr
<1>2. q = [p EXCEPT !.protocol = h.protocol, !.saddr = h.first, !.hdrs = <<>>]
  BY <1>1 DEF removeMpOlsrHeader
<1>3. h.protocol = "udp" /\ h.first \in Addr /\ h.first = sent[p.id].src
      /\ p.at = Host(sent[p.id].dst)
  BY <1>1 DEF AtEnd, isEndOfPath, HeaderFor, Header
<1> HIDE DEF h, q
<1>4. /\ q \in Datagram /\ q.id = p.id /\ q.at = p.at /\ q.daddr = p.daddr
      /\ q.protocol = h.protocol /\ q.saddr = h.first /\ q.hdrs = <<>>
  <2>1. <<>> \in Seq(Header) /\ h.protocol \in {"udp", "mpolsr"} /\ h.first \in Addr
    BY <1>1, <1>3, AddToNone
  <2> QED
    BY <1>2, <2>1 DEF Datagram
<1>5. Arrived(q)
  BY <1>3, <1>4 DEF Arrived
<1> QED
  BY <1>4, <1>5 DEF q

LEMMA RecoveredStacked ==
    ASSUME TypeOK, NEW p \in Datagram, Travelling(p), NEW path \in RecoveryPaths(p)
    PROVE  /\ Recovered(p, path) \in Datagram
           /\ Recovered(p, path).id = p.id /\ Recovered(p, path).at = p.at
           /\ Recovered(p, path).daddr = p.daddr
           /\ Stacked(Recovered(p, path))
<1> DEFINE h == [protocol |-> Hdr(p).protocol, first |-> p.daddr, path |-> path, cur |-> 1]
           q == Recovered(p, path)
<1>1. Hdr(p) \in Header
  BY TravellingFacts
<1>2. path \in Seq(Node) /\ Len(path) >= 1 /\ path[1] # p.at
  <2>1. PICK k \in 1..MaxHops : path \in [1..k -> Node]
    BY DEF RecoveryPaths, Routes
  <2>2. path # <<>> /\ \A i \in DOMAIN path : path[i] # p.at
    BY DEF RecoveryPaths, Routes, IsPath
  <2> QED
    BY <2>1, <2>2, BoundAssumption
<1>3. h \in Header
  BY <1>1, <1>2 DEF Header, Datagram
<1>4. q = [p EXCEPT !.protocol = "mpolsr", !.hdrs = <<h>> \o p.hdrs]
  BY DEF Recovered, addMpOlsrHeader
<1>5. h.cur = 1 /\ h.path = path
  OBVIOUS
<1> HIDE DEF h, q
<1>6. <<h>> \o p.hdrs \in Seq(Header) /\ Head(<<h>> \o p.hdrs) = h
  BY <1>3, AddToSome DEF Datagram
<1>7. /\ q \in Datagram /\ q.id = p.id /\ q.at = p.at /\ q.daddr = p.daddr
      /\ q.protocol = "mpolsr" /\ q.hdrs = <<h>> \o p.hdrs
  BY <1>4, <1>6, HeaderAddedFields
<1>8. Stacked(q)
  BY <1>2, <1>3, <1>5, <1>6, <1>7 DEF Stacked, Hdr
<1> QED
  BY <1>7, <1>8 DEF q

LEMMA StackedStops ==
    ASSUME NEW p \in Datagram, Stacked(p)
    PROVE  ~checkCurrentAddr(p)
<1>1. 1 \in DOMAIN Hdr(p).path
  BY DEF Header, Stacked
<1> QED
  BY <1>1 DEF checkCurrentAddr, getHopAddr, Stacked

\* AtLocalIn only changes the stage
LEMMA LocalInSame ==
    ASSUME NEW p \in Datagram
    PROVE  LET q == AtLocalIn(p)
           IN /\ q \in Datagram /\ q.id = p.id /\ q.at = p.at /\ q.stage = "in"
              /\ q.protocol = p.protocol /\ q.saddr = p.saddr /\ q.daddr = p.daddr
              /\ q.hdrs = p.hdrs
BY DEF AtLocalIn, Datagram
-----------------------------------------------------------------------------
(* The steps *)

LEMMA InitInv == Init => Inv
<1> SUFFICES ASSUME Init PROVE Inv
  OBVIOUS
<1>1. view \in [Node -> SUBSET (Node \X Node)]
  BY GraphAssumption DEF Init
<1> QED
  BY <1>1, BoundAssumption DEF Init, Inv, TypeOK

\* A datagram keeps its invariant while nobody changes what was sent with its id.
LEMMA SentSame ==
    ASSUME NEW p, sent'[p.id] = sent[p.id]
    PROVE  (InFlight(p) => InFlight(p)') /\ (Arrived(p) => Arrived(p)')
BY DEF InFlight, Travelling, Arrived, Stacked, HeaderFor, Host, Hdr

LEMMA LocalOutInv ==
    ASSUME Inv, NEW i \in Id, NEW n \in Node, NEW a \in Addr, NEW frag \in BOOLEAN,
           hk_local_out_hook(i, n, a, frag)
    PROVE  Inv'
<1>1. PICK path \in Routes(n, n, Host(a)) :
          LET iph == [id |-> i, at |-> n, stage |-> "out", frag |-> frag, protocol |-> "udp",
                      saddr |-> n, daddr |-> a, hdrs |-> <<>>]
              h   == [protocol |-> iph.protocol, first |-> iph.saddr, path |-> path, cur |-> 1]
          IN pkts' = pkts \cup
                 {OnWire([addMpOlsrHeader(iph, h) EXCEPT !.daddr = RealAddr[<<n, path[1]>>]])}
  BY DEF hk_local_out_hook
<1> DEFINE iph == [id |-> i, at |-> n, stage |-> "out", frag |-> frag, protocol |-> "udp",
                   saddr |-> n, daddr |-> a, hdrs |-> <<>>]
           h   == [protocol |-> "udp", first |-> n, path |-> path, cur |-> 1]
           r   == RealAddr[<<n, path[1]>>]
           q   == OnWire([addMpOlsrHeader(iph, h) EXCEPT !.daddr = r])
<1>2. path \in Seq(Node) /\ Len(path) >= 1 /\ path[Len(path)] = Host(a) /\ path[1] \in Node
      /\ r # NoAddr
  <2>1. PICK k \in 1..MaxHops : path \in [1..k -> Node]
    BY DEF Routes
  <2>2. path # <<>> /\ path[Len(path)] = Host(a) /\ r # NoAddr
    BY DEF Routes, IsPath
  <2> QED
    BY <2>1, <2>2, BoundAssumption
<1>3. r \in Addr /\ Host(r) = path[1] /\ n \in Addr /\ Host(n) = n
  BY <1>2, AddrAssumption DEF Addr, Host
<1>4. h \in Header
  BY <1>2, <1>3 DEF Header
<1>5. pkts' = pkts \cup {q}
  BY <1>1
<1>6. sent' = [sent EXCEPT ![i] = [src |-> n, dst |-> a]] /\ sent[i] = NotSent
      /\ UNCHANGED <<view, changes, delivered>>
  BY DEF hk_local_out_hook
<1>7. sent'[i] = [src |-> n, dst |-> a] /\ sent'[i] # NotSent
      /\ \A j \in Id : j # i => sent'[j] = sent[j]
  BY <1>6, <1>3, AddrAssumption DEF Inv, TypeOK, NotSent
<1>8. <<h>> \in Seq(Header) /\ Host(r) \in Node /\ <<h>> \o <<>> = <<h>>
  BY <1>2, <1>3, <1>4, AddToNone
<1>9. /\ q \in Datagram /\ q.id = i /\ q.at = Host(r) /\ q.stage = "wire"
      /\ q.protocol = "mpolsr" /\ q.saddr = n /\ q.daddr = r /\ q.hdrs = <<h>>
  <2> HIDE DEF h, r
  <2> QED
    BY <1>3, <1>8 DEF OnWire, addMpOlsrHeader, Datagram
<1>10. h.protocol = "udp" /\ h.first = n /\ h.path = path /\ h.cur = 1
  OBVIOUS
<1>11. InFlight(q)'
  <2> HIDE DEF h, r, q
  <2>2. HeaderFor(h, i)'
    BY <1>2, <1>7, <1>10 DEF HeaderFor, Host
  <2>3. Travelling(q)'
    BY <1>9, <2>2, <1>2, <1>3, <1>4, <1>10 DEF Travelling, Host
  <2> QED
    BY <1>9, <2>3, <1>7 DEF InFlight, Host
<1> HIDE DEF q, h, r, iph
<1>12. \A p \in pkts : p.id \in Id /\ p.id # i
  BY <1>6 DEF Inv, InFlight, TypeOK, Datagram
<1>13. \A p \in delivered : p.id \in Id /\ p.id # i
  BY <1>6 DEF Inv, TypeOK, Datagram
<1>14. \A p \in pkts' : InFlight(p)'
  BY <1>5, <1>7, <1>11, <1>12, SentSame DEF Inv
<1>15. \A p \in delivered' : Arrived(p)' /\ sent'[p.id] # NotSent
  BY <1>6, <1>7, <1>13, SentSame DEF Inv
<1>16. sent' \in [Id -> [src : Node, dst : Addr] \cup {NotSent}]
  BY <1>6 DEF Inv, TypeOK
<1>17. TypeOK'
  BY <1>5, <1>6, <1>9, <1>16 DEF Inv, TypeOK
<1> QED
  BY <1>14, <1>15, <1>17 DEF Inv

LEMMA PutInv ==
    ASSUME Inv, NEW p \in pkts, NEW q \in Datagram, InFlight(q), Replace(p, {q}),
           UNCHANGED <<view, changes, sent, delivered>>
    PROVE  Inv'
<1>1. \A o \in pkts' : o \in Datagram /\ InFlight(o)
  BY DEF Replace, Inv, TypeOK
<1>2. \A o : (InFlight(o) => InFlight(o)') /\ (Arrived(o) => Arrived(o)')
  BY SentSame
<1> QED
  BY <1>1, <1>2 DEF Inv, TypeOK

LEMMA DropInv ==
    ASSUME Inv, NEW p \in pkts, Replace(p, {}), UNCHANGED <<view, changes, sent, delivered>>
    PROVE  Inv'
<1>1. pkts' \subseteq pkts
  BY DEF Replace
<1>2. \A o : (InFlight(o) => InFlight(o)') /\ (Arrived(o) => Arrived(o)')
  BY SentSame
<1> QED
  BY <1>1, <1>2 DEF Inv, TypeOK

LEMMA DeliverInv ==
    ASSUME Inv, NEW p \in pkts, Replace(p, {}), NEW q \in Datagram, Arrived(q),
           sent[q.id] # NotSent, delivered' = delivered \cup {q},
           UNCHANGED <<view, changes, sent>>
    PROVE  Inv'
<1>1. pkts' \subseteq pkts
  BY DEF Replace
<1>2. \A o : (InFlight(o) => InFlight(o)') /\ (Arrived(o) => Arrived(o)')
  BY SentSame
<1>3. \A o \in delivered' : o \in Datagram /\ Arrived(o) /\ sent[o.id] # NotSent
  BY DEF Inv, TypeOK
<1> QED
  BY <1>1, <1>2, <1>3 DEF Inv, TypeOK

LEMMA PreRoutingInv ==
    ASSUME Inv, NEW p \in pkts, hk_pre_routing_hook(p)
    PROVE  Inv'
<1>1. p \in Datagram /\ InFlight(p) /\ Travelling(p) /\ p.at = Host(p.daddr)
      /\ sent[p.id] # NotSent /\ TypeOK
  BY DEF Inv, TypeOK, InFlight, hk_pre_routing_hook
<1>2. UNCHANGED <<view, changes, sent, delivered>>
  BY DEF hk_pre_routing_hook
<1>3. CASE Replace(p, {AtLocalIn(p)})
  <2>1. AtLocalIn(p) \in Datagram /\ InFlight(AtLocalIn(p))
    BY <1>1, LocalInSame DEF InFlight, Travelling
  <2> QED
    BY <1>2, <1>3, <2>1, PutInv
<1>4. CASE AtEnd(p) /\ Replace(p, {AtLocalIn(removeMpOlsrHeader(p))})
  <2> DEFINE r == removeMpOlsrHeader(p)
             q == AtLocalIn(r)
  <2>1. r \in Datagram /\ r.id = p.id /\ r.at = p.at /\ r.daddr = p.daddr /\ Arrived(r)
    BY <1>1, <1>4, StrippedArrives
  <2>2. Replace(p, {q})
    BY <1>4
  <2> HIDE DEF r
  <2>3. q \in Datagram /\ q.id = r.id /\ q.at = r.at /\ q.stage = "in" /\ q.daddr = r.daddr
        /\ q.protocol = r.protocol /\ q.saddr = r.saddr /\ q.hdrs = r.hdrs
    BY <2>1, LocalInSame
  <2> HIDE DEF q
  <2>4. InFlight(q)
    BY <1>1, <2>1, <2>3 DEF InFlight, Arrived
  <2> QED
    BY <1>2, <2>2, <2>3, <2>4, PutInv
<1>5. CASE CanForward(p) /\ Replace(p, {Forwarded(p)})
  BY <1>1, <1>2, <1>5, ForwardedInFlight, PutInv
<1>6. CASE \E path \in RecoveryPaths(p) : Replace(p, {AtLocalIn(Recovered(p, path))})
  <2>1. PICK path \in RecoveryPaths(p) : Replace(p, {AtLocalIn(Recovered(p, path))})
    BY <1>6
  <2> DEFINE r == Recovered(p, path)
             q == AtLocalIn(r)
  <2>2. r \in Datagram /\ r.id = p.id /\ r.at = p.at /\ r.daddr = p.daddr /\ Stacked(r)
    BY <1>1, RecoveredStacked
  <2>3. Replace(p, {q})
    BY <2>1
  <2> HIDE DEF r
  <2>4. q \in Datagram /\ q.id = r.id /\ q.at = r.at /\ q.stage = "in" /\ q.daddr = r.daddr
        /\ q.protocol = r.protocol /\ q.hdrs = r.hdrs
    BY <2>2, LocalInSame
  <2> HIDE DEF q
  <2>5. InFlight(q)
    BY <1>1, <2>2, <2>4 DEF InFlight, Stacked, Hdr
  <2> QED
    BY <1>2, <2>3, <2>4, <2>5, PutInv
<1>7. CASE Replace(p, {})
  BY <1>2, <1>7, DropInv
<1> QED
  BY <1>3, <1>4, <1>5, <1>6, <1>7 DEF hk_pre_routing_hook

LEMMA LocalInInv ==
    ASSUME Inv, NEW p \in pkts, hk_local_in_hook(p)
    PROVE  Inv'
<1>1. p \in Datagram /\ p.at = Host(p.daddr) /\ sent[p.id] # NotSent /\ TypeOK
      /\ (Travelling(p) \/ Arrived(p) \/ Stacked(p)) /\ UNCHANGED <<view, changes, sent>>
  BY DEF Inv, TypeOK, InFlight, hk_local_in_hook
<1>2. checkCurrentAddr(p) /\ p.protocol = "mpolsr" => Travelling(p)
  BY <1>1, StackedStops DEF Arrived
<1>3. CASE p.protocol # "mpolsr" /\ Replace(p, {}) /\ delivered' = delivered \cup {p}
  <2>1. Arrived(p)
    BY <1>1, <1>3 DEF Travelling, Stacked
  <2> QED
    BY <1>1, <1>3, <2>1, DeliverInv
<1>4. CASE p.protocol = "mpolsr" /\ AtEnd(p) /\ Replace(p, {})
           /\ delivered' = delivered \cup {removeMpOlsrHeader(p)}
  <2>1. Travelling(p)
    BY <1>2, <1>4 DEF AtEnd
  <2> DEFINE q == removeMpOlsrHeader(p)
  <2>2. q \in Datagram /\ q.id = p.id /\ Arrived(q)
    BY <2>1, <1>1, <1>4, StrippedArrives
  <2>3. delivered' = delivered \cup {q}
    BY <1>4
  <2> HIDE DEF q
  <2> QED
    BY <1>1, <1>4, <2>2, <2>3, DeliverInv
<1>5. CASE p.protocol = "mpolsr" /\ CanForward(p) /\ SendTo(p) /\ UNCHANGED delivered
  <2>1. Travelling(p)
    BY <1>2, <1>5 DEF CanForward
  <2>2. Replace(p, {Forwarded(p)}) /\ UNCHANGED <<view, changes, sent, delivered>>
    BY <1>1, <1>5 DEF SendTo
  <2> QED
    BY <1>1, <1>5, <2>1, <2>2, ForwardedInFlight, PutInv
<1>6. CASE Replace(p, {}) /\ UNCHANGED delivered
  BY <1>1, <1>6, DropInv
<1> QED
  BY <1>3, <1>4, <1>5, <1>6 DEF hk_local_in_hook

LEMMA EnvironmentInv ==
    ASSUME Inv, (\E p \in pkts : Lose(p)) \/ (\E n \in Node, e \in Node \X Node : ChangeView(n, e))
    PROVE  Inv'
<1>1. CASE \E p \in pkts : Lose(p)
  <2>1. PICK p \in pkts : Lose(p)
    BY <1>1
  <2>2. pkts' \subseteq pkts /\ changes' \in 0..MaxChanges /\ UNCHANGED <<view, sent, delivered>>
    BY <2>1, BoundAssumption DEF Lose, Replace, Inv, TypeOK
  <2>3. \A q : (InFlight(q) => InFlight(q)') /\ (Arrived(q) => Arrived(q)')
    BY <2>2, SentSame
  <2> QED
    BY <2>2, <2>3 DEF Inv, TypeOK
<1>2. CASE \E n \in Node, e \in Node \X Node : ChangeView(n, e)
  <2>1. PICK n \in Node, e \in Node \X Node : ChangeView(n, e)
    BY <1>2
  <2>2. view' \in [Node -> SUBSET (Node \X Node)] /\ changes' \in 0..MaxChanges
        /\ UNCHANGED <<sent, pkts, delivered>>
    BY <2>1, BoundAssumption DEF ChangeView, Inv, TypeOK
  <2>3. \A q : (InFlight(q) => InFlight(q)') /\ (Arrived(q) => Arrived(q)')
    BY <2>2, SentSame
  <2> QED
    BY <2>2, <2>3 DEF Inv, TypeOK
<1> QED
  BY <1>1, <1>2

LEMMA InvStep == Inv /\ [Next]_vars => Inv'
<1> SUFFICES ASSUME Inv, [Next]_vars PROVE Inv'
  OBVIOUS
<1>1. CASE UNCHANGED vars
  <2>1. \A q : (InFlight(q) => InFlight(q)') /\ (Arrived(q) => Arrived(q)')
    BY <1>1, SentSame DEF vars
  <2> QED
    BY <1>1, <2>1 DEF vars, Inv, TypeOK
<1> QED
  BY <1>1, LocalOutInv, PreRoutingInv, LocalInInv, EnvironmentInv DEF Next

LEMMA InvAlways == Spec => []Inv
BY InitInv, InvStep, PTL DEF Spec

\* On any network and with any views, the datagrams on the way and delivered keep
\* to the layout of the IP and MP-OLSR headers, whatever the hooks do to them.
THEOREM ForwardingTypeCorrect == Spec => []TypeOK
<1>1. Inv => TypeOK
  BY DEF Inv
<1> QED
  BY <1>1, InvAlways, PTL

\* On any network and with any views, what an application receives was sent to
\* its host and is as it was sent.
THEOREM OnlyIntactDelivered == Spec => []DeliveredIntact
<1>1. Inv => DeliveredIntact
  BY DEF Inv, Arrived, DeliveredIntact
<1> QED
  BY <1>1, InvAlways, PTL

\* On any network and with any views, the IP header and the one MP-OLSR header of
\* a datagram between two hosts agree about where it is.
THEOREM HeadersAlwaysAgree == Spec => []HeadersAgree
<1>1. Inv => HeadersAgree
  <2> SUFFICES ASSUME Inv, NEW p \in pkts, p.stage = "wire"
               PROVE /\ p.protocol = "mpolsr" /\ Len(p.hdrs) = 1
                     /\ Hdr(p).cur \in DOMAIN Hdr(p).path
                     /\ Hdr(p).path[Hdr(p).cur] = Host(p.daddr)
                     /\ Host(p.saddr) = IF Hdr(p).cur = 1 THEN Hdr(p).first
                                                          ELSE Hdr(p).path[Hdr(p).cur - 1]
    BY DEF HeadersAgree
  <2>1. p \in Datagram /\ Travelling(p) /\ p.at = Host(p.daddr)
    BY DEF Inv, TypeOK, InFlight
  <2>2. /\ Hdr(p) \in Header /\ p.hdrs = <<Hdr(p)>> /\ HeaderFor(Hdr(p), p.id)
        /\ Hdr(p).path[Hdr(p).cur] = p.at
        /\ Host(p.saddr) = IF Hdr(p).cur = 1 THEN Hdr(p).first ELSE Hdr(p).path[Hdr(p).cur - 1]
    BY <2>1, TravellingFacts
  <2>3. Len(<<Hdr(p)>>) = 1 /\ Hdr(p).cur \in DOMAIN Hdr(p).path
    BY <2>2 DEF HeaderFor
  <2> QED
    BY <2>1, <2>2, <2>3 DEF Travelling
<1> QED
  BY <1>1, InvAlways, PTL
-----------------------------------------------------------------------------
(***************************************************************************)
(* Forwarding implements DatagramService, for any hosts, addresses, views  *)
(* and datagrams.                                                          *)
(*                                                                         *)
(* Under the invariant every step has one of five shapes (StepShape),      *)
(* which forget paths and headers.  Each shape keeps datagrams unique      *)
(* (Unique) and is a step of the service or changes nothing the service    *)
(* sees.                                                                   *)
(***************************************************************************)

\* one copy of a datagram, in the network or with an application
Unique ==
    /\ \A p, q \in pkts : p.id = q.id => p = q
    /\ \A p, q \in delivered : p.id = q.id => p = q
    /\ \A p \in pkts, q \in delivered : p.id # q.id

Sends(i, n, a, q) ==
    /\ i \in Id /\ n \in Node /\ a \in Addr
    /\ sent[i] = NotSent /\ sent' = [sent EXCEPT ![i] = [src |-> n, dst |-> a]]
    /\ q.id = i /\ pkts' = pkts \cup {q} /\ delivered' = delivered

Moves(p, q) ==
    /\ p \in pkts /\ q.id = p.id
    /\ Replace(p, {q}) /\ UNCHANGED <<sent, delivered>>

Drops(p) == p \in pkts /\ Replace(p, {}) /\ UNCHANGED <<sent, delivered>>

Delivers(p, q) ==
    /\ p \in pkts /\ q.id = p.id /\ Arrived(q)
    /\ Replace(p, {}) /\ delivered' = delivered \cup {q} /\ UNCHANGED sent

Shape ==
    \/ \E i, n, a, q : Sends(i, n, a, q)
    \/ \E p, q : Moves(p, q)
    \/ \E p : Drops(p)
    \/ \E p, q : Delivers(p, q)
    \/ UNCHANGED <<sent, pkts, delivered>>
-----------------------------------------------------------------------------
(* The shape of a step *)

LEMMA LocalOutShape ==
    ASSUME Inv, NEW i \in Id, NEW n \in Node, NEW a \in Addr, NEW frag \in BOOLEAN,
           hk_local_out_hook(i, n, a, frag)
    PROVE  Shape
<1>1. PICK path \in Routes(n, n, Host(a)) :
          LET iph == [id |-> i, at |-> n, stage |-> "out", frag |-> frag, protocol |-> "udp",
                      saddr |-> n, daddr |-> a, hdrs |-> <<>>]
              h   == [protocol |-> iph.protocol, first |-> iph.saddr, path |-> path, cur |-> 1]
          IN pkts' = pkts \cup
                 {OnWire([addMpOlsrHeader(iph, h) EXCEPT !.daddr = RealAddr[<<n, path[1]>>]])}
  BY DEF hk_local_out_hook
<1> DEFINE iph == [id |-> i, at |-> n, stage |-> "out", frag |-> frag, protocol |-> "udp",
                   saddr |-> n, daddr |-> a, hdrs |-> <<>>]
           h   == [protocol |-> iph.protocol, first |-> iph.saddr, path |-> path, cur |-> 1]
           q   == OnWire([addMpOlsrHeader(iph, h) EXCEPT !.daddr = RealAddr[<<n, path[1]>>]])
<1>2. pkts' = pkts \cup {q}
  BY <1>1
<1>3. q.id = i
  <2> HIDE DEF h
  <2> QED
    BY DEF OnWire, addMpOlsrHeader
<1> HIDE DEF q
<1>4. Sends(i, n, a, q)
  BY <1>2, <1>3 DEF Sends, hk_local_out_hook
<1> QED
  BY <1>4 DEF Shape

LEMMA ForwardedId ==
    ASSUME NEW p \in Datagram
    PROVE  Forwarded(p).id = p.id
<1> DEFINE hs == <<moveToNextHop(Hdr(p))>> \o Tail(p.hdrs)
           r  == RealAddr[<<p.at, NextAddr(p)>>]
<1>1. Forwarded(p) = OnWire([p EXCEPT !.daddr = r, !.saddr = p.daddr, !.hdrs = hs])
  BY DEF Forwarded
<1> HIDE DEF hs, r
<1> QED
  BY <1>1 DEF OnWire, Datagram

LEMMA PreRoutingShape ==
    ASSUME Inv, NEW p \in pkts, hk_pre_routing_hook(p)
    PROVE  Shape
<1>1. p \in Datagram /\ Travelling(p) /\ TypeOK /\ UNCHANGED <<sent, delivered>>
  BY DEF Inv, TypeOK, InFlight, hk_pre_routing_hook
<1>2. ASSUME NEW q, q.id = p.id, Replace(p, {q}) PROVE Shape
  BY <1>1, <1>2 DEF Shape, Moves
<1>3. CASE Replace(p, {AtLocalIn(p)})
  BY <1>1, <1>2, <1>3, LocalInSame
<1>4. CASE AtEnd(p) /\ Replace(p, {AtLocalIn(removeMpOlsrHeader(p))})
  <2>1. removeMpOlsrHeader(p) \in Datagram /\ removeMpOlsrHeader(p).id = p.id
    BY <1>1, <1>4, StrippedArrives
  <2>2. AtLocalIn(removeMpOlsrHeader(p)).id = p.id
    BY <2>1, LocalInSame
  <2> QED
    BY <1>2, <1>4, <2>2
<1>5. CASE Replace(p, {Forwarded(p)})
  BY <1>1, <1>2, <1>5, ForwardedId
<1>6. CASE \E path \in RecoveryPaths(p) : Replace(p, {AtLocalIn(Recovered(p, path))})
  <2>1. PICK path \in RecoveryPaths(p) : Replace(p, {AtLocalIn(Recovered(p, path))})
    BY <1>6
  <2>2. Recovered(p, path) \in Datagram /\ Recovered(p, path).id = p.id
    BY <1>1, RecoveredStacked
  <2>3. AtLocalIn(Recovered(p, path)).id = p.id
    BY <2>2, LocalInSame
  <2> QED
    BY <1>2, <2>1, <2>3
<1>7. CASE Replace(p, {})
  BY <1>1, <1>7 DEF Shape, Drops
<1> QED
  BY <1>3, <1>4, <1>5, <1>6, <1>7 DEF hk_pre_routing_hook

LEMMA LocalInShape ==
    ASSUME Inv, NEW p \in pkts, hk_local_in_hook(p)
    PROVE  Shape
<1>1. p \in Datagram /\ TypeOK /\ UNCHANGED sent
      /\ (Travelling(p) \/ Arrived(p) \/ Stacked(p))
  BY DEF Inv, TypeOK, InFlight, hk_local_in_hook
<1>2. checkCurrentAddr(p) /\ p.protocol = "mpolsr" => Travelling(p)
  BY <1>1, StackedStops DEF Arrived
<1>3. CASE p.protocol # "mpolsr" /\ Replace(p, {}) /\ delivered' = delivered \cup {p}
  <2>1. Arrived(p)
    BY <1>1, <1>3 DEF Travelling, Stacked
  <2>2. Delivers(p, p)
    BY <1>1, <1>3, <2>1 DEF Delivers
  <2> QED
    BY <2>2 DEF Shape
<1>4. CASE p.protocol = "mpolsr" /\ AtEnd(p) /\ Replace(p, {})
           /\ delivered' = delivered \cup {removeMpOlsrHeader(p)}
  <2> DEFINE q == removeMpOlsrHeader(p)
  <2>1. q.id = p.id /\ Arrived(q)
    BY <1>1, <1>2, <1>4, StrippedArrives DEF AtEnd
  <2>2. delivered' = delivered \cup {q}
    BY <1>4
  <2> HIDE DEF q
  <2>3. Delivers(p, q)
    BY <1>1, <1>4, <2>1, <2>2 DEF Delivers
  <2> QED
    BY <2>3 DEF Shape
<1>5. CASE SendTo(p) /\ UNCHANGED delivered
  <2>1. Moves(p, Forwarded(p))
    BY <1>1, <1>5, ForwardedId DEF Moves, SendTo
  <2> QED
    BY <2>1 DEF Shape
<1>6. CASE Replace(p, {}) /\ UNCHANGED delivered
  BY <1>1, <1>6 DEF Shape, Drops
<1> QED
  BY <1>3, <1>4, <1>5, <1>6 DEF hk_local_in_hook

LEMMA StepShape == Inv /\ [Next]_vars => Shape
<1> SUFFICES ASSUME Inv, [Next]_vars PROVE Shape
  OBVIOUS
<1>1. CASE UNCHANGED vars
  BY <1>1 DEF vars, Shape
<1>2. ASSUME NEW p \in pkts, Lose(p) PROVE Shape
  BY <1>2 DEF Lose, Shape, Drops
<1>3. ASSUME NEW n \in Node, NEW e \in Node \X Node, ChangeView(n, e) PROVE Shape
  BY <1>3 DEF ChangeView, Shape
<1> QED
  BY <1>1, <1>2, <1>3, LocalOutShape, PreRoutingShape, LocalInShape DEF Next
-----------------------------------------------------------------------------
(* Datagrams are unique *)

\* what was not sent is nowhere
LEMMA NotSentNowhere ==
    ASSUME Inv, NEW i, sent[i] = NotSent
    PROVE  (\A p \in pkts : p.id # i) /\ (\A p \in delivered : p.id # i)
BY DEF Inv, InFlight

LEMMA UniqueStep == Inv /\ Unique /\ [Next]_vars => Unique'
<1> SUFFICES ASSUME Inv, Unique, Shape PROVE Unique'
  BY StepShape
<1>1. ASSUME NEW i, NEW n, NEW a, NEW q, Sends(i, n, a, q) PROVE Unique'
  BY <1>1, NotSentNowhere DEF Sends, Unique
<1>2. ASSUME NEW p, NEW q, Moves(p, q) PROVE Unique'
  BY <1>2 DEF Moves, Replace, Unique
<1>3. ASSUME NEW p, Drops(p) PROVE Unique'
  BY <1>3 DEF Drops, Replace, Unique
<1>4. ASSUME NEW p, NEW q, Delivers(p, q) PROVE Unique'
  BY <1>4 DEF Delivers, Replace, Unique
<1>5. CASE UNCHANGED <<sent, pkts, delivered>>
  BY <1>5 DEF Unique
<1> QED
  BY <1>1, <1>2, <1>3, <1>4, <1>5 DEF Shape

LEMMA UniqueAlways == Spec => [](Inv /\ Unique)
<1>1. Init => Unique
  BY DEF Init, Unique
<1> QED
  BY <1>1, InitInv, InvStep, UniqueStep, PTL DEF Spec

\* On any network and with any views a datagram is in at most one place and is
\* delivered at most once.
THEOREM NeverDuplicated == Spec => []NoDuplicate
<1>1. Unique => NoDuplicate
  BY DEF Unique, NoDuplicate
<1> QED
  BY <1>1, UniqueAlways, PTL
-----------------------------------------------------------------------------
(* The steps of the service *)

LEMMA SendsRefines ==
    ASSUME Inv, NEW i, NEW n, NEW a, NEW q, Sends(i, n, a, q)
    PROVE  Service!Send(i, n, a)
<1>1. i \in Id /\ n \in Node /\ sent \in [Id -> [src : Node, dst : Addr] \cup {NotSent}]
  BY DEF Sends, Inv, TypeOK
<1>2. sent'[i] # NotSent /\ \A j \in Id \ {i} : sent'[j] = sent[j]
  BY <1>1, AddrAssumption DEF Sends, NotSent, Addr
<1>3. Fate[i] = "idle"
  BY <1>1 DEF Fate, Sends
<1>4. Fate' = [Fate EXCEPT ![i] = "travelling"]
  BY <1>1, <1>2 DEF Fate, Sends
<1>5. Inbox' = Inbox
  BY DEF Inbox, Sends
<1> QED
  BY <1>3, <1>4, <1>5 DEF Service!Send, Sends

LEMMA MovesRefines ==
    ASSUME NEW p, NEW q, Moves(p, q)
    PROVE  UNCHANGED <<sent, Fate, Inbox>>
<1>1. \A i : (\E o \in pkts' : o.id = i) <=> (\E o \in pkts : o.id = i)
  BY DEF Moves, Replace
<1>2. Fate' = Fate
  BY <1>1 DEF Fate, Moves
<1> QED
  BY <1>2 DEF Moves, Inbox

LEMMA DropsRefines ==
    ASSUME Inv, Unique, NEW p, Drops(p)
    PROVE  p.id \in Id /\ Service!Lose(p.id)
<1>1. p.id \in Id /\ sent[p.id] # NotSent
  BY DEF Drops, Inv, TypeOK, Datagram, InFlight
<1>2. Fate[p.id] = "travelling"
  BY <1>1 DEF Fate, Drops
<1>3. /\ ~\E o \in pkts' : o.id = p.id
      /\ ~\E o \in delivered : o.id = p.id
      /\ \A i : i # p.id => ((\E o \in pkts' : o.id = i) <=> (\E o \in pkts : o.id = i))
  BY DEF Drops, Replace, Unique
<1>4. Fate' = [Fate EXCEPT ![p.id] = "lost"]
  <2>1. Fate'[p.id] = "lost"
    BY <1>1, <1>3 DEF Fate, Drops
  <2>2. ASSUME NEW j \in Id, j # p.id PROVE Fate'[j] = Fate[j]
    BY <1>3, <2>2 DEF Fate, Drops
  <2>3. Fate = [j \in Id |-> Fate[j]] /\ Fate' = [j \in Id |-> Fate'[j]]
    BY DEF Fate
  <2> QED
    BY <1>1, <2>1, <2>2, <2>3
<1>5. Inbox' = Inbox
  BY DEF Inbox, Drops
<1> QED
  BY <1>1, <1>2, <1>4, <1>5 DEF Service!Lose, Drops

LEMMA DeliversRefines ==
    ASSUME Inv, Unique, NEW p, NEW q, Delivers(p, q)
    PROVE  p.id \in Id /\ Service!Deliver(p.id)
<1> DEFINE i == p.id
           n == Owner[sent[i].dst]
<1>1. i \in Id /\ sent[i] # NotSent
  BY DEF Delivers, Inv, TypeOK, Datagram, InFlight
<1>2. n \in Node /\ q.id = i /\ q.at = n /\ q.saddr = sent[i].src
  <2>1. sent[i].dst \in Addr
    BY <1>1 DEF Inv, TypeOK
  <2> QED
    BY <2>1, AddrAssumption DEF Delivers, Arrived, Host
<1>3. Fate[i] = "travelling"
  BY <1>1 DEF Fate, Delivers
<1>4. /\ ~\E o \in pkts' : o.id = i
      /\ \E o \in delivered' : o.id = i
      /\ \A j : j # i => /\ (\E o \in pkts' : o.id = j) <=> (\E o \in pkts : o.id = j)
                         /\ (\E o \in delivered' : o.id = j) <=> (\E o \in delivered : o.id = j)
  BY DEF Delivers, Replace, Unique
<1>5. Fate' = [Fate EXCEPT ![i] = "delivered"]
  <2>1. Fate'[i] = "delivered"
    BY <1>1, <1>4 DEF Fate, Delivers
  <2>2. ASSUME NEW j \in Id, j # i PROVE Fate'[j] = Fate[j]
    BY <1>4, <2>2 DEF Fate, Delivers
  <2>3. Fate = [j \in Id |-> Fate[j]] /\ Fate' = [j \in Id |-> Fate'[j]]
    BY DEF Fate
  <2> QED
    BY <1>1, <2>1, <2>2, <2>3
<1>6. Inbox' = [Inbox EXCEPT ![n] = @ \cup {[id |-> i, from |-> sent[i].src]}]
  <2> DEFINE In(S, k) == {[id |-> o.id, from |-> o.saddr] : o \in {r \in S : r.at = k}}
  <2>1. delivered' = delivered \cup {q}
    BY DEF Delivers
  <2>2. In(delivered', n) = In(delivered, n) \cup {[id |-> i, from |-> sent[i].src]}
    BY <1>2, <2>1
  <2>3. ASSUME NEW k \in Node, k # n PROVE In(delivered', k) = In(delivered, k)
    BY <1>2, <2>1, <2>3
  <2>4. Inbox = [k \in Node |-> In(delivered, k)] /\ Inbox' = [k \in Node |-> In(delivered', k)]
    BY DEF Inbox
  <2> HIDE DEF In, n, i
  <2> QED
    BY <1>2, <2>2, <2>3, <2>4
<1> QED
  BY <1>1, <1>3, <1>5, <1>6 DEF Service!Deliver, Delivers

LEMMA StepRefines ==
    Inv /\ Unique /\ [Next]_vars => [Service!Next]_(Service!vars)
<1> SUFFICES ASSUME Inv, Unique, Shape PROVE [Service!Next]_(Service!vars)
  BY StepShape
<1>1. ASSUME NEW i, NEW n, NEW a, NEW q, Sends(i, n, a, q) PROVE Service!Next
  BY <1>1, SendsRefines DEF Service!Next, Sends
<1>2. ASSUME NEW p, NEW q, Moves(p, q) PROVE UNCHANGED Service!vars
  BY <1>2, MovesRefines DEF Service!vars
<1>3. ASSUME NEW p, Drops(p) PROVE Service!Next
  BY <1>3, DropsRefines DEF Service!Next
<1>4. ASSUME NEW p, NEW q, Delivers(p, q) PROVE Service!Next
  BY <1>4, DeliversRefines DEF Service!Next
<1>5. CASE UNCHANGED <<sent, pkts, delivered>>
  BY <1>5 DEF Service!vars, Fate, Inbox
<1> QED
  BY <1>1, <1>2, <1>3, <1>4, <1>5 DEF Shape

\* On any network and with any views, the hooks of all hosts together implement
\* the datagram service.
THEOREM HooksImplementService == Spec => ImplementsService
<1>1. Init => Service!Init
  BY DEF Init, Service!Init, Fate, Inbox
<1> QED
  BY <1>1, UniqueAlways, StepRefines, PTL DEF Spec, ImplementsService, Service!Spec
=============================================================================
