----------------------------- MODULE Forwarding -----------------------------
(***************************************************************************)
(* Datagrams between the hosts of an MP-OLSR network: the three netfilter  *)
(* hooks of ser_routing (hook_local_out.cpp, hook_pre_routing.cpp,         *)
(* hook_local_in.cpp) and the MP-OLSR header they put between the IP       *)
(* header and the data (mpolsrpacket.cpp).                                 *)
(*                                                                         *)
(* Every host has its own view of the topology, which changes while        *)
(* datagrams are on their way.  A lookup (SerPath) gives some simple path  *)
(* over the links of the host's view.  Netfilter, routing by the IP        *)
(* destination and reassembly are the kernel's (external).  Sizes, UDP     *)
(* ports and checksums are left out.                                       *)
(***************************************************************************)
EXTENDS Naturals, Sequences

CONSTANTS
    Node,       \* hosts, named by their main (olsrd) address
    Alias,      \* the other interface addresses
    NoAddr,     \* the IP 0
    Owner,      \* Owner[a]: the host with address a
    RealAddr,   \* RealAddr[<<n, o>>]: dst_alias_ip of n's local link to o, or NoAddr
    Graphs,     \* the sets of links a view starts with
    Id,         \* bound: the datagrams the applications send
    MaxChanges, \* bound: changes of a view and lost datagrams
    MaxHops     \* bound: no simple path is longer

Addr == Node \cup Alias
Host(a) == Owner[a]

ASSUME AddrAssumption ==
    /\ Node \cap Alias = {}
    /\ NoAddr \notin Addr
    /\ Owner \in [Addr -> Node]
    /\ \A n \in Node : Owner[n] = n
    /\ RealAddr \in [Node \X Node -> Addr \cup {NoAddr}]
    /\ \A e \in Node \X Node : RealAddr[e] # NoAddr => Owner[RealAddr[e]] = e[2]

ASSUME GraphAssumption == Graphs \subseteq SUBSET (Node \X Node)
ASSUME BoundAssumption == MaxChanges \in Nat /\ MaxHops \in Nat

VARIABLES
    view,       \* the links each host knows
    changes,    \* changes of a view and lost datagrams so far
    sent,       \* what the applications asked for: source and destination address
    pkts,       \* the datagrams in the network
    delivered   \* what the applications received

vars == <<view, changes, sent, pkts, delivered>>

NotSent == [src |-> NoAddr, dst |-> NoAddr]

IsPath(g, s, p, d) ==
    /\ p # <<>>
    /\ p[Len(p)] = d
    /\ \A i, j \in DOMAIN p : p[i] = p[j] => i = j
    /\ \A i \in DOMAIN p : p[i] # s /\ <<IF i = 1 THEN s ELSE p[i - 1], p[i]>> \in g

\* pth_find_datagram_path at host n: the paths it may return whose first hop has
\* an address, from a source address the database knows.  The database has the
\* main address of its own host and no other interface of it.
Routes(n, src, d) ==
    {p \in UNION {[1..k -> Node] : k \in 1..MaxHops} :
        /\ src = n
        /\ IsPath(view[n], n, p, d)
        /\ RealAddr[<<n, p[1]>>] # NoAddr}

-----------------------------------------------------------------------------
(* The MP-OLSR header: protocol, first_node, the main addresses of the     *)
(* hops and the index of the current one.                                  *)

\* getCurrentAddr, getNextAddr, getLastAddr: getHopAddr gives 0 outside the path
getHopAddr(h, i) == IF i \in DOMAIN h.path THEN h.path[i] ELSE NoAddr

isEndOfPath(h) == h.cur = Len(h.path) /\ h.cur >= 1

moveToNextHopStay(h) == h                   \* mutant: cur is not written back
moveToNextHop(h) == [h EXCEPT !.cur = @ + 1]

addMpOlsrHeader(p, h) == [p EXCEPT !.protocol = "mpolsr", !.hdrs = <<h>> \o @]

removeMpOlsrHeader(p) ==
    [p EXCEPT !.protocol = Head(p.hdrs).protocol, !.saddr = Head(p.hdrs).first,
              !.hdrs = Tail(p.hdrs)]

\* Where a datagram is: with the LOCAL_IN hook of its host, or on its way to
\* the PRE_ROUTING hook of the host its IP destination belongs to (external).
AtLocalIn(p) == [p EXCEPT !.stage = "in"]
OnWire(p) == [p EXCEPT !.stage = "wire", !.at = Host(p.daddr)]

-----------------------------------------------------------------------------
(* The hooks *)

\* An application on n sends to address a; frag: the datagram is fragmented once
\* it has its MP-OLSR header.  Without a route the hook drops it.
hk_local_out_hook(i, n, a, frag) ==
    /\ sent[i] = NotSent
    /\ Host(a) # n
    /\ \E path \in Routes(n, n, Host(a)) :
          LET iph == [id |-> i, at |-> n, stage |-> "out", frag |-> frag, protocol |-> "udp",
                      saddr |-> n, daddr |-> a, hdrs |-> <<>>]
              h   == [protocol |-> iph.protocol, first |-> iph.saddr, path |-> path, cur |-> 1]
          IN pkts' = pkts \cup
                 {OnWire([addMpOlsrHeader(iph, h) EXCEPT !.daddr = RealAddr[<<n, path[1]>>]])}
    /\ sent' = [sent EXCEPT ![i] = [src |-> n, dst |-> a]]
    /\ UNCHANGED <<view, changes, delivered>>

Hdr(p) == Head(p.hdrs)
NextAddr(p) == getHopAddr(Hdr(p), Hdr(p).cur + 1)

checkCurrentAddrSkip(p) == TRUE             \* mutant: the check is left out

\* pth_checkCurrentAddr
checkCurrentAddr(p) == getHopAddr(Hdr(p), Hdr(p).cur) = p.at

\* pth_checkNextHop: no local link to the next hop, the path has to be recovered
NextHopLost(p) ==
    /\ checkCurrentAddr(p)
    /\ ~isEndOfPath(Hdr(p))
    /\ NextAddr(p) # NoAddr
    /\ <<p.at, NextAddr(p)>> \notin view[p.at]

\* the datagram is sent on towards the next hop of its path
CanForward(p) ==
    /\ checkCurrentAddr(p)
    /\ ~isEndOfPath(Hdr(p))
    /\ NextAddr(p) # NoAddr
    /\ <<p.at, NextAddr(p)>> \in view[p.at]
    /\ RealAddr[<<p.at, NextAddr(p)>>] # NoAddr

Forwarded(p) ==
    OnWire([p EXCEPT !.daddr = RealAddr[<<p.at, NextAddr(p)>>], !.saddr = p.daddr,
                     !.hdrs = <<moveToNextHop(Hdr(p))>> \o Tail(p.hdrs)])

AtEnd(p) == checkCurrentAddr(p) /\ isEndOfPath(Hdr(p))

\* Route recovery from this host to the last hop of the path
RecoveryPaths(p) == Routes(p.at, p.daddr, getHopAddr(Hdr(p), Len(Hdr(p).path)))

\* hk_route_recovery_pre_routing copies the datagram behind a new header; the
\* addresses it then changes are those of the original, not of the copy.
Recovered(p, path) ==
    addMpOlsrHeader(p, [protocol |-> Hdr(p).protocol, first |-> p.daddr, path |-> path, cur |-> 1])

Replace(p, S) == pkts' = (pkts \ {p}) \cup S

SendToAccept(p) == pkts' = pkts \cup {Forwarded(p)}     \* mutant: verdict ACCEPT

\* forward through the raw socket and drop what the kernel holds
SendTo(p) == Replace(p, {Forwarded(p)})

hk_pre_routing_hook(p) ==
    /\ p.stage = "wire"
    /\ \/ p.frag /\ Replace(p, {AtLocalIn(p)})
       \/ ~p.frag /\ AtEnd(p) /\ Replace(p, {AtLocalIn(removeMpOlsrHeader(p))})
       \/ ~p.frag /\ CanForward(p) /\ Replace(p, {Forwarded(p)})
       \/ /\ ~p.frag /\ NextHopLost(p)
          /\ \E path \in RecoveryPaths(p) : Replace(p, {AtLocalIn(Recovered(p, path))})
       \/ ~p.frag /\ NextHopLost(p) /\ RecoveryPaths(p) = {} /\ Replace(p, {})
       \/ ~p.frag /\ ~(AtEnd(p) \/ CanForward(p) \/ NextHopLost(p)) /\ Replace(p, {})
    /\ UNCHANGED <<view, changes, sent, delivered>>

\* Datagrams come here whole: as UDP behind the PRE_ROUTING hook, or with their
\* MP-OLSR header when they were fragmented or recovered.  Route recovery builds a
\* new datagram and sends nothing.
hk_local_in_hook(p) ==
    /\ p.stage = "in"
    /\ \/ /\ p.protocol # "mpolsr"
          /\ Replace(p, {}) /\ delivered' = delivered \cup {p}
       \/ /\ p.protocol = "mpolsr" /\ AtEnd(p)
          /\ Replace(p, {}) /\ delivered' = delivered \cup {removeMpOlsrHeader(p)}
       \/ /\ p.protocol = "mpolsr" /\ CanForward(p)
          /\ SendTo(p) /\ UNCHANGED delivered
       \/ /\ p.protocol = "mpolsr" /\ ~AtEnd(p) /\ ~CanForward(p)
          /\ Replace(p, {}) /\ UNCHANGED delivered
    /\ UNCHANGED <<view, changes, sent>>

-----------------------------------------------------------------------------
(* The environment (external) *)

ChangeView(n, e) ==
    /\ changes < MaxChanges
    /\ changes' = changes + 1
    /\ view' = [view EXCEPT ![n] = IF e \in @ THEN @ \ {e} ELSE @ \cup {e}]
    /\ UNCHANGED <<sent, pkts, delivered>>

Lose(p) ==
    /\ changes < MaxChanges /\ p.stage = "wire"
    /\ changes' = changes + 1
    /\ Replace(p, {})
    /\ UNCHANGED <<view, sent, delivered>>

Init ==
    /\ view \in [Node -> Graphs]
    /\ changes = 0
    /\ sent = [i \in Id |-> NotSent]
    /\ pkts = {}
    /\ delivered = {}

Next ==
    \/ \E i \in Id, n \in Node, a \in Addr, frag \in BOOLEAN : hk_local_out_hook(i, n, a, frag)
    \/ \E p \in pkts : hk_pre_routing_hook(p) \/ hk_local_in_hook(p) \/ Lose(p)
    \/ \E n \in Node, e \in Node \X Node : ChangeView(n, e)

Spec == Init /\ [][Next]_vars

\* netfilter hands every queued datagram to the router, which answers each
FairSpec == Spec /\ WF_vars(\E p \in pkts : hk_pre_routing_hook(p) \/ hk_local_in_hook(p))

-----------------------------------------------------------------------------
(* Properties *)

Header == [protocol : {"udp"}, first : Addr, path : Seq(Node), cur : Nat]
Datagram == [id : Id, at : Node, stage : {"wire", "in"}, frag : BOOLEAN,
             protocol : {"udp", "mpolsr"}, saddr : Addr, daddr : Addr, hdrs : Seq(Header)]

\* Type invariant.
TypeOK ==
    /\ view \in [Node -> SUBSET (Node \X Node)]
    /\ changes \in 0..MaxChanges
    /\ sent \in [Id -> [src : Node, dst : Addr] \cup {NotSent}]
    /\ pkts \subseteq Datagram
    /\ delivered \subseteq Datagram

\* Between two hosts the IP header and the MP-OLSR header agree: the IP
\* destination is an interface of the current hop of the path, the source one of
\* the hop before, and there is one MP-OLSR header.
HeadersAgree ==
    \A p \in pkts : p.stage = "wire" =>
        /\ p.protocol = "mpolsr" /\ Len(p.hdrs) = 1
        /\ Hdr(p).cur \in DOMAIN Hdr(p).path
        /\ Hdr(p).path[Hdr(p).cur] = Host(p.daddr)
        /\ Host(p.saddr) = IF Hdr(p).cur = 1 THEN Hdr(p).first ELSE Hdr(p).path[Hdr(p).cur - 1]

\* An application only receives what was sent to its host, as UDP, without any
\* MP-OLSR header and with the original source address, whether it came whole or
\* in fragments, and also when hosts on the way disagree about the topology or
\* tried to recover the route.
DeliveredIntact ==
    \A p \in delivered :
        /\ p.protocol = "udp"
        /\ p.hdrs = <<>>
        /\ p.at = Host(sent[p.id].dst)
        /\ p.saddr = sent[p.id].src

\* A datagram is in at most one place, and is delivered at most once: the LOCAL_IN
\* hook that sends it on through the raw socket drops the original.
NoDuplicate ==
    /\ \A p, q \in pkts \cup delivered : p.id = q.id => p = q
    /\ pkts \cap delivered = {}

\* The refinement mapping to DatagramService: a datagram travels while a hook or
\* the network has it.
Fate == [i \in Id |->
    IF sent[i] = NotSent THEN "idle"
    ELSE IF \E p \in pkts : p.id = i THEN "travelling"
    ELSE IF \E p \in delivered : p.id = i THEN "delivered"
    ELSE "lost"]
Inbox == [n \in Node |-> {[id |-> p.id, from |-> p.saddr] : p \in {q \in delivered : q.at = n}}]

Service == INSTANCE DatagramService WITH request <- sent, fate <- Fate, inbox <- Inbox

\* The hooks of all hosts together are a datagram service: however they forward,
\* strip, recover and drop, every step is one of the service's or none, nothing is
\* delivered after it was lost, twice, or from anybody but its source.
ImplementsService == Service!Spec

\* With a topology all hosts agree on, and that does not change, every datagram
\* arrives, unless the radio loses one.
AllDelivered ==
    \A i \in Id : (sent[i] # NotSent) ~>
        \/ \E p \in delivered : p.id = i
        \/ changes > 0
        \/ \E n, o \in Node : view[n] # view[o]

\* "update protocol number and next hop" (PRE_ROUTING), "it's to late to forward
\* this datagram [...] we must send an other with same data" (LOCAL_IN): a datagram
\* that a hook finds a new path for leaves for the next hop of that path.
RecoveryForwards ==
    [][ \A p \in pkts :
          (/\ p \notin pkts' /\ NextHopLost(p) /\ RecoveryPaths(p) # {}
           /\ p.protocol = "mpolsr" /\ (p.frag <=> p.stage = "in"))
            => \E q \in pkts' : q.id = p.id /\ q.stage = "wire" ]_vars
=============================================================================
