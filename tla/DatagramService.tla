-------------------------- MODULE DatagramService ---------------------------
(***************************************************************************)
(* What MP-OLSR forwarding promises to the applications, without paths,    *)
(* headers, hooks or views: a datagram is delivered at most once, to the   *)
(* host it was sent to and with its source, or it is lost.                 *)
(***************************************************************************)
CONSTANTS
    Id,         \* datagrams
    Node,       \* hosts
    Addr,       \* addresses of the hosts
    Owner,      \* Owner[a]: the host with address a
    NotSent     \* no request

VARIABLES
    request,    \* request[i]: source host and destination address of i
    fate,       \* "idle", "travelling", "delivered" or "lost"
    inbox       \* what the applications of each host received

vars == <<request, fate, inbox>>

Init ==
    /\ request = [i \in Id |-> NotSent]
    /\ fate = [i \in Id |-> "idle"]
    /\ inbox = [n \in Node |-> {}]

Send(i, n, a) ==
    /\ fate[i] = "idle"
    /\ request' = [request EXCEPT ![i] = [src |-> n, dst |-> a]]
    /\ fate' = [fate EXCEPT ![i] = "travelling"]
    /\ UNCHANGED inbox

Deliver(i) ==
    /\ fate[i] = "travelling"
    /\ fate' = [fate EXCEPT ![i] = "delivered"]
    /\ inbox' = [inbox EXCEPT ![Owner[request[i].dst]] =
                    @ \cup {[id |-> i, from |-> request[i].src]}]
    /\ UNCHANGED request

Lose(i) ==
    /\ fate[i] = "travelling"
    /\ fate' = [fate EXCEPT ![i] = "lost"]
    /\ UNCHANGED <<request, inbox>>

Next ==
    \E i \in Id :
        \/ \E n \in Node, a \in Addr : Send(i, n, a)
        \/ Deliver(i)
        \/ Lose(i)

Spec == Init /\ [][Next]_vars
=============================================================================
