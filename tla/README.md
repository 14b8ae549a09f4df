# MP-OLSR test bed: models, model checking and proofs

This directory verifies the MP-OLSR multipath router of the repository: the user-land router
`ser_routing`, the `sereadmo` plugin that feeds it, and the protocol engine of olsrd from which the
plugin takes the topology. It holds TLA+ modules, TLC configurations for small instances of them,
and TLAPS proofs for every instance.

Paths below are relative to `src/`; `R/` is `src_iptables/ser_routing/src/`, `P/` is
`src_olsr/olsrd-0.5.6-r2/lib/sereadmo/src/`, `O/` is `src_olsr/olsrd-0.5.6-r2/src/`.

Contents: 1 the system, 2 the modules, 3 the runs, 4 fairness, 5 proofs, 6 where code and comments
disagree, 7 what is not modelled, 8 plan.

## 1. The system

A host runs two processes. **olsrd** (0.5.6-r2) exchanges HELLO, TC and MID messages with its
neighbours and keeps the topology. **ser_routing** takes every datagram of the host out of netfilter,
gives it a source route (the MP-OLSR header) and, on the hosts in between, sends it on along that
route. The plugin inside olsrd reports topology changes to ser_routing over a local TCP connection.

```
 applications --LOCAL_OUT--> ser_routing --radio--> PRE_ROUTING / LOCAL_IN of the next ser_routing
                                 | lookup
                            topology database  <--commands over TCP--  sereadmo plugin
                                                                            | olsr_process_changes
   packets -> parser, duplicate set -> handlers -> link, neighbour, two-hop and topology tables
                   | relays forward                       ^ timers (scheduler)
```

### Inventory

| Component (files) | State | Operations | What is hard | What makes it correct |
|---|---|---|---|---|
| Topology database (`R/ser_path_tc.c`) | node list, address hash, link lists, local addresses, local links, path cache; all under `g_ser_tc_lock` | reset; add and remove a node, link or alias; set the local addresses | three structures repeat each other; a cache has to be dropped on every change; tables of five slots; the plugin repeats commands and lets an alias have two owners | hash and tables agree; local links are this host's links with a usable address; the cache is never stale |
| Path lookup (`R/ser_path.c`) | cached paths in a ring, a static path buffer | search the cache, else compute; check of the next hop | the lock is released between the search and the computation; the static buffer survives a lookup | a route given out exists; all paths are used in turn |
| k-path computation (`R/ser_path_djk.c`) | cost, predecessor, hops of each node; two costs of each link | `dijkstra`, walk back, penalties, ring of paths | buffer sized from a hop count nothing resets; fields shared by rounds; unsigned -1 | the walk fills its buffer exactly; simple, cheapest paths; a second path where there is one; the loops end |
| Hooks and header (`R/hook_*.cpp`, `R/mpolsrpacket.cpp`, `R/ser_routing.cpp`) | the datagram and its header | LOCAL_OUT, PRE_ROUTING, LOCAL_IN; add, remove, advance a header; route recovery | hosts disagree about the topology; fragments take another way; recovery copies datagrams | what is delivered was sent there, once and intact; a path all agree on delivers |
| Event client (`R/olsreventclient.cpp`) | TCP connection, in a thread of its own | `handleRead`, one command at a time | runs between the two halves of a lookup; never reconnects | commands are applied in order |
| sereadmo plugin (`P/ser_tc.c`, `ser_device.cpp`, `ser_data.c`, `olsreventserver.cpp`, `eventlistener.cpp`) | hash table of reported nodes and links, list of reported aliases, message queue, listeners | `tc_check_data` on each change, `tc_send_all_data` on a connection | differences only: one wrong command is never repaired; two threads; replay and differences come from different tables | a connected router has olsrd's links; each command finds its node |
| olsrd topology database and change processing (`O/tc_set.c`, `olsr.c`, part of `olsr_spf.c`) | `tc_tree` with edge trees, stored sequence numbers, change flags, backoff timer | `olsr_input_tc`, three timers, `olsr_process_changes`, local edges | windows of wrapping numbers, borders, edges of both directions, numbers stored before the sender is checked, flags cleared during the backoff | an edge and its inverse point at each other; every edge can expire; no originator is ignored for ever; a new edge is published |
| olsrd parser, duplicate set, flooding (`O/parser.c`, `duplicate_set.c`, `olsr.c`, `net_olsr.c`) | window of 32 sequence numbers per originator, output buffers | `olsr_shall_process_message`, `olsr_forward_message`, packing and sending | 16-bit wrap, restart of a sender, copies over several ways, the order of marking and checking | each message is processed once and reaches everyone; floods end; a restarted host is heard again |
| olsrd link sensing (`O/link_set.c`, `lq_plugin*.c`) | link entries with their timers and costs | HELLO handshake, timeouts, loss | timers against late messages, several links to a neighbour | a neighbour is symmetric only while a link is |
| olsrd neighbours and relays (`O/neighbor_table.c`, `two_hop_neighbor_table.c`, `process_package.c`, `lq_mpr.c`, `mpr_selector_set.c`) | neighbours, two-hop neighbours with lists both ways and a counter, relays, selectors | HELLO processing, expiry, relay selection | two lists and a counter changed by five operations; costs reset without a flag | no pointer to a freed entry; every two-hop neighbour is covered; what is advertised changes with the ANSN |
| olsrd scheduler (`O/scheduler.c`, `common/list.c`) | timer wheel, pool of free timers, the position of the walk | start, stop, change, set; the walk with its callbacks | callbacks change the list being walked; the clock wraps | every running timer is in its slot and fires in time; the walk ends |
| olsrd alias set, host-and-network set, message generation, SPF and kernel routes | | | | partly or not modelled, section 7 |
| olsrd infrastructure, operating-system layer, other plugins, GUI | | | | not part of MP-OLSR |
| `ser_module`, `old_sereadmo`, `ser_valider_*` | | | | older kernel variant, its plugin and tools |
| Mojette coding, UDP client and server | | | | payload transform and measurement programs |

`PROJECT.json` lists the same components with their files, the hazards at their lines with the
properties that would catch them, and the source lines of every definition.

### Interactions

* The main thread of ser_routing (hooks, lookup) and its event thread (`handleRead`) share the
  topology database. Every function of `ser_path_tc.c` holds `g_ser_tc_lock` throughout; the lookup
  takes it twice.
* Hosts interact only through datagrams and olsrd's packets; each looks at its own tables when one
  passes.
* The plugin is called by `olsr_process_changes` in olsrd's main thread and by `handleAccept` in the
  `io_service` thread. It reads olsrd's tables and writes to the same queue in both.
* The plugin and ser_routing interact only through the stream of commands.
* olsrd itself is one thread: packet handlers, timer callbacks, `olsr_process_changes` and the output
  follow each other in the main loop. Its concurrency is between hosts, and between a callback
  and the list it was called from.

## 2. The modules

| Module | Models | Composed from |
|---|---|---|
| `SerPathTc` | the topology database, one operation per function of `ser_path_tc.c` | |
| `SerPath` | one ser_routing process: hook, lookup, event thread | extends `SerPathTc` |
| `KDijkstra` | one run of `tc_k_dijstra` | |
| `DatagramService` | what forwarding promises: each datagram delivered at most once, to its host, with its source | abstract |
| `Forwarding` | datagrams between several hosts, three hooks, headers | implements `DatagramService` |
| `PluginSync` | the tables the plugin reads, the plugin, the connection, the database at its end | extends `SerPathTc` |
| `Lsdb` | olsrd's topology database, local edges, change processing | |
| `Neighbourhood` | links, neighbours, two-hop neighbours, relays and selectors of one olsrd | |
| `Flooding` | duplicate sets, parsers, relays and output buffers of several olsrds | |
| `Scheduler` | the timer wheel and the main loop around it | |
| `MC...` | the instances for TLC | |
| `SerPathProofs`, `KDijkstraProofs`, `ForwardingProofs`, `PluginSyncProofs`, `LsdbProofs`, `NeighbourhoodProofs`, `FloodingProofs`, `SchedulerProofs` | theorems | extend the module they prove about |

The modules meet at stated contracts.

* `SerPath` takes the result of the path computation from a contract (`KPaths`: simple paths over
  current links, the first a shortest one, none exactly when there is none); `Contract` and
  `PathsSimple` of `KDijkstra` are that contract, checked on the algorithm.
* `Forwarding` takes a lookup as "some simple path over the links of the host's view whose first hop
  has an address" (`Routes`), which is what `SoundRoute` of `SerPath` shows, but for a first hop whose
  link or alias is disputed (below): there a datagram may go to an address the hop no longer has.
* `SerPath` lets the plugin send any order of commands, repeated ones included, in which the local
  addresses come first, which `PrologueFirst` of `PluginSync` shows.
* `PluginSync` lets edges and entries come and go in any order, and its local edges by the status of the
  neighbours; `Lsdb` shows which edges those are and that the plugins are called for each new one
  (`AddsPublished`, `LocalEdgesUnlessBackoff`).
* `Flooding` takes the relays as given and covering; `RelaysCover` of `Neighbourhood` is that.
* The timers of `Lsdb` and `Neighbourhood` fire when due, which `Punctual` and `WalkEnds` of
  `Scheduler` show of the wheel.

### SerPathTc and SerPath

*State.* `nodes`, `addrTab`, `hash`, `links`, `localAddr`, `localLinks` and `cache` are the globals
of `ser_path_def.h`. The hash keeps, for each address, its entries in bucket order, as a lookup by
address never sees the others. Links between two nodes are counted (the code allows parallel links);
list orders that only decide between equally short paths are dropped. `pc`, `req`, `buf` and `out` are
the lookup: what it remembers while it holds no lock, the static buffer it reuses and the datagram it
last decided.

*Actions.* `tc_add_node`, `tc_remove_node`, `tc_add_link`, `tc_remove_link`, `tc_add_alias`,
`tc_remove_alias`, `tc_set_local_addr`, `tc_set_local_alias` and `tc_free_data` are one atomic step
each. The lookup is two steps, `hk_local_out_hook` (to the end of the read-locked section) and
`pth_find_datagram_path_write` (on the topology of that later moment). `handleRead` is the event
thread.

*Details kept.* `tc_rmv_node_addr` removes the newest entry of an address, whichever node owns it.
A removed node drops the first local link to it only. An empty path leaves the static buffer as it
was, and the next hop is read from it. A search that finds no path leaves an empty cache entry.

*Commands.* The functions of the database refuse nothing that is announced twice, and the plugin does
repeat itself: a connection between a change in olsrd and its report gets links and aliases twice
(`P/ser_tc.c:525-553`, then `:281`), and an alias that moves is announced for its new node before it is
taken from the old one (`:496-502`). So `ADD_LINK`, `ADD_ALIAS` and `REMOVE_ALIAS` have no guard on what
is known already. Three things are then left over by the code, and two history variables name them:

* `lost`: with two entries of an alias in the hash, `tc_remove_node` unlinks the newest of them for each
  slot of the node that holds it. If the node's own entry is not the newest, it stays and leads to the
  freed node. A lookup, `REMOVE_ALIAS` or a `REMOVE_NODE` that would read it is undefined behaviour and
  is not followed (the one place where a command of the plugin is not taken); announcing the alias again is.
* `disputed`: a neighbour with two links to this host keeps a local link when it is removed; and a node
  that loses an alias to a command for another node keeps that alias in its local link.

The properties state what holds nevertheless: everything for the rest, and for disputed neighbours that
none lacks a local link.

*Left out.* Link costs (the plugin sends 1 for all), failing allocations, logging.

### KDijkstra

Actions are the loops of the code: `StartRound`, `Relax` (one turn of the main loop), `EndRound`
(allocation of the path buffer), `Walk` (one node of the walk back, with its penalties) and `Store`
(the ring and the new link costs). Where the list order decides between nodes of equal cost, any of
them may be taken. Costs are unsigned numbers modulo `MaxCost + 1`, with `MaxCost` for the -1 of the
code; links start with cost 1, and the penalties of the configuration are positive. `dijkstra_hops` starts with whatever an earlier lookup left (`StaleHops`), since nothing resets
it. The penalties keep the order of the assignments: while the walk goes on, the link back from
`prev` to `node` is written last, and a link may be written twice.

### Forwarding and DatagramService

A datagram is a record with its IP addresses, protocol, stack of MP-OLSR headers, and the place it
is at. Each host has a view of the topology, which starts different from the others' and changes
while datagrams travel. `hk_local_out_hook`, `hk_pre_routing_hook` and `hk_local_in_hook` have one
disjunct per verdict of the code. Fragments pass PRE_ROUTING untouched, are reassembled by the
kernel and handled by LOCAL_IN, which sends them on through a raw socket. Route recovery is modelled
as it is: PRE_ROUTING stacks a second header on a copy and changes the addresses of the original;
LOCAL_IN builds a datagram and does not send it.

`DatagramService` forgets all of this: a datagram is idle, travelling, delivered or lost.
`ImplementsService` is its specification under the mapping of `Forwarding` (a datagram that is sent
and neither in the network nor delivered is lost).

*External.* Routing by destination address and reassembly (kernel), loss, and changes of a view.

*Left out.* Sizes, ports, checksums. `ser_routing.cpp:136-138` and `:152` answer netfilter a second time after
the PRE_ROUTING hook; the first verdict removes the datagram from the queue, so the model has one.

### PluginSync

*State.* olsrd's `tc_tree` (originators and edges), symmetric neighbours, `mid_set` and the change
flag; the plugin's bucket lists `tab`, links and aliases (`curLinks`, `curMids`); the connection
(`connected`, `chan`); the client's database from `SerPathTc`. `routed` are the aliases that have an
`rt_path` at their `tc_entry`, whose deletion is what flags the expiry of a MID entry. `early` and
`unflagged` are history variables: the client connected before there was any topology; an edge was
revoked since the last report.

*Actions.* `olsrd_pcf_event` is the whole of `tc_check_data`: add what is new, mark what is still
there, remove what is not, send. `handleAccept` is `dev_send_init` and `tc_send_all_data`.
`Disconnect` and a later `handleAccept` are a restart of ser_routing. `handleRead` applies the next
command. `EdgeUp`, `EdgeDown`, `EdgeRevoked`, `EntryExpires` and `NeighbourStatus` are olsrd's tables as
far as the plugin sees them; `olsr_process_received_mid` and `olsr_delete_mid_entry` are the handling and
the expiry of a MID message.

*Details kept.* An edge of this host counts only while its end is a symmetric neighbour, since olsrd
never deletes such an edge (`O/olsr_spf.c`, the loop over neighbours only treats symmetric ones).
Only the head of a bucket is unlinked. An alias once in the list is not sent again. A revocation
raises no flag, so that it is reported with the next change.

*Left out.* Schedules in which the two threads of the plugin overlap: that is a data race on a
`std::list` and on AVL trees, whose outcomes no small set describes. It is listed as a hazard. There is
one client. The declared aliases are not addresses of neighbours, so that `insert_mid_alias` does not
merge entries of the neighbour table.

### Lsdb

*State.* `tcs` and `edges` are `tc_tree` and its edge trees, `inv` the edges whose `edge_inv` is set,
`ignored` and `err` the fields of an entry that count old messages and remember a stray one, `valid`,
`gc` and `backoff` the running timers, `changed` the three change flags (the code treats them alike
here), `published` what the plugins saw at their last call.

*Relative numbers.* The code compares a number of a message only with the one stored for the same
originator. The model keeps differences: a message is as far ahead of the stored numbers as
`n.seq` and `n.ansn` say, an edge is `age` behind its entry. `olsr_seq_inrange_high`,
`olsr_seq_inrange_low` and `SEQNO_GREATER_THAN` are translated on absolute numbers, and
`WindowsAreRelative` shows that every test of the handlers depends on the difference alone, for all
pairs of numbers and wherever a window wraps; the one exception (two ANSNs exactly half the range
apart) is the free choice `tie`.

*Actions.* A TC message is ignored, remembered as stray, discarded because its sender is no symmetric
neighbour (its numbers are stored by then), or applied whole by `olsr_input_tc`: edges, borders,
revocation, timers, flags. `olsr_expire_tc_entry`, `olsr_expire_tc_edge_gc` and
`olsr_expire_spf_backoff` are the timers. `olsr_process_changes` calculates unless the backoff runs,
calls the plugins and clears the flags. `NeighbourChange` stands for the handlers of `Neighbourhood`.

*Details kept.* The border computation with its `memset` of a pointer; the flag of revoked edges that
nobody uses; local edges of neighbours that are no longer symmetric.

*Left out.* Link qualities (whether a change of one is relevant is free), the shortest-path tree and the
routes themselves.

### Neighbourhood

*State.* `tab` is a record of the tables: link entries with the last status a message gave them and
their cost, the order of the link list (it decides which of several links to a neighbour is the best, as
`get_best_link_to_neighbor` keeps the first of equal ones), the neighbours' status, willingness and link counter, the two lists that connect one-hop and
two-hop neighbours with the counter of a two-hop neighbour, the relays, the selectors, and the two
change flags. Each function of the code is a function from tables to tables, so a handler reads as the
sequence of its calls.

*Actions.* `Hello` is `olsr_hello_tap` with everything it calls: the link, its quality, the
neighbour's status, the two passes over the two-hop neighbours, the selector set. The other actions are
the callbacks of the five timers and `EndOfRound`, which selects relays and increases the ANSN.

*Details kept.* A new two-hop entry has no running timer until it is heard of again. The cost of
a path is reset to broken before the new one is known. The callback of the symmetry timer
returns early. The end of a link signals no change of the advertised neighbours. `silent` is a history
variable: the two-hop neighbours with a path that broke, or came back, without a flag since the relays were
last chosen. A symmetric neighbour none of whose links is usable gets no relay (`PassedOver`, "if (!lnk)
continue").

*Left out.* Hysteresis and the relay selection without link quality (`mpr.c`): the test bed runs
with link quality. Costs are a few values.
Interface aliases do not occur: a neighbour is known by its main address.

### Flooding

*State.* For each host: the duplicate entry of each originator (newest number, set of recent ones,
counter of low ones), the messages in the output buffer, the packets in the socket. `made` gives
each message an identity, and the history variables count what happened to it. `busy` are the hosts
that are inside `parse_packet`: they do nothing else until the packet is finished.

*Actions.* A step of `parse_packet` handles the next message of a packet: an own message is passed over
(`OwnMessage`), one the duplicate set blocks is counted (`Block`), any other is handled and, where the
host is a relay of the sender, forwarded into the output buffer (`Process`), which is sent first if there
is no room; an unknown type ends the loop. `net_output` sends the buffer. `Generate` makes a
message. `Restart`, `Lose` and `olsr_cleanup_duplicate_entry` are the faults.

*Details kept.* The entry a message creates does not mark that message. The difference of two
numbers is corrected for a wrap in one direction only. A low number is blocked sixteen times
(`TooLow`), and a copy of an older message in the window clears that counter. A message is marked
before its handler looks at the sender. A relay forwards only what it first heard from a selector, but for
the message that creates its `dup_entry`, of which the second copy is handled too. `spoiled` is a history
variable: messages that some host lost for a reason other than the relays.

*Left out.* The contents of messages. A flooded message is a MID or an HNA message: what `olsr_input_tc`
does to a TC message's forwarding is in `Lsdb`. One interface per host.

### Scheduler

*State.* The circular lists of the wheel and the pool with their order, the clock and time of each
timer in a two's complement of `2 * Half` values, whether `clock_t` is wider than `int`, and the walk:
the slot, the current and the previous node.

*Actions.* One per step of the main loop: `Round` reads the clock, `Handler` is a packet handler that
starts, stops or changes a timer, `BeginWalk`, `WalkSlot`, `PassTimer`, `FireTimer` (the callback,
with one timer operation; `olsr_delete_link_entry` stops up to three other timers in one callback, of which
the model takes one), `AfterCallback`, `Advance`, `SlotDone`, `EndWalk`.

*Details kept.* The insertion at the tail of a list, the reuse of the pool from its head, the way the
next node is found from the previous one, the limit on the slots of one walk, the comparison of absolute
times.

*Left out.* Jitter (the relative times are free anyway), sleeping, cookies. `StopsPrev` tells whether
a callback may stop the timer the walk passed last: `FALSE` in the passing run, so that it shows what
holds without that step, and `TRUE` in `scheduler_walk`.

## 3. The runs

Deadlock checking is on for `SerPath` and `Scheduler`, which never stop. It is off where the system may:
a run of `tc_k_dijstra` ends; datagrams, messages and olsrd's changes are bounded; a host that hears
nothing and has no timer left waits.

| Run | Instance | Distinct states | Properties |
|---|---|---|---|
| `serpath_links` | 3 nodes, up to 3 links, 2 paths, big-endian | 121 050 | `CacheCoherent`, `AllPathsUsed` |
| `serpath_alias` | 3 nodes, up to 2 links, 3 entries of an alias, 3 slots, little-endian | 330 455 | `TypeOK`, `HashSound`, `LocalLinksExact`, `SoundRoute` |
| `kdijkstra` | all 4096 directed graphs of 4 nodes and all 1024 undirected ones of 5; 3 rounds | 476 338 | `BufferFits`, `PathsSimple`, `Contract`, `SecondPathDiffers`, `Termination` |
| `forwarding` | 4 hosts, one with two interfaces; 3 graphs per view, one change, loss, fragments | 990 915 | `HeadersAgree`, `DeliveredIntact`, `NoDuplicate`, `ImplementsService`, `AllDelivered` |
| `plugin_sync` | this host, 2 nodes, 2 aliases, 4 changes, any number of restarts | 345 881 | `LinksInSync`, `PrologueFirst`, `CommandsApply`, `CatchesUp` |
| `lsdb` | 4 nodes, four scenarios, sequence numbers modulo 8, ANSNs modulo 4 | 19 756 | `TypeOK`, `InvMutual`, `NoImmortalEdges`, `WindowsAreRelative`, `BoundedDrops`, `AddsPublished`, `LocalEdgesUnlessBackoff` |
| `neighbourhood` | 2 neighbours, 1 two-hop neighbour, 2 interfaces, three scenarios | 60 486 | `TablesSound`, `RelaysCover`, `LostNeighbourLeaves`, `ChangesSignalled` |
| `flooding` | 2 to 6 hosts, four scenarios, numbers modulo 16 | 113 509 | `TypeOK`, `ProcessedOnce`, `HeardAgain`, `FloodReaches`, `FloodEnds` |
| `scheduler` | 3 timers, 2 slots, a clock of 10 values, both widths of `clock_t` | 815 272 | `WheelSound`, `WalkInSlot`, `Punctual`, `WalkEnds` |
| `recovery`, `plugin_refused`, `scheduler_walk` | | | violations, section 6 |

What they show beyond the names:

* `serpath_links`: every order of commands and lookups, parallel links included. The cache is never
  stale although the lock is released in between, and every cached path is used in turn.
* `serpath_alias`: an alias that is announced twice, by two nodes, or for a node that goes, and links
  that are announced twice. No datagram leaves along a path that does not exist; the hash leads to no node
  that is gone, but for the aliases in `lost`; every link of this host has a local link; and each local
  link is one of a present link and has the address it would choose now, which is where a datagram goes,
  but for the neighbours in `disputed`.
* `kdijkstra`: the walk back fills its buffer exactly, a stored path is simple and the cheapest of its
  round, the second path is another one than the first where there is a path that keeps off its inner nodes
  and is short enough for the penalties to matter, the loops end.
* `forwarding`: a host receives what was sent to it, once and intact, whatever the others believe of the
  topology. `AllDelivered` is conditional inside the property: when all views agree and nothing is lost,
  a datagram accepted with a path arrives.
* `plugin_sync`: a router that was there from the start has olsrd's links; one that starts late at least
  knows its own addresses before anything else.
* `lsdb`: whatever TC messages arrive, in whatever order and with whatever numbers, an edge and its inverse know
  each other, every edge of another host can expire, no originator is ignored for ever, and what is
  new is reported.
* `neighbourhood`: the lists, counters and pointers of the three tables agree after every handler and every
  timer; the chosen relays are on the cheapest usable paths to every two-hop neighbour, also to one that is a
  neighbour over a dearer link; a silent neighbour leaves; what the next TC message advertises does not change without a new ANSN, except in the
  ways named in section 6.
* `flooding`: with relays that cover, a message reaches everyone although a relay that knows the originator
  and hears the message first from somebody it does not forward for never forwards it; floods end; a restarted sender is heard again after at most `TooLow`
  blocked copies, and at most `TooLow + 1` more for each late copy that sets the counter back.
* `scheduler`: callbacks may start, stop and change timers of the slot that is being walked.

Why the bounds are enough for what is asked:

* *SerPath.* The state space is finite without bounding the number of commands: every history of
  commands and lookups over these nodes is covered. Three nodes give a direct and an indirect path
  between two of them, so a change between the two locks can remove one, both or none. `MaxLinks` counts
  parallel links, and bounds the local links too: three allow a direct and an indirect path to exist together,
  or a doubled link beside another one, and two in `serpath_alias` a doubled link or one to each
  neighbour. `MaxEntries = 3` lets an alias be in two slots of one node and in one of another, in any
  order, and three slots let a node's table fill up with copies of it (its main address and two). The
  neighbours of `serpath_alias` are reached only through the alias (`MCFar`), so its coming and going
  changes the next hop; as this host has no alias there, they are interchangeable, and the run uses
  the symmetry (it checks no liveness). `Destination` names where the applications send: `serpath_links` sends to a
  neighbour and to this host itself, `serpath_alias` to the alias.
* *KDijkstra.* Five nodes are the fewest with two disjoint paths of different length between
  non-neighbours and a node besides. `MaxCost = 255` exceeds every cost three rounds of penalties
  can reach, as `2^32 - 1` does with the code's link costs. `StaleHops = {3}` is a value no node of the
  fresh run would start with.
* *Forwarding.* The line and the diamonds have a longest path of three hops, so a datagram meets a
  first, a middle and a last host; views differ from the start, and one more change may come at any
  time, in particular between two hops. Datagrams do not interact, so one is enough.
* *PluginSync.* Four changes are enough to bring a node up, take it down and bring it up again with
  the restart and the deliveries anywhere in between, and to let an alias outlive its `tc_entry`. Each node
  has a bucket of its own: with two in one, the table ends in freed memory (section 6).
* *Lsdb.* The ranges are powers of two as in the code, with windows in the same
  order of size (window, two windows, half the range), so that a number can be in each region and each
  window can wrap. The counters are unbounded in number of messages; `MaxIgnored = 2` replaces 32. The
  scenarios vary one thing each: numbers and parts of messages of one originator (`AnyNumbers`), two
  originators that advertise each other (`EachOther`), this host's neighbours (`Neighbours`), complete
  messages with borders (`Complete`).
* *Neighbourhood.* `Sensing` has one neighbour on two interfaces that may say everything a HELLO
  can; `Choosing` two neighbours, a common two-hop neighbour to which their paths have different costs, one of
  them broken at times, and a path from one to the other that is cheaper than the direct link, which breaks too; `Measuring` one neighbour on two interfaces with links of different costs,
  of which the best depends on the order of the list. The number of messages is not bounded.
* *Flooding.* `Reach` is a graph of three levels with floods from both ends, one after the other (`apart`): from the second
  message of an originator on, the relay that hears it first from the host it does not forward for stays silent, and
  which one that is depends on the order of the copies; `Wrap` lets the
  numbers pass zero with two ways of different length; `Restarted` has a sender that starts again with any
  number while packets are lost and entries expire; `Mixed` has several types in one packet and a link
  that works in one direction. `Window = 3` and `TooLow = 2` stand for 32 and 16 and are exceeded in each.
* *Scheduler.* Three timers are needed for a previous, a current and a next one in a list. `MaxStep = 2`
  equals the number of slots, so a round may take a whole turn of the wheel; a clock of 10 values
  wraps within a few turns.

Each checked property also has a mutant: a plausible slip in one definition (a forgotten cache
reset, a hop not counted, a header not advanced, a counter not decreased, ...) under which TLC finds the
property violated. They are the definitions marked `mutant` next to the ones they vary, and are used by
nothing else.

## 4. Fairness

* `SerPath!FairSpec`: the second half of a lookup that has begun is taken, as nothing but the event
  thread's short critical sections holds the lock; and an application keeps sending to every
  node. The latter is an assumption on the application, needed for a statement about traffic.
* `KDijkstra!FairSpec`: the lookup runs on; nothing else runs under its write lock.
* `Forwarding!FairSpec`: netfilter hands over a queued datagram and the router answers it. There is no
  fairness for applications, the radio or topology changes.
* `PluginSync!FairSpec`: olsrd's main loop calls `olsr_process_changes` in every round, and TCP
  delivers what was written. There is none for changes of the topology, connections or restarts.
* `Scheduler!FairSpec`: a walk that has begun goes on; it is a loop of one thread. Nothing forces
  handlers to run or the clock to advance.
* `Neighbourhood!FairSpec`: the timer of a link that is not refreshed for good expires. This is what `Punctual`
  and `WalkEnds` of `Scheduler` show. No message needs to arrive.
* `Flooding!FairSpec`: a host reads its socket and sends its output buffer (both are in every round of the main
  loop). There is none for new messages, restarts or losses.

`Lsdb` states no fairness: its properties are invariants.

## 5. Proofs

The theorems hold for every value of the constants that satisfies the named `ASSUME`s of the
modules; TLC evaluates those on every run.

**`SerPathProofs`** (any nodes, aliases, networks, number of paths; 1 to 5 address slots, where the
code has 5)

* `TypeCorrect`: `Spec => []TypeOK`. The invariant is inductive as it stands. Each operation gets a
  lemma on the type of what it returns; the five nested removals of `tc_remove_node` go through one
  lemma on a single slot.
* `CacheNeverStale`: `Spec => []CacheCoherent`. Inductive together with `TypeOK`: a command that
  changes nodes or links empties the cache (`CommandCache`), any other leaves `Paths` as it was
  (`PathsSame`); the second half of a lookup adds only paths of the topology it runs on. That the
  lock gap does no harm is exactly that this step looks at the current `links`, not at what the first
  half saw. The reliance on the path computation is its contract `KPaths`.

* `HashAlwaysSound`: `Spec => []HashSound`, without a limit on how often an alias is announced or by how many
  nodes. The inductive invariant `HashInv` says more: the entries of an address that is not in `lost` are, each
  once, the slots that hold it (`Matches`), slot 0 holds the main address of exactly the nodes in the list, and
  the other slots hold aliases of other hosts. `tc_rmv_node_addr` takes the newest entry of an address
  whoever owns it and clears the owner's slot, which keeps `Matches` (`RmvAddrMatches`). The loop of
  `tc_remove_node` over the slots is unrolled by `LoopStep`: it disturbs an alias only where the entry of the
  node is not the newest one, and those are in `Covered`.
* `LocalLinksAlwaysExact`: `Spec => []LocalLinksExact`, by `LinksInv`: every link joins two nodes of the list, a
  neighbour has at least as many local links as links, one that is not disputed has one link at most, exactly as
  many local links, and the address its table calls for, and the local addresses are complete before the first
  node comes.
* `RoutesSound`: `Spec => SoundRoute`, an action property: a datagram leaves only along a path of the topology
  of that moment, to the node that owned its destination, and, unless the first hop is disputed, to an address
  of that hop on a network this host is on. `LookupInv` carries the source of the request over the lock gap.

The bounds `MaxLinks` and `MaxEntries` are constants of the specification like the others; the theorems hold for
each value of them.

**`KDijkstraProofs`** (any finite set of nodes, graphs, positive penalties, number of rounds, cost width, stale
hops; `MaxHops` only has to admit every simple path)

* `KDijkstraTypeCorrect`, `WalkInBuffer`: `Spec => []BufferFits`, and `CachedPathsSimple`:
  `Spec => []PathsSimple`. The last two are not inductive. The invariant adds `Tree` (in a round, a node
  with a predecessor has a processed one,
  joined by a link, with exactly one hop less, and `Src` has none and hop count 0) and `Walked` (the
  walk's position, the current node's hop count and the part of the buffer already written are
  the same number, and the written part is a path from the current node to `Dst` with rising hop
  counts). Hop counts that rise by one make the path simple and make the walk end at the first
  entry of the buffer. Of the costs it only needs that `Src` has cost 0 and that a
  node without predecessor still has the initial -1: the buffer is safe even when costs wrap.
* `RoundsFindCheapestPaths`: `Spec => []Contract`, Dijkstra's algorithm. Its hypothesis `CostsFit(L)` is that no
  cost wraps: `L[r]` bounds the cost of a link after `r` penalties, and a path of such links stays below -1
  (with the default penalties of 2 and three rounds, `L[r] = 2^r`; the run has `MaxCost = 255` and five nodes).
  Where costs wrap the contract is false, so it cannot be dropped. The invariant `CheapInv` adds to
  the one above `Settled` (processed nodes cost no more than the others, and no link out of one leads to a
  node at less than that node's cost), `Summed` (a cost is the predecessor's plus the link's), `Bounded` and `Prices`
  (the bounds that keep sums below -1) and `Chain` (the walk follows the predecessors). `LowerBound` then
  compares any simple path with the costs found, hop by hop, and `WalkedCost` sums up the walked one.
* `PenaltiesYieldOtherPath`: `Spec => []SecondPathDiffers`, under the same hypothesis. `SecondInv` adds what the first walk
  has done to the costs so far (`FirstWalk`) and has left for the second round (`SecondCosts`): the links of
  the path cost `ConfFp` or more, links between nodes off the path still cost 1 and other links into
  `Dst` at most `ConfFe`. A path that keeps off is then cheaper than the first path, and the second
  round finds a cheapest one. The attempt showed that an earlier form of the property, which did not exclude the
  first path itself from the alternatives, was false for `ConfFe < ConfFp` and a direct link.

Statements about sums along a path need induction over its length. The library's induction theorems cannot be
instantiated by the installed provers, so the lemma `Induction` states it for a set of numbers and is proved from the
well-foundedness of the naturals (a least number outside the set).

**`ForwardingProofs`** (any hosts, addresses, interfaces, views, number of datagrams and changes)

* `ForwardingTypeCorrect`, `OnlyIntactDelivered`: `Spec => []DeliveredIntact`, and `HeadersAlwaysAgree`:
  `Spec => []HeadersAgree`. The invariant says what each datagram in the network is: `Travelling`
  (one header, whose current hop owns the destination, whose last hop is the host it was sent to,
  and whose original protocol and source are those of the application), `Arrived` (stripped, at
  that host), or `Stacked` (recovered: a second header on top, at LOCAL_IN of a host that is not its
  current hop). The third is what makes the theorem hold in spite of route recovery: a stacked
  datagram is always dropped.
* `NeverDuplicated`: `Spec => []NoDuplicate`, and `HooksImplementService`: `Spec => Service!Spec`.
  `StepShape` reduces every action to one of a few shapes (a new datagram, one replaced by at most one
  with the same identity, one delivered, one lost, none touched), so that uniqueness of identities
  and the refinement each need one short case per shape. The refinement uses `DeliveredIntact`: the
  abstract service delivers only what was requested.

**`PluginSyncProofs`** (any finite sets of nodes and aliases, hash buckets, number of changes, connections and restarts)

* `Invariance`: `Spec => []Inv`. The router is several commands behind the plugin, so the invariant speaks of where the
  commands on their way lead. `View` is what the router has in its tables (nodes and links), `After` what one command
  makes of it (`Effect`: the handlers of the router do just that), `Leads(v, s, w)` says that the commands `s` take `v` to `w` one by one and none of them misses its
  node. `Follows` is the heart: if the router connected early, what is on its way leads from its view to the
  links the plugin has recorded (`curLinks`), with every node of the plugin's table that was not freed. A delivery
  takes the first command off the run, a report appends a run of its own (`Makes`), which is shown for each part of
  `tc_check_data`: links that have gone, nodes left without a link, new nodes and links, aliases.
* The rest of `Inv` is what this needs. `RouterOK` and `DbOK`: the tables at the end of the connection belong together,
  so that each command of `SerPathTc` has the effect written down for it. `TablesOK`: olsrd's and the plugin's tables have
  the types they need, and a node of the plugin's table that is not freed is in its bucket. `UpToDate`: unless a change is
  flagged, or an edge was revoked alone, the plugin's links are olsrd's. `Announced`: the rest of the prologue is at
  the front of the connection, and the part delivered is in the router.
* `PrologueIsFirst`: `Spec => []PrologueFirst`, for a host whose addresses fit the slots of a node
  (`Cardinality(MyAliases) < MaxAddr`): a further one is refused and the property false.
* `LinksStayInSync`: `Spec => []LinksInSync`, and `EveryCommandApplies`: `Spec => CommandsApply`, an action property.

The commands of a report are built by folds over sets of links and nodes. The library's theorems on folds take an operator
as a parameter; here the recursive function inside a fold is taken apart by an induction over the subsets of a finite
set, which is proved from the least cardinality (`SubsetInduction`, `FoldSolution`, `AddLinkFold`, `RemoveUselessFold`).

**`LsdbProofs`** (any nodes, ranges of numbers, windows, messages and neighbours)

* `LsdbTypeCorrect`, `InversesMutual`, `EdgesMortal`, `DropsBounded`, `NewEdgesPublished` and
  `LocalEdgesFollow`: `Spec => []` of `TypeOK`, `InvMutual`, `NoImmortalEdges`, `BoundedDrops`,
  `AddsPublished` and `LocalEdgesUnlessBackoff`. The inductive invariant is their conjunction with `Counted`
  in the place of `BoundedDrops`: the number of messages dropped in a row is at most the entry's counter, and
  one more while a stray number is remembered. The work is in `InvMutual`: every handler changes a set of
  edges at once, and lemmas on adding and removing a set of edges carry it through.

* `WindowsAlwaysRelative`: `Spec => []WindowsAreRelative`, for every modulus and every window whose multiple stays below it
  (in the code 1024 times 8 of 65536 and 256 times 4 of 65536): the tests of the handlers on absolute, wrapping
  numbers are tests of the difference. It justifies the relative numbers of the model.

**`NeighbourhoodProofs`** (any finite sets of neighbours and interfaces, any other nodes, costs, messages and
coverage; fewer than 2^15 neighbours, for a counter of 16 bits)

* `TablesAlwaysSound`: `Spec => []TablesSound`, and `RelaysAlwaysCover`: `Spec => []RelaysCover`. The invariant `NbhInv` is
  a statement on the record of tables, so that each function of the code gets a lemma on what it does with each
  table (`...Fields`) and one on what it keeps (`...OK`, `...Hops`), and a handler follows by composing them. The
  relays cover every two-hop neighbour outside `silent` whenever nothing is flagged as changed (`RelayInv`).
  `ChosenCover` shows it of the choice: the candidates contain every path that is wanted, so one that is not
  chosen is no cheaper than `mpr_coverage` chosen ones, which are then wanted too. `CoverFrame` keeps it while the costs
  of these paths and of the links and the status of the neighbours stay, which `SameCosts` and `Repriced`
  show of the handlers that flag nothing.
* `ChangesAlwaysSignalled`: `Spec => ChangesSignalled`, an action property, from the same step lemmas.

**`FloodingProofs`** (any hosts, networks, windows, ranges of numbers, sizes of packets, numbers of messages and faults)

* `FloodingTypeCorrect`: `Spec => []TypeOK`, and `AlwaysHeardAgain`: `Spec => []HeardAgain`. The invariant `FloodInv` adds
  `Counted`: the copies ignored so far are at most those `too_low_counter` has counted since it was last cleared, plus
  `TooLow + 1` for each time a late copy cleared it.
* `ProcessedOnceWithinHalf`: `Spec /\ []Within(b) => []ProcessedOnce`, where `Within(b)` says that the next number of every
  originator `o` is among the half of the range that starts at `b[o]`. Losses, expired entries and restarts are allowed,
  and a restarted host may use numbers it used before. The hypothesis cannot be dropped: a copy that is more than half of
  the range late (32768 messages) looks new again. The invariant `Once` gives every message the number it was made with
  and says of each message that may still be on its way, and each host: without a `dup_entry` the host has not processed
  it, and with one at most once for creating the entry, once for each reset and, only if its number is `Known` to the
  entry (too low, or marked), once more. `NumbersKnown` is the step: a message that is processed was not known and becomes known, and
  what was known stays so where the entry moves on, since within half of the range differences add up (`DifferenceAdds`).
  The entry expires only when no copy of what was processed is on its way, and the set of messages on their way shrinks
  to what still is.
* `HandledOnce`: the same for every behaviour in which no host restarts and fewer messages are made than half of the range,
  wherever the numbers start: `Numbered` shows that they stay within the half from there, across the wrap.

**`SchedulerProofs`** (any timers, blocks of memory, size of the wheel that divides the range of the clock, times, both
widths of `clock_t`)

* `WheelAlwaysSound`: `Spec => []WheelSound`. `WheelInv` adds where the walk is: fewer slots walked than the wheel has, and
  both of its nodes on some list, the pool if a callback stopped them.
* `WalkStaysInSlot`: `StopsPrev = FALSE` and `Spec` imply `[]WalkInSlot`, by `WalkInv`: the previous node stays on the slot
  through a callback, the current one is its successor, and they are not the same. Without the hypothesis
  the property fails, which is the run `scheduler_walk`.
* `TimersPunctual`: under the same hypothesis and `RoundsShort`, `Spec => []Punctual`. `RoundsShort` says that the wheel and
  two rounds of the main loop are shorter than half the range of the clock, and so is every time a timer is set to
  (256 slots and 2^31 ticks or more in the code). `PunctualInv` says where each timer that is due stands in the walk: its
  turn, the number of slots from the start of the walk to its own, is not over; in the slot that is being walked
  it is behind the previous node; and it became due after the last walk, or it was `Left` by the one walk that is
  skipped where the clock wraps, which is possible only just above the smallest time. `TurnSlot` (the turn is up
  exactly at the timer's own slot, because the size of the wheel divides the range of the clock), `FollowsNext` (what
  is behind the previous node and is not the current one is behind that) and `TouchesOnly` (a handler or a callback sets
  one timer, to a time not past, and keeps the order of the others) carry it through the walk.

*Assumptions.* Besides sizes and ranges, the `ASSUME`s say that "no entry" is not an entry (`NoneAssumption`,
`NoEntryAssumption`), that main addresses, aliases and the null address differ (`AddrAssumption`), that a
block of fresh memory holds distinct timers (`MemoryAssumption`), and that nodes and aliases are finitely many and every
node has a bucket (`PluginAssumption`).

*Only model-checked.*

* The liveness properties `Termination`, `AllPathsUsed`, `AllDelivered`, `CatchesUp`, `WalkEnds`, `LostNeighbourLeaves` and
  `FloodEnds`: fairness and `ENABLED` are out of the reach of the prover.
* `FloodReaches`. It is a statement on whole graphs, and false where the scenario's relays do not cover or its hosts are not
  connected: why a host is reached although its nearest relay heard the message first from somebody who did not select
  it is an argument on the order of all transmissions (the first host to send next to it has chosen a relay that can
  only have heard that host first), with a ttl that lasts. The run has graphs in which that happens.
* The violations of section 6, which hold of the instances that show them.

## 6. Where code and comments disagree

Shown by a run, with the quoted line in `PROJECT.json`:

* `recovery`: a datagram for which the PRE_ROUTING hook found a new path does not leave the
  host, since the addresses are changed in the original and not in the copy handed back; and one the
  LOCAL_IN hook recovers is built, reported as forwarded and never sent.
* `plugin_refused`: a router that connects is sent links whose far end it is not told of, as
  only originators are replayed; and an alias learnt before the first link of its node is reported too
  early, is refused and never sent again. The shortest trace shows the link; the alias is refused in longer ones.
* `scheduler_walk`: caching the previous node of the timer list does not help when it is the previous
  one that a callback removes; the walk goes on in the pool of free timers.

Seen while modelling, with no run of their own:

* `R/hook_local_out.cpp:73` compares an address in network byte order with `INADDR_LOOPBACK` in host
  byte order, so loopback datagrams are excepted on big-endian builds only (`hk_check_if_update`
  has both).
* `R/ser_path.c:65`: a datagram to an own address is accepted or dropped depending on what the previous
  lookup left in the static buffer, though `hook_local_out.cpp:126` means to let it pass
  (`pth_copy_path` has it).
* `pth_copy_path` never compares the number of hops with `MAX_MPOLSR_PATH`.
* The event client does not connect again after an error.
* In `R/ser_path_djk.c` the penalty of a link back can be overwritten when its other end is walked;
  `SecondPathDiffers` states what still holds.
* `P/ser_tc.c:437`: a node that is not the first of its bucket is freed and stays linked (`Unlink`).
* `P/ser_tc.c:548` replays this host's links to neighbours that are not symmetric, which the
  comment at `:213` says to leave out.
* A connection between a change in olsrd and its report gets the change twice; a second local link
  survives a later `REMOVE_NODE` (`R/ser_path_tc.c:383-394`; `disputed`).
* `R/ser_path_tc.c:776`: `tc_remove_alias` takes the newest entry of the alias and refreshes the local link of the
  node it was called for, so when an alias moves, the node that lost its entry keeps the alias in
  its local link (`disputed`).
* `R/ser_path_tc.c:423`: for an alias with two entries, `tc_remove_node` can leave the entry of the freed node in the
  hash (`lost`).
* `O/process_package.c:150` resets the cost of a known path and flags a change only if the new cost is not broken:
  the relays chosen for the old cost stay (`silent`; `RelaysCover` leaves these two-hop neighbours out).
* `O/tc_set.c:949`: what `olsr_delete_revoked_tc_edges` answers is not used, so a revoked edge alone
  causes no calculation and no report. `LinksInSync` and `AddsPublished` leave it out.
* `O/tc_set.c:754` clears `sizeof` of a pointer, not of the address.
* An edge of this host to a neighbour that is no longer symmetric is never deleted.
* The expiry of a MID entry whose `tc_entry` has gone raises no flag (`olsr_delete_mid_entry`).
* `O/process_package.c:328` changes a timer that does not exist: a new two-hop entry has none until it
  is heard of again.
* `O/link_set.c:366`: deleting a link does not signal that the advertised neighbours changed.
  `O/link_set.c:414`: the symmetry timer returns early in a case in which the status does change.
* The first message of a duplicate entry is not marked in it and is processed twice if it comes again; a
  late copy of an older message prolongs the time a restarted sender is ignored.
* `O/parser.c:418`: a message of unknown type ends the loop over the packet.
* A message whose first copy comes over a link that is not symmetric is marked and not processed again.
* `lq_plugin_default_fpm.c:127` subtracts unsigned costs before it compares the difference.
* `olsr_update_kernel_routes` returns at once in this test bed: olsrd installs no routes.
* `O/scheduler.c` compares `last_run <= now` as absolute times; where `clock_t` wraps, one walk is skipped.

## 7. Not modelled, and why

The map covers the router, the plugin and the protocol engine of olsrd. The rest of the tree, by far the
larger part of its lines, is not:

* olsrd's other plugins (bmf, nameservice, httpinfo, tas with a Lua interpreter, quagga, secure, ...), the
  GUI, the switch and the ports to other systems: vendored; MP-OLSR neither uses nor changes them.
* olsrd's operating-system layer, configuration parser, infrastructure (containers, printing, cookies):
  I/O, or data structures used through their interface.
* Shortest paths and the routing table of olsrd (`olsr_spf.c`, `routing_table.c`, `process_routes.c`): their
  result is not used, since kernel routes are not installed; what MP-OLSR uses of them (local edges,
  backoff, change flags) is in `Lsdb`.
* Host and network associations (`hna_set.c`), the merging of neighbours by `insert_mid_alias`, relay
  selection and hysteresis without link quality (`mpr.c`, `hysteresis.c`).
* `ser_module`, `old_sereadmo`, `ser_valider_dev`, `ser_valider_tc`: the kernel variant that
  `ser_routing` replaced; a second model of the same logic would add lines and no question.
* Mojette coding, client, server: numeric transforms and measurement.
* Configuration, address printing and the manual path test of ser_routing: no state that changes.

## 8. Plan

Done: the router, the plugin, the protocol engine, the datagram service and its refinement, and the
theorems of section 5. Left, in this order:

1. The neighbour-table part of `insert_mid_alias` in `Neighbourhood`: two neighbours turn out to be one
   host, with links of both.
2. A database that is just a set of links as an abstract specification, implemented by `SerPathTc`; `View` and `After` of
   `PluginSyncProofs` are most of it.
3. `FloodReaches` under assumptions on the graph, with a log of transmissions in the invariant.
4. HNA entries and the routing table, if olsrd's own routes are to be used.
