# A verification of latency-based BGP best path selection

This directory specifies, in TLA+, the parts of the repository that make BGP
choose paths by measured latency: the shared table of next hops and its polling
in bgpd, the import of VPN routes, the best path selection with its latency
weights, the interned attributes these weights are written into, the sessions
that feed the table, and the tools that measure. TLC checks small instances;
TLAPS proves the main safety properties for every instance.

All paths below are relative to `src/`; `bgpd/` is `frr/bgpd/`.

## The system

The repository is a fork of FRR plus measuring tools.

| Part | Source | Here |
|---|---|---|
| Shared table, polling timer | `bgpd/bgp_twamp.c`, `bgp_twamp_ipc.h` | `BgpTwamp`, abstractly `LatencyTable` |
| Switch `bgp import check-latency`, creation and deletion of instances | `bgpd/bgp_vty.c`, `bgpd/bgpd.c` | `BgpTwamp`, `BestPath` |
| Hook at the transition to Established | `bgpd/bgp_fsm.c` | `BgpTwamp` |
| Session FSM, collision of two connections, packet processing, I/O pthread | `bgpd/bgp_fsm.c`, `bgp_packet.c`, `bgp_io.c`, `bgp_network.c` | `BgpFsm` |
| Import from the VPN table into VRFs | `bgpd/bgp_mplsvpn.c` | `BgpTwamp` (which latency), `BestPath` (which path), `AttrHash` (which references) |
| Comparison, selection, route processing | `bgpd/bgp_route.c` | `BestPath` |
| Multipath | `bgpd/bgp_mpath.c` | `BestPath` (result, not the pointer walk), `AttrHash` (the aggregate's references) |
| Clearing of a failed session's paths, nexthop tracking | `bgpd/bgp_route.c`, `bgp_nht.c` | `BestPath`; the session's side in `BgpFsm` |
| Interned attributes, Adj-RIB-In | `bgpd/bgp_attr.c`, `bgp_aspath.c`, `bgp_advertise.c` | `AttrHash`; what sharing an object does to its weight also in `BestPath` |
| Timer and event semantics | `frr/lib/event.c` | `BgpTwamp` (`event_add_timer`, fairness), `BgpFsm` (the list of ready events) |
| Agent threads | `twamp-light/src/main.cpp` | `TwampLight` |
| Probing: sender, reflector, packet | `twamp-light/src/twamp_light_*.cpp` | `TwampProbe` |
| Measuring daemon and reflector in Python | `twamp_daemon.py`, `twamp_reflector.py` | `BgpTwamp` (the daemon's loop over the table), `TwampProbe` (one measurement) |
| Rest of bgpd (policy, advertising, EVPN, ...), zebra, other daemons | `frr/` | not modelled; unchanged FRR |

How they interact: with the feature on in some instance, bgpd maps the segment
`/bgp_twamp_shm` and lists in it the addresses of its established IPv4 iBGP peers. A
measuring process stores latencies; a move of the segment's sequence number is to
announce them. A timer in bgpd looks at that number every 5 seconds and, when it
moved, imports all VPN routes into the VRFs again, weighing each by its latency.
Best path selection reads the latencies too: it rewrites the weights of two iBGP
paths before it compares them.

`PROJECT.json` lists every component, the source lines of every definition, the
hazards and what covers them.

## Modules

### BgpTwamp

State: the instances and which have the feature on, the sessions, the segment
(`named`, `nexthops`, `nh_count`, `sequence`), bgpd's process-wide statics
(`shm`, `timer` with its argument, `last_sequence`), the latency each VRF's copy
of a route was weighed by, where the main thread is (`pc`, `ctx`, `todo`,
`reimport`), and where the measuring process is (`daemon`, the slots its cycle has
yet to visit in `togo`, the `slot` it is at, the `target` it probes, the `entry` it
is about to write). bgpd's main thread runs one handler at a time. The two handlers
that take and release the segment's lock repeatedly, the collection and the
re-import, are one step per critical section, so that the measuring process
interleaves with them. Everything else is one step.

| Action | Code |
|---|---|
| `bgp_create`, `bgp_delete` | the functions in `bgpd.c`; the segment and timer are untouched by deletion |
| `bgp_import_check_latency`, `no_bgp_import_check_latency` | the two commands with `bgp_twamp_init` (all failure exits) and `bgp_twamp_cleanup` |
| `CollectPeer`, `InitDone` | `bgp_twamp_collect_nexthops` peer by peer, then the timer |
| `PeerEstablished`, `StoreStatus`, `PeerDown` | `bgp_fsm_change_status`: count, collect, and only then store the status |
| `VpnUpdate`, `ImportOne`, `ImportDone` | `vpn_leak_to_vrf_update` and its per-VRF function |
| `CheckStops`, `CheckSame`, `CheckChanged`, `RefreshDone` | `bgp_twamp_check_measurements` by its exits, with `vpn_leak_postchange_all` |
| `open_shared_memory`, `run_measurement_cycle`, `read_nexthop` | `twamp_daemon.py`: the mapping, the number of entries, the loop's next entry |
| `write_nexthop_latency`, `mark_nexthop_failed` | the end of the probes and the second read of the entry, by its index |
| `WriteBack` | the write of the whole entry, by its index; the sequence number stays |
| `DaemonEnds` | the process ends at any point |
| `AnnounceResults` | external: the move of the sequence number that bgpd waits for |
| `Restart` | bgpd dies in any handler and starts again; the segment survives |

A timer whose argument was deleted (`dangling`) reads freed memory; the model
lets `enabled` be either value then.

The measuring process is `twamp_daemon.py` with three repairs. As it stands its
`struct.unpack` and `struct.pack` calls raise (six fields for seven values, and 20
bytes for 24), it opens a path of the file system instead of the shared-memory
object, and its offsets and byte order are not those of `struct twamp_shm`: it ends
at its first read, which is `DaemonEnds`. The other actions are what the program
does once these are put right. Everything else is as in the source: it takes no
lock, it reads an entry, probes for seconds, reads the entry again and writes all of
it back by index, and it never moves the sequence number. Its write is one step;
a torn one could only show bgpd an old or a new field of an entry, and
`bgp_twamp_get_latency` reads the address, which the write does not change, the
flags and the latency.

Four history variables say what the properties have to except. `probed` is the
address a slot's result was measured on. `overtaken` means that the table was
emptied during the process's present cycle, and `spoiled` that such a cycle has
written to the table since: its slot may be another peer's by then. This takes a
bgpd that died and came back within one cycle; after a switch-off the new segment is
another object, which the process does not have mapped. `silent`
means that a result was stored since the sequence number last moved.

### LatencyTable

What the segment promises to the code that imports routes: a latency for each
address, a version, and whether the table is `intact`. In an intact table an answer
changes by a result for its own address only (`Result`), and a new version
(`Announce`) changes none. A result of a measurement that was begun for an earlier
table may do anything, and the table is not intact from then on (`Spoil`).
`BgpTwamp` implements it (`ImplementsLatencyTable`) under the mapping

    known   <- what bgp_twamp_get_latency answers for each address
    version <- sequence while the segment is mapped, else 0
    intact  <- not spoiled while the segment is mapped, else TRUE

That an answer changes only together with the version is what the polling relies
on, and it is not promised: `twamp_daemon.py` stores results and moves no sequence
number.

Adding a next hop is an `Announce` because the new slot is unmeasured and the
address was not listed before: a table that listed an address twice, or reused a
slot with its old result, would not implement it.

### BestPath

One destination of one instance: its list of paths, their attributes and flags,
the selected path, the multipaths, and the route zebra was last told of. Every
comparison of a walk is a step, because the measuring process may change a
latency between two of them, or two steps (`LookUp` first): the latencies of the two
paths are looked up one after the other. The walk follows the code: the two loops of
deterministic-med (`DmedOuter`, `DmedInner`, `DmedGroupEnd`, `DmedEnd`), the
selection that also reaps removed paths (`SelectStep`), the search for
multipaths (`MpathStep`), and `bgp_process_main_one`. `bgp_path_info_cmp` is a
chain of criteria, of which `LatencyWeights` is the one with a side effect: it
rewrites the weights (`AttrAfter`). The environment learns, changes and
withdraws paths, fails sessions (queued clearing, no return before the queue is
empty), loses nexthops, imports VPN paths and measures.

Attributes are interned and shared. `holders` says which paths of the destination
have one `struct attr`: storing a path finds the object of another path with equal
attributes, or makes a new one (`bgp_attr_intern`; both outcomes are allowed, since
the other object may have been rewritten and be in a bucket where it is not found).
A weight that is written reaches every holder, so the comparison of two paths with
one object leaves the second weight in both. The walk of another destination
rewrites weights here too (`Elsewhere`). `FastestWins` excepts a path that shares its
object with another usable one: there the two weights are equal and a later
criterion decides, as in the code. The multipath code tells imports apart by their
nexthops alone, hence the last clause of `PathsAssumption`, which is about
configurations with multipaths only.

Left out: confederations, AIGP, accept-own, peer-type and as-path relaxations,
EVPN, graceful-restart stale paths, add-path, differing label counts; and of
`evaluate_paths` (`bgpd/bgp_nht.c:1212`) the change of the IGP metric of a nexthop
that stays reachable, with its flag `BGP_PATH_IGP_CHANGED`: a metric is part of the
attributes a path arrives with.

### TwampLight

The agent's `main`, the sender loop and the threads calling `add_peer` and
`del_peer`. Nothing in the repository calls these two yet; the threads stand for the
callers that the mutex and the flag are there for. A call is three steps (lock,
store, flag and unlock); the sender's check of the flag and its unprotected copy are
separate. A copy that overlaps an update is a data race: the model lets the copy
hold the updated peer or not. A crash as a result of the race is not modelled.

### AttrHash

The hash table of interned attributes: objects at addresses with their content,
the content whose hash their bucket remembers, and the two reference counts
(`refcnt`, `aspath_refcnt`). The holders of references are named: a VPN path, its
Adj-RIB-In copy, its import, the aggregate over an import's multipaths and the
local variable of the running handler. A handler is one step per reference it
takes or drops, in the code's order, so that every early return shows where its
reference goes. Two of them lose it: a new path over the maximum-prefix limit,
and the import of a path that is being removed. `bgp_path_info_cmp` is the step
that writes a weight into an object that is in the table.

| Action | Code |
|---|---|
| `bgp_update_receive`, `bgp_adj_in_set`, `bgp_update_*`, `bgp_attr_unintern_sub` | an UPDATE from the parser to the end of `bgp_update` |
| `bgp_soft_reconfig_table` | inbound soft reconfiguration |
| `vpn_leak_to_vrf_update_all`, `vpn_leak_to_vrf_update_onevrf`, `leak_update`, `leak_update_removed` | the import, also at a refresh |
| `bgp_withdraw`, `bgp_path_info_free`, `bgp_path_info_mpath_free` | withdrawal and the last unlock of a path |
| `bgp_path_info_mpath_*` | the aggregate of an import |
| `bgp_path_info_cmp` | the latency step of the comparison |

The weight of a received attribute is the received one unless the peer or a route-map
sets another. A path that is announced again while an import still points to it is
restored in place; once it is off its node the code adds a second `path_info`
instead, which the model does not have, and drops the first one's reference as it
would have done.

A release that finds no bucket fails the assertion (`aborted`); one that finds
the bucket of another object with the same content leaves a freed object in the
table (`corrupted`). The model stops there.

### BgpFsm

The session with one neighbour. The configured peer and its doppelganger (a stub
for an accepted connection) own one connection each and may exchange them. The
main thread takes one task at a time off the list of ready events; the I/O
pthread delivers packets and errors at any time, also between two packets of one
run of `bgp_process_packet`. Handlers call each other, so each is an operator
from a state to the state it leaves; the actions apply them.

| Definition | Code |
|---|---|
| `FSM`, `Call`, `bgp_event_update` | the table of `bgp_fsm.c`, its functions, and the treatment of their results |
| `bgp_fsm_change_status`, `bgp_stop`, `peer_delete`, `bgp_clearing_completed` | the functions, with the events they add and cancel |
| `bgp_establish`, `peer_xfer_conn`, `CloseOther` | the exchange of connections and the end of the other one |
| `bgp_open_receive`, `bgp_collision_detect`, `bgp_update_receive` | what a packet does before its event |
| `RunTask`, `ProcessPacket`, `ProcessEnds` | the event loop and the loop of `bgp_process_packet` |
| `bgp_start_timer`, `bgp_connect_timer`, `bgp_holdtime_timer`, `bgp_connect_check`, `bgp_accept`, `bgp_clear_node_complete`, `bgp_fsm_nht_update`, `peer_clear` | the other callbacks |
| `bgp_process_reads`, `ReadFails`, `Breaks` | the I/O pthread and the network |

Routes are one bit (`rib`): whether the RIB has some of the configured peer.
Left out: graceful restart, DelayOpen, passive and dynamic neighbours, a hold
time of 0, the content of packets, and output (a NOTIFICATION is written at once
by the code too). The peer modelled may be started: it is active, its start is not
suppressed (shut down, prefix overflow) and its VRF is known. This leaves out

- in `bgp_timer_set`, the states without a timer that follow from these
  (`bgpd/bgp_fsm.c:325`, `:362`, and the hold time of 0 at `:384`, `:407`, `:432`);
- the failure exits of `bgp_start` (`:1834` to `:1873`) and its passive neighbour
  (`:1879` on);
- the early return of `peer_xfer_conn` when the address families of the two peers
  differ (`:149`);
- the refusals of `bgp_open_receive` after the collision rule
  (`bgpd/bgp_packet.c:1811`, `:1866`, `:1925`): an OPEN is refused before it here, so
  that one OPEN never closes both connections;
- the connections `bgp_accept` turns away before it looks at the peer's status
  (`bgpd/bgp_network.c:533` to `:586`).

A peer that is shut down, or passive, does wait without a timer: `NeverStranded`,
`StubResolved` and the theorem `NoneStranded` are about the others.

### TwampProbe

One measurement by the C++ sender (`TwampLightSender::run`) or by the Python
daemon's `measure_twamp_light`, the reflector, and a network that loses, delays,
reorders and duplicates. The two differ where it matters: the C++ sender
subtracts the time stamp that came back in the reply, as unsigned 64-bit numbers
of a clock that can be set; the Python one subtracts its own last send time of a
monotonic clock. Neither compares sequence numbers, so a late reply is taken for
the next probe's. A failing call skips one probe in C++ and ends the measurement
in Python.

### Proof and instance modules

`MCBgpTwamp`, `MCBestPath` and `MCAttrHash` hold the instances; `MCBestPath` also
holds the properties that quantify over the orders of the list. `BgpTwampProofs`,
`BestPathProofs`, `AttrHashProofs`, `BgpFsmSafetyProofs`, `TwampLightProofs` and
`TwampProbeProofs` hold the theorems; `BgpFsmProofs` holds the lemmas that carry the
invariant of the session FSM through every function of it, `BgpFsmStepProofs` those
that carry it through every step. Definitions marked "faulty variant" are
deliberately wrong versions of the definition that follows; each breaks one property
and shows that the property depends on the code.

## Runs

| Run | Instance | Shows | Distinct states |
|---|---|---|---|
| `twamp_table` | one instance, 3 peers with 3 addresses, 2 slots, 1 trouble | `TypeOK`, `UniqueNexthops`, `LatencyIsFresh`, `EstablishedPeersExact`, `CollectedPeersListed`, `SlotsStable`, `ImplementsLatencyTable` | 1,994,425 |
| `twamp_import` | default instance with a peer and its VPN route, and a VRF; 1 slot, announcements up to sequence 2, 2 troubles | `ImportsCurrent`, `PollingContinues`, `ChangeIsReimported` | 727,847 |
| `best_path_classic` | 3 eBGP peers and an iBGP peer, always-compare-med, 2 multipaths | `TypeOK`, `FibCurrent`, `BestIsPreferred`, `MultipathExact` | 829,784 |
| `best_path_med` | 3 paths whose MEDs admit no order, deterministic-med, the oldest path preferred, failing sessions and nexthop | `OrderIndependent`, `RouteUsable`, `SelectionStable`, `ScheduledIsProcessed`, `RemovedIsReaped` | 325,919 |
| `best_path_vpn` | 2 measured imports of one nexthop, which may share an object, 3 latencies, feature on and off | `FastestWins` | 883,144 |
| `attr_hash` | 2 VPN routes, one with soft reconfiguration, 5 addresses, 1 lost reference, 1 rewritten weight | `TypeOK`, `RefcountExact`, `AspathRefcountExact`, `TableCanonical` | 432,391 |
| `session_fsm` | 3 attempts to connect from either side, 3 packets per connection, 1 trouble, 2 packets per run | `TypeOK`, `EstablishedPeersExact`, `AssertionsHold`, `NeverStranded`, `CompletionFindsClearing`, `RoutesOrphanedByXfer`, `StubResolved` | 296,043 |
| `twamp_light_agent` | 2 callers, 2 peers, 3 calls | `TypeOK`, `SnapshotCurrent`, `PeersReachSender` | 17,196 |
| `twamp_probe` | both senders, 3 probes, timeout 2, one duplicated reply, one step of the clock | `TypeOK`, `LossNotUnderstated`, `SampleMatchesProbe`, `NeverUnderestimated`, `RunEnds` | 606,582 |

Three runs end in a counterexample; they are the findings below.

Bounds. The table and the import are two instances of `BgpTwamp`, because what the
one needs is idle in the other. In `twamp_table` three addresses compete for two
slots, so that the table is full and one address is dropped, and one instance
suffices since the segment is common to all; that instances share an address is left
to the theorems. `MaxTroubles` counts what undoes something: crashes of bgpd,
deletions, switch-offs, sessions lost, exits of the measuring process. One of them
is enough for a cycle that is overtaken by a table emptied meanwhile, for a segment
that survived, and for a segment that is new. The sequence number is moved from
outside in `twamp_import` only, up to `MaxSequence`: 2 suffices for the announcement
of an address and a change before or during a re-import. With `MaxTroubles = 2` the
feature is switched off and on, with another event in between, so that
`last_sequence` is of an earlier segment. `MaxSequence` also excludes the wrap of
the 32-bit counter, which would need 2^32 changes in 5 seconds. Three paths are the
least for which preferences can be cyclic; latencies 1, 3 and 5 with threshold 1 let
a latency move and its path stay the clear winner, or stop being it, between two
look-ups. `MaxCalls = 3` allows an addition, a deletion and an update during a copy.

`AttrHash`: five addresses are one more than two routes can fill in the running
handler, one lost reference (`MaxLost`) and one rewriting comparison
(`MaxRewrites`) are enough to leave an object behind and to reach every exit of
`bgp_attr_unintern`. An allocation that finds no free address has no successor.
Addresses are symmetric.

`BgpFsm`: `MaxAttempts = 3` lets the neighbour connect while a connect attempt is
under way and once more after one of the two is gone; three packets
(`MaxPackets`) bring a connection up and its first routes; `MaxTroubles` counts
nexthop reports, `clear bgp`, closed and broken connections and refused packets.
`rpkt_quanta = 2` makes `bgp_process_packet` end with packets left. Larger
instances, with separate bounds for own attempts, accepted connections, packets
and troubles, were checked while the model was developed, up to 1.5 million
states with two troubles, with the same results.

`TwampProbe`: three probes are the least with a late reply that is taken for the
next probe and another probe after that; `Modulus = 64` stands for 2^64 and is
above any time the run reaches, so that a wrap-around comes from the clock's
step only.

Deadlock is checked except where the system really may stop: the agent returns
(`twamp_light_agent`), a measurement ends (`twamp_probe`), bgpd aborts
(`attr_hash`), and a session whose attempts are used up waits (`session_fsm`).

Fairness. `BgpTwamp`: weak fairness of a handler that has begun, since the main
thread runs it to its end, and strong fairness of the due timer, since
`lib/event.c` moves an expired timer to the ready queue and serves that queue in
order, however many other events there are. `BestPath`: weak fairness of the
walk, the work queue that runs whenever a destination is on it. `TwampLight`:
threads are scheduled and the critical section is left. `BgpFsm`: the event loop
runs its tasks, an armed hold timer runs out and the work queue is run; this is
weak fairness, written out as "infinitely often disabled or taken". `TwampProbe`:
the sender is scheduled and time goes on. Nothing is assumed of operators,
neighbours, the network or the measuring process.

## What is proved

For every number of instances, peers, slots, paths, callers, every threshold and
every combination of the switches, from the named assumptions of the modules:

| Theorem | Property | Inductive invariant |
|---|---|---|
| `BgpTwampProofs` `TypeCorrect`, `NexthopsUnique`, `EstablishedPeersCorrect` | `TypeOK`, `UniqueNexthops`, `EstablishedPeersExact` | `TypeInv` |
| `LatencyFresh`, `SlotsKept` | `LatencyIsFresh`, `SlotsStable` | `FreshInv`; a case split of every step into emptied, added, written back, untouched (`SegmentCases`) |
| `ImportsAreCurrent` | `ImportsCurrent` | `ImportInv` |
| `PeersAreListed` | `CollectedPeersListed` | `CollectInv` |
| `PollingKept` | `PollingContinues` | `ListenerInv`, `CollectInv` |
| `TableImplemented` | `ImplementsLatencyTable` | `TypeInv`, with the case split `SegmentCases` |
| `BestPathProofs` `TypeCorrect` | `TypeOK` | `IInv` |
| `FastestSelected` | `FastestWins` | `FastInv`, `Divided` |
| `RouteIsUsable` | `RouteUsable` | `ScanInv`, `UsableInv` |
| `FibIsCurrent` | `FibCurrent` | `FibInv` |
| `BestPreferred` (`Modes \subseteq {FALSE}`) | `BestIsPreferred` | `OffInv`, `PickInv` |
| `MultipathsExact` (`Modes \subseteq {FALSE}`) | `MultipathExact` | `OffInv`, `MpathInv` |
| `AttrHashProofs` `CountsExact`, `Canonical`, `OnlyWritesBreakRelease` | `RefcountExact`, `TableCanonical`, and `ReleaseFindsObject` while no weight was rewritten | `IInv` (`HeapInv`, `Control`) |
| `AspathCountsExact`, `TypeCorrect` | `AspathRefcountExact`, `TypeOK` | `IInv`, `AspathInv`, `ParserInv` |
| `BgpFsmSafetyProofs` `Invariant`, `NoAssertionFails`, `NoneStranded`, `CompletionsFindClearing`, `RoutesHaveTheirSession`, `PeersCounted`, `TypeCorrect` | `AssertionsHold`, `NeverStranded`, `CompletionFindsClearing`, `RoutesOrphanedByXfer`, `EstablishedPeersExact`, `TypeOK` | `Inv`, which is `During` between two tasks |
| `TwampLightProofs` `SnapshotIsCurrent`, `Types` | `SnapshotCurrent`, `TypeOK` | `SnapInv` |
| `TwampProbeProofs` `Types`, `SamplesMatch`, `LossIsNotUnderstated`, `NothingUnderestimated` | `TypeOK`, `SampleMatchesProbe`, `LossNotUnderstated`, `NeverUnderestimated` | where the datagrams of each probe are |

Why the strengthenings are needed:

- `TypeInv`. The FSM decrements `established_peers` without a test for zero, so
  that its type rests on the count being exact, which during a handler means
  one more than the stored statuses. Its other half, `DaemonHolds`, is about the
  measuring process: unless its cycle was overtaken, the slots it has yet to visit
  are in use, and the slot it probes or is about to write has the address it read
  there. This is what makes an unlocked write by index harmless: `UniqueNexthops`,
  `LatencyIsFresh` and `SlotsStable` rest on it.
- `FreshInv`. An entry in use that says it was measured was measured on its address.
- `ImportInv`. In the middle of a re-import a weight may be old; it is then
  still to be imported, or the sequence number has moved again, or a result was
  stored without a move of it.
- `CollectInv`. While the peer list is walked, a peer is behind the cursor and
  listed, or still ahead.
- `IInv`. The walk removes elements from the list it walks; the cursors stay on
  listed, distinct paths, and whatever was picked is usable.
- `FastInv`. The clear winner is still ahead of the walk or is the best so far,
  in each of the passes. A comparison that involves it cannot be lost, whatever
  weights earlier comparisons left. A latency that was looked up and changed since
  needs a bound that outlives the change: the history keeps pairs of a path and a
  latency the path never exceeded and the others never came within the threshold
  of. `Divided` says that the holders of an object all agree on who holds it, so
  that a write to one path's object leaves another object's weight alone.
- `UsableInv`. A route may use a path of a failed session only while its removal
  is queued; `ScanInv` says the walk loses no usable path.
- `FibInv`. Zebra's copy may differ from the table only in paths flagged as
  changed, and a flag on an installed path means that a walk is scheduled.
- `SnapInv`. A disturbed copy implies a caller that has not set the flag yet, or
  a flag set since.
- `TableImplemented`. That a new slot changes no answer needs that no earlier
  slot has its address, and that a result that is written back goes to a slot in use
  of the address probed, or spoils the table.
- `IInv` of `AttrHashProofs`. A count is exact only together with what the
  position in the handler says of its local reference: which of the holders may
  and must point somewhere (`Control`), and that nobody points to a free address
  (`HeapInv`). The counts do not depend on the hash, so they survive the
  rewriting; the one-object-per-content half holds while `rewrites` is 0.
- `AspathInv`. An AS path is counted once per reference to the attributes that
  have it. The references are pairs of an address and a number up to the address's
  count, so that a step of one count adds or takes one pair, and the cardinality
  of a finite set follows; no sum has to be taken apart.
- `During(t, c, e)`. It is stated of a state `t` in which event `e` of connection
  `c` is being handled, because one handler goes through many states: a row of
  the FSM table stops timers, cancels events, closes, deletes or exchanges
  connections, and only then is the status changed. One lemma says what each
  function does to a state, one for each kind of row that it leads from `During`
  to `Inv`, and one for each action (`BgpFsmStepProofs`) that it keeps `Inv`. Its
  clauses:
  - `Typed`: the ranges, and that `established_peers` is the number of
    connections that are Established. `bgp_accept` stores a status without
    counting; that is sound because the connection it reuses is Deleted.
  - `Local`: what each status implies of the connection's timers, its I/O, its
    buffered packets and its waiting events. `NeverStranded` and the absence of
    failed assertions follow from it. A connection in Connect or Active may be
    without a connect timer, but then an event of it is waiting.
  - `Owners`: the configured peer's connection exists, and the other one exactly
    while there is a stub.
  - `Pair`: a second connection that gets to OpenConfirm beside a session has an
    event waiting that stops it, put there by the collision rule. If such a
    connection takes the session's place all the same, by an exchange while the
    removal of the routes is queued, it is stopped too, and its Clearing is the
    one that the removal completes.
  - `Routes`: the routes and the waiting `Clearing_Completed` belong to a session
    that is Established or Clearing; it may be lost for good when an exchange
    fails (`xfer_failed`). `Guarded` is about the order in the list: a completion
    that waits for a connection which is not Clearing yet is behind the event that
    makes it so.

  Cancelling is a filter of the event list, whose effect needs an induction over
  the list. The lemmas of both modules take it as the hypothesis `CancelRests`;
  the lemma `Cancelled` of `BgpFsmSafetyProofs` proves it, and `Invariant` rests
  on no hypothesis.
- `PickInv`. Under `always-compare-med`, `bgp_path_info_cmp` orders the paths that
  are no imports: of two paths one is preferred to the other, and the preference is
  transitive, through the stages of the comparison one by one. Every usable path
  the walk has passed has then lost to one that is still in the race.
  `OffInv` keeps imports and rewritten weights out. That is the hypothesis
  `Modes \subseteq {FALSE}`: `check-latency` is not used. It cannot be dropped for
  the property as stated: turning the check off schedules no walk and leaves the
  weights that the comparisons wrote, so that the selected path is then the one
  of the latencies.
- `MpathInv`. The candidates are the usable paths met so far that tie with the
  best one. The code takes one for each nexthop in the order of the list up to the
  limit; that the limit is met exactly is shown by counting the nexthops taken.
- `TwampProbeProofs`. That a probe yields one sample needs that its datagram is
  in one place at a time, on the way out, on the way back, in the socket or
  among the samples, unless it was duplicated.

Where an induction over data is needed (a filtered list, the candidates that are
counted), the proofs use that a set of numbers that is not empty has a least
element (`Least`, from the well-founded order of the naturals), applied to the
set of the lengths for which the claim would fail.

Only model-checked: the liveness properties (`ChangeIsReimported`,
`ScheduledIsProcessed`, `RemovedIsReaped`, `PeersReachSender`, `RunEnds`,
`StubResolved`), since fairness is out of the prover's reach; and
`OrderIndependent` and `SelectionStable`, which compare the results of whole
selections over all orders of the list, written with folds that take an operator
as an argument, which the provers cannot instantiate.

## Findings

1. `import_stale`. The block of the feature test in
   `vpn_leak_to_vrf_update_onevrf` encloses the import itself: with the feature
   off nothing is imported or refreshed.
2. `attr_release`. The comparison writes weights into interned attributes. The
   weight is part of the hash key, so the release of the last reference looks in
   the wrong bucket and the assertion at `bgpd/bgp_attr.c:1258` fails.
   `OnlyWritesBreakRelease` proves that this is the only way to get there.
3. `session_routes_left`. `peer_xfer_conn` can fail after it has exchanged the
   connections. The steps: the collision rule tells the stub to stop, but a
   KEEPALIVE of it is queued already; the configured connection becomes
   Established and brings routes; the stub's KEEPALIVE starts the exchange,
   which finds the kept socket reset. Both connections are stopped, the
   configured peer from OpenConfirm and so without Clearing, and its routes stay
   in the RIB. `RoutesOrphanedByXfer` shows that nothing else leaves routes
   behind.

Observations without a run of their own:

- `bgp_delete` leaves the measurement timer pending with the deleted instance as its
  argument (`DeletedInstanceHasNoTimer` in `BgpTwamp` does not hold).
- `twamp_daemon.py` never moves the sequence number, so that its results reach the
  imports only with the next address that bgpd lists; the comparisons of the best
  path selection read them at once.
- A measuring cycle during which bgpd dies, comes back and lists its peers in another
  order writes a result, or an old address, to another peer's slot (`spoiled`).
- Two imports that share a `struct attr` end a comparison by latency with the same
  weight, and the faster one need not be selected.
- The hook in `bgp_fsm_change_status` collects the peers before the new status is
  stored, so the peer that triggers it is skipped until a later peer comes up
  (`EstablishedPeerListed` in `BgpTwamp` does not hold; `CollectedPeersListed`
  excepts that peer).
- Weights written by a comparison of measured paths stay in the attributes and
  decide later comparisons with unmeasured ones, against the comment at
  `bgpd/bgp_route.c:941`.
- Both connections of one neighbour can be Established at the same time, between
  the exchange and the BGP_Stop of the one that lost; the count stays exact.
- `bgp_holdtime_timer` arms the timer again when input is waiting, but raises
  Hold_Timer_expired all the same; its comment says the input is given a chance.
- A late reply makes the Python daemon's sample too small, a step of the system's
  clock makes the C++ sender's wrong in either direction.
- A new path over the maximum-prefix limit, and the import of a path that is being
  removed, leave a reference that is never released.
- When the instance that armed the timer has the feature switched off, polling
  ends for every instance (`SegmentIsPolled` in `BgpTwamp`).
- After switching off and on, a new segment that has counted up to the value of
  `last_sequence` is taken for unchanged (`UnchangedMeansCurrent`).
- The timer may fire when only VRF instances exist and then meets the assertion
  in `vpn_leak_postchange_all` (`DefaultExistsAtRefresh`).
- Latencies that tie pairwise but not end to end (1, 2, 3 with threshold 1) make
  the selected path depend on the order of the list, deterministic-med included:
  `OrderIndependent` fails for the iBGP instance of `MCBestPath` then.
- Switching the feature off in one instance unlinks the segment for all.

## Not modelled

- `bgp_twamp_remove_nexthop` (no caller) and `bgp_twamp_collect_new.c` (not
  built).
- A holder of the segment's lock that dies: the mutex is not robust, and bgpd's
  main thread would wait for good. Critical sections always complete here.
- The layout and byte order of the segment, in which `twamp_daemon.py` and
  `struct twamp_shm` differ.
- Parameters `probe-cycle` and `packet-count`, which bgpd only stores.
- In the session: graceful restart, DelayOpen, passive and dynamic neighbours,
  capabilities, the pthread that writes KEEPALIVEs, and output.
- The pointer walk of `bgp_path_info_mpath_update`, of which `BestPath` has the
  result.
- A composition of `BgpTwamp`, `BestPath` and `AttrHash`. They meet in
  `bgp_twamp_get_latency` and in the weight of an attribute: `LatencyTable` is
  what `BestPath`'s free choice of a latency stands for, and `AttrHash` takes any
  outcome of a comparison.
- The rest of FRR: nearly all of its roughly 850,000 lines are daemons and protocols
  the latency feature does not touch (zebra, ospfd, isisd, pimd, ...) and the parts
  of bgpd that are unchanged (policy, advertising, EVPN, FlowSpec, monitoring). They
  reach the models as sessions that come and go, attributes that arrive, and
  nexthops that change. The models cover what the repository adds to FRR and the FRR
  code it leans on, a small share of those lines.
