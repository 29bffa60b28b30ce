------------------------------ MODULE BgpTwamp ------------------------------
(***************************************************************************)
(* The latency feature of bgpd: frr/bgpd/bgp_twamp.c and its call sites in *)
(* bgp_vty.c, bgp_fsm.c, bgpd.c and bgp_mplsvpn.c; and the process that    *)
(* measures, twamp_daemon.py.                                              *)
(*                                                                         *)
(* bgpd keeps one shared-memory segment with the addresses to measure, and *)
(* one timer that looks at the segment's sequence number every 5 seconds   *)
(* and re-imports the VPN routes when it moved.  Both are process-wide     *)
(* statics, whereas the feature is switched on and off per BGP instance.   *)
(*                                                                         *)
(* bgpd's main thread runs one handler at a time.  The two handlers that   *)
(* take and release shm->lock several times (the collection of next hops   *)
(* and the re-import) are modelled one critical section per step, so that  *)
(* the measuring process runs between them; `pc' is the handler the main   *)
(* thread is in.  Code that holds the lock, or that runs while no other    *)
(* process can see it, is one step.  The measuring process takes no lock:  *)
(* each of its reads of the segment and its write are steps of their own.  *)
(***************************************************************************)
EXTENDS Naturals, Sequences, FiniteSets, Functions

CONSTANTS
  Instances,     \* struct bgp objects that can be configured
  Default,       \* the instance of type BGP_INSTANCE_TYPE_DEFAULT
  Peers,         \* struct peer objects
  Addrs,         \* IPv4 addresses of peers
  peerList,      \* bgp->peer: the peers of each instance, in list order
  su,            \* peer->connection->su, an address
  IBGP,          \* the peers whose sort is BGP_PEER_IBGP
  INET,          \* the peers whose address is an AF_INET one
  Advertising,   \* the peers that announce a VPN route
  Latencies,     \* the values latency_ms can get from a measurement
  MAX_NEXTHOPS,  \* capacity of shm->nexthops
  Deletable,     \* bound: the instances the operator may delete
  MaxSequence,   \* bound: no announcement once shm->sequence is this high
  MaxTroubles    \* bound: crashes, deletions, switch-offs, session losses, daemon exits

\* UINT32_MAX, "not measured".
CONSTANT UINT32_MAX

\* No instance: an empty timer.
CONSTANT NULL

VRFs == Instances \ {Default}

ASSUME InstancesAssumption ==
  /\ Default \in Instances
  /\ NULL \notin Instances
  /\ peerList \in [Instances -> Seq(Peers)]
  /\ su \in [Peers -> Addrs]
  /\ IBGP \subseteq Peers
  /\ INET \subseteq Peers
  /\ Deletable \subseteq Instances

\* Every peer is in the list of exactly one instance, peer->bgp.
ASSUME PeersAssumption ==
  /\ IsFiniteSet(Peers)
  /\ NULL \notin Peers
  /\ \A p \in Peers :
       \E b \in Instances : \A c \in Instances : p \in Range(peerList[c]) <=> c = b

ASSUME NumbersAssumption ==
  /\ MAX_NEXTHOPS \in Nat \ {0}
  /\ MaxSequence \in Nat
  /\ MaxTroubles \in Nat
  /\ UINT32_MAX \notin Latencies
  /\ NULL \notin Latencies \cup {UINT32_MAX}

VARIABLES
  configured,      \* bm->bgp, the set of instances that exist
  enabled,         \* bgp->import_latency_cfg.enabled
  established,     \* the peers whose connection->status is Established
  established_peers, \* bgp->established_peers, a counter
  routes,          \* the peers of Default whose VPN route is in the VPN table
  named,           \* TWAMP_SHM_NAME exists in the shm file system
  nexthops,        \* shm->nexthops, the whole array
  nh_count,        \* shm->nh_count
  sequence,        \* shm->sequence
  shm,             \* bgpd has the segment mapped (shm # NULL, shm_fd >= 0)
  timer,           \* argument of the pending measurement_check_timer
  dangling,        \* the timer's argument was passed to bgp_delete
  last_sequence,   \* the static last_sequence
  weighed,         \* latency by which the VRF's copy of a peer's route was weighed
  pc,              \* handler the main thread is in
  ctx,             \* that handler's argument, an instance or a peer
  todo,            \* collection: peers still to visit
  reimport,        \* import: <<vrf, peer>> pairs still to import
  daemon,          \* where the measuring process is
  togo,            \* the slots its cycle has yet to visit
  slot,            \* the slot it is measuring
  target,          \* the address it read there, and probes
  entry,           \* what it is about to write back to the slot
  troubles,        \* how much of MaxTroubles is used
  covered,         \* history: VRFs the last re-import of this segment included
  collected,       \* history: instances whose peers this table has collected
  latest,          \* history: the peer an instance established after collecting
  probed,          \* history: the address a slot's result was measured on
  overtaken,       \* history: the table was emptied during the process's cycle
  spoiled,         \* history: such a cycle has written to this table
  silent           \* history: a result was stored since sequence last moved

segVars == <<named, nexthops, nh_count, sequence>>
cfgVars == <<configured, enabled, established, established_peers>>
ribVars == <<routes, weighed>>
busyVars == <<pc, ctx, todo, reimport>>
daemonVars == <<daemon, togo, slot, target, entry>>
history == <<covered, collected, latest>>
results == <<probed, overtaken, spoiled, silent>>
measuring == <<daemonVars, results>>
vars == <<cfgVars, segVars, shm, timer, dangling, last_sequence, ribVars,
          busyVars, measuring, troubles, history>>

-----------------------------------------------------------------------------
(* struct twamp_nexthop.  padding is always 0 and last_updated is never    *)
(* read, so neither is kept.  Slots at or above nh_count keep whatever an  *)
(* earlier table left there.                                               *)

Slots == 0 .. MAX_NEXTHOPS - 1

Nexthop == [addr : Addrs \cup {NULL}, latency_ms : Latencies \cup {UINT32_MAX, 0},
            active : BOOLEAN, measured : BOOLEAN]

\* What ftruncate leaves in a new object.
ZeroNexthop == [addr |-> NULL, latency_ms |-> 0, active |-> FALSE, measured |-> FALSE]

\* The entry bgp_twamp_add_nexthop appends.
NewNexthop(a) ==
  [addr |-> a, latency_ms |-> UINT32_MAX, active |-> TRUE, measured |-> FALSE]

Used == {i \in Slots : i < nh_count}

\* bgp_twamp_get_latency: the first measured and active entry of the address.
Answering(a) ==
  {i \in Used : nexthops[i].addr = a /\ nexthops[i].measured /\ nexthops[i].active}

bgp_twamp_get_latency(a) ==
  IF ~shm \/ Answering(a) = {}
  THEN UINT32_MAX
  ELSE nexthops[CHOOSE i \in Answering(a) : \A j \in Answering(a) : i <= j].latency_ms

\* Faulty variant: no search for an existing entry.
AppendAlways(a) ==
  IF shm /\ nh_count < MAX_NEXTHOPS
  THEN /\ nexthops' = [nexthops EXCEPT ![nh_count] = NewNexthop(a)]
       /\ nh_count' = nh_count + 1
       /\ sequence' = sequence + 1
       /\ UNCHANGED named
  ELSE UNCHANGED segVars

\* Faulty variant: an entry that is found is set up anew, as a change.
AddAnew(a) ==
  LET known == {i \in Used : nexthops[i].addr = a}
  IN IF ~shm THEN UNCHANGED segVars
     ELSE IF known # {}
     THEN /\ nexthops' = [nexthops EXCEPT
                            ![CHOOSE i \in known : \A j \in known : i <= j] = NewNexthop(a)]
          /\ sequence' = sequence + 1
          /\ UNCHANGED <<named, nh_count>>
     ELSE IF nh_count < MAX_NEXTHOPS
     THEN /\ nexthops' = [nexthops EXCEPT ![nh_count] = NewNexthop(a)]
          /\ nh_count' = nh_count + 1
          /\ sequence' = sequence + 1
          /\ UNCHANGED named
     ELSE UNCHANGED segVars

\* bgp_twamp_add_nexthop, one critical section.  A full table drops the address.
bgp_twamp_add_nexthop(a) ==
  LET known == {i \in Used : nexthops[i].addr = a}
  IN IF ~shm THEN UNCHANGED segVars
     ELSE IF known # {}
     THEN /\ nexthops' = [nexthops EXCEPT
                            ![CHOOSE i \in known : \A j \in known : i <= j].active = TRUE]
          /\ UNCHANGED <<named, nh_count, sequence>>
     ELSE IF nh_count < MAX_NEXTHOPS
     THEN /\ nexthops' = [nexthops EXCEPT ![nh_count] = NewNexthop(a)]
          /\ nh_count' = nh_count + 1
          /\ sequence' = sequence + 1
          /\ UNCHANGED named
     ELSE UNCHANGED segVars

-----------------------------------------------------------------------------
Init ==
  /\ configured = {}
  /\ enabled = [b \in Instances |-> FALSE]
  /\ established = {}
  /\ established_peers = [b \in Instances |-> 0]
  /\ routes = {}
  /\ named = FALSE
  /\ nexthops = [i \in Slots |-> ZeroNexthop]
  /\ nh_count = 0
  /\ sequence = 0
  /\ shm = FALSE
  /\ timer = NULL
  /\ dangling = FALSE
  /\ last_sequence = 0
  /\ weighed = [v \in VRFs |-> [p \in Peers |-> NULL]]
  /\ pc = "idle"
  /\ ctx = NULL
  /\ todo = <<>>
  /\ reimport = {}
  /\ daemon = "off" /\ togo = {} /\ slot = 0 /\ target = NULL /\ entry = ZeroNexthop
  /\ troubles = 0
  /\ covered = {}
  /\ collected = {}
  /\ latest = [b \in Instances |-> NULL]
  /\ probed = [i \in Slots |-> NULL]
  /\ overtaken = FALSE /\ spoiled = FALSE /\ silent = FALSE

\* event_add_timer: a timer that is still pending is kept with its argument.
event_add_timer(b) ==
  IF timer = NULL
  THEN timer' = b /\ dangling' = FALSE
  ELSE UNCHANGED <<timer, dangling>>

\* One of the bounded number of events that undo something.
Trouble == troubles < MaxTroubles /\ troubles' = troubles + 1

\* The main thread enters, or leaves, a handler of several steps.
Enter(handler, arg, peers, pairs) ==
  pc' = handler /\ ctx' = arg /\ todo' = peers /\ reimport' = pairs

Leave == Enter("idle", NULL, <<>>, {})

\* The measuring process is done with an entry.
Forget(state) ==
  daemon' = state /\ slot' = 0 /\ target' = NULL /\ entry' = ZeroNexthop

-----------------------------------------------------------------------------
(* Instances.                                                              *)

\* bgp_create: the feature starts disabled, so its bgp_twamp_init returns at once.
bgp_create(b) ==
  /\ pc = "idle"
  /\ b \notin configured
  /\ configured' = configured \cup {b}
  /\ enabled' = [enabled EXCEPT ![b] = FALSE]
  /\ established_peers' = [established_peers EXCEPT ![b] = 0]
  /\ UNCHANGED <<established, ribVars, segVars, shm, timer, dangling,
                 last_sequence, busyVars, measuring, troubles, history>>

PeersOf(b) == Range(peerList[b])

\* "no router bgp", then bgp_delete: every peer goes to Deleted and its routes
\* go.  The default instance stays while a VRF imports from it.  The segment and
\* the timer are left as they are; a pending timer keeps the old pointer.
bgp_delete(b) ==
  /\ pc = "idle"
  /\ Trouble
  /\ b \in configured \cap Deletable
  /\ b = Default => configured = {Default}
  /\ configured' = configured \ {b}
  /\ enabled' = [enabled EXCEPT ![b] = FALSE]
  /\ established' = established \ PeersOf(b)
  /\ established_peers' = [established_peers EXCEPT ![b] = 0]
  /\ routes' = routes \ PeersOf(b)
  /\ weighed' = [v \in VRFs |-> [p \in Peers |->
                   IF v = b \/ p \in PeersOf(b) THEN NULL ELSE weighed[v][p]]]
  /\ dangling' = (dangling \/ timer = b)
  /\ covered' = covered \ {b}
  /\ collected' = collected \ {b}
  /\ UNCHANGED <<segVars, shm, timer, last_sequence, busyVars, measuring, latest>>

-----------------------------------------------------------------------------
(* "bgp import check-latency" and its "no" form.                           *)

\* The calls bgp_twamp_init makes when the segment is not mapped: shm_open, then
\* ftruncate and mmap.  A failure after shm_open leaves the name behind.
OpenFails == UNCHANGED <<segVars, shm>>

SizeOrMapFails == named' = TRUE /\ UNCHANGED <<nexthops, nh_count, sequence, shm>>

\* The history of a table starts anew.  A measuring process whose cycle is under
\* way has been overtaken: it goes on with what it read of the table before.
NewTable(cycle) ==
  /\ probed' = [i \in Slots |-> NULL]
  /\ overtaken' = cycle
  /\ spoiled' = FALSE
  /\ silent' = FALSE

InCycle == togo # {} \/ daemon \in {"probe", "store"}

\* The array of a segment that already existed is not cleared, and a measuring
\* process that has it mapped is not told.
MapSegment ==
  /\ named' = TRUE
  /\ nh_count' = 0
  /\ sequence' = 0
  /\ shm' = TRUE
  /\ NewTable(InCycle)
  /\ UNCHANGED nexthops

\* Faulty variant: the test for an existing mapping is missing.
InitAlways(b) ==
  /\ pc = "idle"
  /\ b \in configured
  /\ enabled' = [enabled EXCEPT ![b] = TRUE]
  /\ MapSegment
  /\ Enter("init", b, peerList[b], {})
  /\ UNCHANGED <<configured, established, established_peers, ribVars, timer,
                 dangling, last_sequence, daemonVars, troubles, history>>

\* bgp import check-latency: enable, then bgp_twamp_init up to the collection.
bgp_import_check_latency(b) ==
  /\ pc = "idle"
  /\ b \in configured
  /\ enabled' = [enabled EXCEPT ![b] = TRUE]
  /\ \/ /\ shm
        /\ Enter("init", b, peerList[b], {})
        /\ UNCHANGED <<segVars, shm, results>>
     \/ /\ ~shm
        /\ MapSegment
        /\ Enter("init", b, peerList[b], {})
     \/ /\ ~shm
        /\ OpenFails \/ SizeOrMapFails
        /\ UNCHANGED <<busyVars, results>>
  /\ UNCHANGED <<configured, established, established_peers, ribVars, timer,
                 dangling, last_sequence, daemonVars, troubles, history>>

\* bgp_twamp_cleanup: unmap and unlink, whoever else uses the segment.  The next
\* segment of that name is a new object, which reads as zeros; a measuring process
\* that has the old one mapped keeps writing there.
bgp_twamp_cleanup ==
  IF shm
  THEN /\ shm' = FALSE
       /\ named' = FALSE
       /\ nexthops' = [i \in Slots |-> ZeroNexthop]
       /\ nh_count' = 0
       /\ sequence' = 0
       /\ Forget("off") /\ togo' = {}
       /\ NewTable(FALSE)
  ELSE UNCHANGED <<shm, segVars, measuring>>

\* no bgp import check-latency.  The timer is not cancelled and last_sequence
\* keeps its value.
no_bgp_import_check_latency(b) ==
  /\ pc = "idle"
  /\ Trouble
  /\ b \in configured
  /\ enabled' = [enabled EXCEPT ![b] = FALSE]
  /\ bgp_twamp_cleanup
  /\ covered' = {} /\ collected' = {}
  /\ UNCHANGED <<configured, established, established_peers, ribVars, timer,
                 dangling, last_sequence, busyVars, latest>>

-----------------------------------------------------------------------------
(* bgp_twamp_collect_nexthops, one peer at a time.                         *)

\* The peer list's next element: iBGP, Established and IPv4 peers are added.
CollectPeer ==
  /\ pc \in {"init", "fsm"}
  /\ todo # <<>>
  /\ LET p == Head(todo) IN
       IF p \in IBGP /\ p \in established /\ p \in INET
       THEN bgp_twamp_add_nexthop(su[p])
       ELSE UNCHANGED segVars
  /\ silent' = (silent /\ sequence' = sequence)
  /\ todo' = Tail(todo)
  /\ UNCHANGED <<cfgVars, ribVars, shm, timer, dangling, last_sequence, pc, ctx,
                 reimport, daemonVars, troubles, history, probed, overtaken, spoiled>>

\* bgp_twamp_init starts the timer once the next hops are collected.
InitDone ==
  /\ pc = "init"
  /\ todo = <<>>
  /\ event_add_timer(ctx)
  /\ Leave
  /\ collected' = collected \cup {ctx}
  /\ latest' = [latest EXCEPT ![ctx] = NULL]
  /\ UNCHANGED <<cfgVars, ribVars, segVars, shm, last_sequence, measuring, troubles,
                 covered>>

-----------------------------------------------------------------------------
(* bgp_fsm_change_status.                                                  *)

Owner(p) == CHOOSE b \in Instances : p \in PeersOf(b)

\* Faulty variant: no collection when a peer becomes established.
EstablishedWithoutHook(p) ==
  /\ pc = "idle"
  /\ Owner(p) \in configured
  /\ p \notin established
  /\ established_peers' = [established_peers EXCEPT ![Owner(p)] = @ + 1]
  /\ established' = established \cup {p}
  /\ UNCHANGED <<configured, enabled, busyVars, ribVars, segVars, shm, timer,
                 dangling, last_sequence, measuring, troubles, history>>

\* To Established: count, collect, and only then store the new status.
PeerEstablished(p) ==
  /\ pc = "idle"
  /\ Owner(p) \in configured
  /\ p \notin established
  /\ established_peers' = [established_peers EXCEPT ![Owner(p)] = @ + 1]
  /\ IF enabled[Owner(p)] /\ shm
     THEN Enter("fsm", p, peerList[Owner(p)], {}) /\ UNCHANGED established
     ELSE established' = established \cup {p} /\ UNCHANGED busyVars
  /\ UNCHANGED <<configured, enabled, ribVars, segVars, shm, timer, dangling,
                 last_sequence, measuring, troubles, history>>

StoreStatus ==
  /\ pc = "fsm"
  /\ todo = <<>>
  /\ established' = established \cup {ctx}
  /\ Leave
  /\ collected' = collected \cup {Owner(ctx)}
  /\ latest' = [latest EXCEPT ![Owner(ctx)] = ctx]
  /\ UNCHANGED <<configured, enabled, established_peers, ribVars, segVars, shm,
                 timer, dangling, last_sequence, measuring, troubles, covered>>

\* Faulty variant: the count is not taken back.
DownUncounted(p) ==
  /\ pc = "idle"
  /\ p \in established
  /\ Trouble
  /\ established' = established \ {p}
  /\ routes' = routes \ {p}
  /\ weighed' = [v \in VRFs |-> [weighed[v] EXCEPT ![p] = NULL]]
  /\ UNCHANGED <<configured, enabled, established_peers, segVars, shm, timer,
                 dangling, last_sequence, busyVars, measuring, history>>

\* Faulty variant: the old status is not looked at.
DownAnyStatus(p) ==
  /\ pc = "idle"
  /\ Owner(p) \in configured
  /\ Trouble
  /\ established' = established \ {p}
  /\ established_peers' = [established_peers EXCEPT ![Owner(p)] = @ - 1]
  /\ routes' = routes \ {p}
  /\ weighed' = [v \in VRFs |-> [weighed[v] EXCEPT ![p] = NULL]]
  /\ UNCHANGED <<configured, enabled, segVars, shm, timer, dangling,
                 last_sequence, busyVars, measuring, history>>

\* Out of Established, through Clearing: the peer's routes are cleared.  The
\* segment is not touched.
PeerDown(p) ==
  /\ pc = "idle"
  /\ p \in established
  /\ Trouble
  /\ established' = established \ {p}
  /\ established_peers' = [established_peers EXCEPT ![Owner(p)] = @ - 1]
  /\ routes' = routes \ {p}
  /\ weighed' = [v \in VRFs |-> [weighed[v] EXCEPT ![p] = NULL]]
  /\ UNCHANGED <<configured, enabled, segVars, shm, timer, dangling,
                 last_sequence, busyVars, measuring, history>>

-----------------------------------------------------------------------------
(* Import of VPN routes into VRFs.                                         *)

\* A VPN route from a peer of the default instance is offered to every VRF.
VpnUpdate(p) ==
  /\ pc = "idle"
  /\ p \in established
  /\ p \in PeersOf(Default) \cap Advertising
  /\ routes' = routes \cup {p}
  /\ Enter("import", p, <<>>, (VRFs \cap configured) \X {p})
  /\ UNCHANGED <<cfgVars, weighed, segVars, shm, timer, dangling, last_sequence,
                 measuring, troubles, history>>

\* vpn_leak_to_vrf_update_onevrf: the copy is made, and weighed by the latency
\* read now, only when the VRF has the feature on and the peer is an iBGP one.
ImportOne ==
  /\ pc \in {"import", "refresh"}
  /\ \E pair \in reimport :
       LET v == pair[1]
           p == pair[2]
       IN /\ IF enabled[v] /\ p \in IBGP
             THEN weighed' = [weighed EXCEPT ![v][p] =
                    IF p \in INET THEN bgp_twamp_get_latency(su[p]) ELSE UINT32_MAX]
             ELSE UNCHANGED weighed
          /\ reimport' = reimport \ {pair}
  /\ UNCHANGED <<cfgVars, routes, segVars, shm, timer, dangling, last_sequence,
                 pc, ctx, todo, measuring, troubles, history>>

ImportDone ==
  /\ pc = "import"
  /\ reimport = {}
  /\ Leave
  /\ UNCHANGED <<cfgVars, ribVars, segVars, shm, timer, dangling, last_sequence,
                 measuring, troubles, history>>

-----------------------------------------------------------------------------
(* bgp_twamp_check_measurements, the timer's callback.                     *)

\* The value `bgp->import_latency_cfg.enabled' has when the callback reads it;
\* after bgp_delete the memory may hold anything.
EnabledRead == IF dangling THEN BOOLEAN ELSE {enabled[timer]}

\* The event loop clears measurement_check_timer, then calls.  Without a mapped
\* segment, or with the feature off, the callback does not re-arm itself.
CheckStops ==
  /\ pc = "idle"
  /\ timer # NULL
  /\ ~shm \/ FALSE \in EnabledRead
  /\ timer' = NULL
  /\ dangling' = FALSE
  /\ UNCHANGED <<cfgVars, ribVars, segVars, shm, last_sequence, busyVars, measuring,
                 troubles, history>>

\* The sequence number is the one already seen: the timer is re-armed as it was.
CheckSame ==
  /\ pc = "idle"
  /\ timer # NULL
  /\ shm /\ TRUE \in EnabledRead
  /\ sequence = last_sequence
  /\ UNCHANGED vars

\* Faulty variant: only a larger sequence number counts as a change.
CheckLarger ==
  /\ pc = "idle"
  /\ timer # NULL
  /\ shm /\ TRUE \in EnabledRead
  /\ sequence > last_sequence
  /\ last_sequence' = sequence
  /\ timer' = NULL
  /\ IF Default \in configured
     THEN /\ Enter("refresh", timer, <<>>, (VRFs \cap configured) \X routes)
          /\ covered' = {v \in VRFs \cap configured : enabled[v]}
     ELSE Enter("aborted", NULL, <<>>, {}) /\ UNCHANGED covered
  /\ UNCHANGED <<cfgVars, ribVars, segVars, shm, dangling, measuring, troubles,
                 collected, latest>>

\* The sequence number moved: remember it, then vpn_leak_postchange_all, which
\* asserts that there is a default instance and re-imports into every VRF.
CheckChanged ==
  /\ pc = "idle"
  /\ timer # NULL
  /\ shm /\ TRUE \in EnabledRead
  /\ sequence # last_sequence
  /\ last_sequence' = sequence
  /\ timer' = NULL
  /\ IF Default \in configured
     THEN /\ Enter("refresh", timer, <<>>, (VRFs \cap configured) \X routes)
          /\ covered' = {v \in VRFs \cap configured : enabled[v]}
     ELSE Enter("aborted", NULL, <<>>, {}) /\ UNCHANGED covered
  /\ UNCHANGED <<cfgVars, ribVars, segVars, shm, dangling, measuring, troubles,
                 collected, latest>>

\* Faulty variant: the sequence number is stored after the re-import.
RefreshAcknowledges ==
  /\ pc = "refresh"
  /\ reimport = {}
  /\ timer' = ctx
  /\ last_sequence' = sequence
  /\ Leave
  /\ UNCHANGED <<cfgVars, ribVars, segVars, shm, dangling, measuring, troubles,
                 history>>

\* Faulty variant: the callback does not re-arm the timer after a re-import.
RefreshOnce ==
  /\ pc = "refresh"
  /\ reimport = {}
  /\ Leave
  /\ UNCHANGED <<cfgVars, ribVars, segVars, shm, timer, dangling, last_sequence,
                 measuring, troubles, history>>

\* The re-import is over and the callback re-arms the timer with its argument.
RefreshDone ==
  /\ pc = "refresh"
  /\ reimport = {}
  /\ timer' = ctx
  /\ Leave
  /\ UNCHANGED <<cfgVars, ribVars, segVars, shm, dangling, last_sequence, measuring,
                 troubles, history>>

-----------------------------------------------------------------------------
(* The measuring process, twamp_daemon.py.  It maps the segment by name    *)
(* once.  Then, cycle after cycle, it reads the number of entries and, for *)
(* each of them, reads the entry, probes its address for seconds, reads    *)
(* the entry again and writes it back with the result, by index and        *)
(* without shm->lock.                                                      *)

\* open_shared_memory.
open_shared_memory ==
  /\ daemon = "off"
  /\ named
  /\ daemon' = "scan"
  /\ UNCHANGED <<cfgVars, ribVars, segVars, shm, timer, dangling, last_sequence,
                 busyVars, togo, slot, target, entry, results, troubles, history>>

\* A cycle begins: read_nexthop_count.  An empty table is looked at again later.
run_measurement_cycle ==
  /\ daemon = "scan"
  /\ togo = {}
  /\ Used # {}
  /\ togo' = Used
  /\ overtaken' = FALSE
  /\ UNCHANGED <<cfgVars, ribVars, segVars, shm, timer, dangling, last_sequence,
                 busyVars, daemon, slot, target, entry, probed, spoiled, silent,
                 troubles, history>>

\* Faulty variant: every probe goes to the first entry's address.
ReadFirst ==
  /\ daemon = "scan"
  /\ \E i \in togo :
       /\ \A j \in togo : i <= j
       /\ togo' = togo \ {i}
       /\ IF nexthops[i].active
          THEN daemon' = "probe" /\ slot' = i /\ target' = nexthops[0].addr
          ELSE UNCHANGED <<daemon, slot, target>>
  /\ UNCHANGED <<cfgVars, ribVars, segVars, shm, timer, dangling, last_sequence,
                 busyVars, entry, results, troubles, history>>

\* The loop's next entry; an inactive one is passed over.
read_nexthop ==
  /\ daemon = "scan"
  /\ \E i \in togo :
       /\ \A j \in togo : i <= j
       /\ togo' = togo \ {i}
       /\ IF nexthops[i].active
          THEN daemon' = "probe" /\ slot' = i /\ target' = nexthops[i].addr
          ELSE UNCHANGED <<daemon, slot, target>>
  /\ UNCHANGED <<cfgVars, ribVars, segVars, shm, timer, dangling, last_sequence,
                 busyVars, entry, results, troubles, history>>

\* The probes are over.  write_nexthop_latency or mark_nexthop_failed reads the
\* entry again, by its index, and makes the new one of it.
Reread(ok, l) ==
  /\ daemon = "probe"
  /\ daemon' = "store"
  /\ entry' = [nexthops[slot] EXCEPT !.measured = ok, !.latency_ms = l]
  /\ UNCHANGED <<cfgVars, ribVars, segVars, shm, timer, dangling, last_sequence,
                 busyVars, togo, slot, target, results, troubles, history>>

write_nexthop_latency == \E l \in Latencies : Reread(TRUE, l)

mark_nexthop_failed == Reread(FALSE, UINT32_MAX)

\* ... and writes it back.  The sequence number is not moved.
WriteBack ==
  /\ daemon = "store"
  /\ nexthops' = [nexthops EXCEPT ![slot] = entry]
  /\ probed' = [probed EXCEPT ![slot] = target]
  /\ silent' = TRUE
  /\ spoiled' = (spoiled \/ overtaken)
  /\ Forget("scan")
  /\ UNCHANGED <<cfgVars, ribVars, named, nh_count, sequence, shm, timer, dangling,
                 last_sequence, busyVars, togo, overtaken, troubles, history>>

\* The process ends, at whatever point of its cycle: main's "finally".  As it
\* stands, twamp_daemon.py ends at its first read_nexthop, whose struct.unpack
\* raises; the other actions are those of the same program with that repaired.
DaemonEnds ==
  /\ daemon # "off"
  /\ Trouble
  /\ Forget("off") /\ togo' = {}
  /\ UNCHANGED <<cfgVars, ribVars, segVars, shm, timer, dangling, last_sequence,
                 busyVars, results, history>>

\* The sequence number is moved from outside bgpd (external): what
\* bgp_twamp_check_measurements expects of a measuring process that has stored
\* results.  twamp_daemon.py does not do it.
AnnounceResults ==
  /\ daemon = "scan"
  /\ sequence < MaxSequence
  /\ sequence' = sequence + 1
  /\ silent' = FALSE
  /\ UNCHANGED <<cfgVars, ribVars, named, nexthops, nh_count, shm, timer, dangling,
                 last_sequence, busyVars, daemonVars, probed, overtaken, spoiled,
                 troubles, history>>

MeasuringProcess ==
  \/ open_shared_memory \/ run_measurement_cycle \/ read_nexthop
  \/ write_nexthop_latency \/ mark_nexthop_failed \/ WriteBack
  \/ DaemonEnds \/ AnnounceResults

-----------------------------------------------------------------------------
\* bgpd dies, in whatever handler it is, and is started again.  The segment
\* keeps its name and contents; everything else starts over.
Restart ==
  /\ IF pc = "aborted" THEN UNCHANGED troubles ELSE Trouble
  /\ configured' = {}
  /\ enabled' = [b \in Instances |-> FALSE]
  /\ established' = {}
  /\ established_peers' = [b \in Instances |-> 0]
  /\ routes' = {}
  /\ weighed' = [v \in VRFs |-> [p \in Peers |-> NULL]]
  /\ shm' = FALSE
  /\ timer' = NULL
  /\ dangling' = FALSE
  /\ last_sequence' = 0
  /\ Leave
  /\ covered' = {} /\ collected' = {}
  /\ latest' = [b \in Instances |-> NULL]
  /\ UNCHANGED <<segVars, measuring>>

Operator ==
  \E b \in Instances : \/ bgp_create(b)
                       \/ bgp_delete(b)
                       \/ bgp_import_check_latency(b)
                       \/ no_bgp_import_check_latency(b)

Sessions ==
  \E p \in Peers : PeerEstablished(p) \/ PeerDown(p) \/ VpnUpdate(p)

\* The steps bgpd takes by itself once a handler has begun or a timer is due.
MainThread ==
  \/ CollectPeer \/ InitDone \/ StoreStatus
  \/ ImportOne \/ ImportDone \/ RefreshDone

TimerDue == CheckStops \/ CheckSame \/ CheckChanged

Next ==
  \/ Operator \/ Sessions \/ MainThread \/ TimerDue
  \/ MeasuringProcess \/ Restart

\* A handler that has begun runs to its end, and a due timer is served however
\* many other events arrive: the event loop of lib/event.c queues an expired
\* timer and runs the queue in order.  Nothing is assumed of operators,
\* neighbours or the measuring process.
Fairness == WF_vars(MainThread) /\ SF_vars(TimerDue)

Spec == Init /\ [][Next]_vars /\ Fairness

-----------------------------------------------------------------------------
(* Properties.                                                             *)

\* Every variable stays in its range: in particular bgp_twamp_add_nexthop never
\* pushes nh_count past MAX_NEXTHOPS, and a handler's argument is the instance or
\* the peer the handler expects.
TypeOK ==
  /\ configured \subseteq Instances
  /\ enabled \in [Instances -> BOOLEAN]
  /\ established \subseteq Peers
  /\ established_peers \in [Instances -> Nat]
  /\ routes \subseteq PeersOf(Default)
  /\ named \in BOOLEAN
  /\ nexthops \in [Slots -> Nexthop]
  /\ nh_count \in 0 .. MAX_NEXTHOPS
  /\ sequence \in Nat
  /\ shm \in BOOLEAN
  /\ timer \in Instances \cup {NULL}
  /\ dangling \in BOOLEAN
  /\ last_sequence \in Nat
  /\ weighed \in [VRFs -> [Peers -> Latencies \cup {UINT32_MAX, NULL}]]
  /\ pc \in {"idle", "init", "fsm", "import", "refresh", "aborted"}
  /\ pc \in {"init", "refresh"} => ctx \in Instances
  /\ pc = "fsm" => ctx \in Peers
  /\ todo \in Seq(Peers)
  /\ reimport \subseteq VRFs \X Peers
  /\ daemon \in {"off", "scan", "probe", "store"}
  /\ togo \subseteq Slots
  /\ slot \in Slots
  /\ target \in Addrs \cup {NULL}
  /\ entry \in Nexthop
  /\ troubles \in 0 .. MaxTroubles
  /\ covered \subseteq VRFs
  /\ collected \subseteq Instances
  /\ latest \in [Instances -> Peers \cup {NULL}]
  /\ probed \in [Slots -> Addrs \cup {NULL}]
  /\ overtaken \in BOOLEAN /\ spoiled \in BOOLEAN /\ silent \in BOOLEAN

\* One entry per address: peers of several instances that share an address, a
\* session that flaps, a collection for each instance, a restart of bgpd and
\* entries written back whole never make bgp_twamp_add_nexthop list an address
\* twice; only a write-back from before the table was emptied could.
UniqueNexthops ==
  ~spoiled => \A i, j \in Used : nexthops[i].addr = nexthops[j].addr => i = j

\* What bgp_twamp_get_latency returns for an address was measured on that address,
\* since the table was last emptied.  bgp_twamp_init empties the table without
\* clearing the array, a segment that survives a crash of bgpd still holds old
\* results, and twamp_daemon.py writes a result to the slot it read seconds
\* before, without the lock.  All that is needed is that its cycle did not begin
\* before the table was emptied.
LatencyIsFresh ==
  ~spoiled =>
    \A a \in Addrs :
      bgp_twamp_get_latency(a) # UINT32_MAX =>
        probed[CHOOSE i \in Answering(a) : \A j \in Answering(a) : i <= j] = a

\* The peers whose address the table should hold.
Monitored(b) == PeersOf(b) \cap IBGP \cap INET \cap established

Listed(a) == \E i \in Used : nexthops[i].addr = a /\ nexthops[i].active

\* Once an instance's peers were collected, its established iBGP peers are in the
\* table, but for the one established last (bgp_fsm_change_status collects before
\* it stores the status) and those a full table had no room for.
CollectedPeersListed ==
  pc = "idle" /\ ~spoiled =>
    \A b \in collected : \A p \in Monitored(b) :
      p = latest[b] \/ Listed(su[p]) \/ nh_count = MAX_NEXTHOPS

\* When no change is pending, every VRF that took part in the last re-import weighs
\* every VPN route by the latency the segment holds now, unless a result was stored
\* and the sequence number left as it was, which is what twamp_daemon.py does.  A
\* result that is announced, or that the sequence number bgp_twamp_add_nexthop
\* moves comes after, is not lost, not even when it arrives while the re-import is
\* under way: the sequence number is read before the first latency.
ImportsCurrent ==
  pc = "idle" /\ sequence = last_sequence /\ ~silent =>
    \A v \in covered : \A p \in routes \cap IBGP \cap INET :
      weighed[v][p] = bgp_twamp_get_latency(su[p])

\* bgp->established_peers, which bgp_fsm_change_status keeps by increments and
\* decrements, is the number of established peers whenever no handler is running.
EstablishedPeersExact ==
  pc = "idle" =>
    \A b \in configured :
      established_peers[b] = Cardinality(established \cap PeersOf(b))

\* While bgpd has the segment mapped no slot in use changes its address and the
\* table never shrinks, whatever bgp_twamp_add_nexthop and the measuring process's
\* write-backs of whole entries do in between: a process may read a slot, probe,
\* and write its result back to the same slot much later.
SlotsStable ==
  [][shm /\ shm' /\ ~spoiled' =>
       /\ nh_count' >= nh_count
       /\ \A i \in Used : nexthops'[i].addr = nexthops[i].addr]_vars

\* The instance on whose behalf the segment is polled: the argument of the pending
\* timer, or of the callback that will re-arm it.
Listener == IF pc = "refresh" THEN ctx ELSE timer

Polled == shm /\ ~dangling /\ Listener # NULL /\ enabled[Listener]

\* Polling does not stop by itself: every path through the timer's callback re-arms
\* it while its instance has the feature on, and no other handler cancels it.  It
\* ends with the segment, with the instance, or with the daemon.
PollingContinues ==
  [][Polled => Polled' \/ ~shm' \/ dangling' \/ pc' = "aborted"]_vars

\* A change of the segment is followed by a re-import for as long as it is polled,
\* also when last_sequence dates from an earlier segment and is the larger number.
ChangeIsReimported ==
  (Polled /\ sequence # last_sequence) ~> (sequence = last_sequence \/ ~Polled)

\* The segment as LatencyTable describes it: what bgpd is told while it has the
\* segment mapped.
LT == INSTANCE LatencyTable
        WITH known <- [a \in Addrs |-> bgp_twamp_get_latency(a)],
             version <- IF shm THEN sequence ELSE 0,
             intact <- shm => ~spoiled

\* The array, the reuse of slots that still hold old results, the unlocked
\* write-backs by index, the mapping and unmapping and the restarts of bgpd
\* implement the table of answers: each changes by a result for its own address
\* only, none by what bgpd does to the array, and mapping a segment that an
\* earlier bgpd left behind brings none back.
ImplementsLatencyTable == LT!Spec

-----------------------------------------------------------------------------
(* What the code's comments and assertions say and the code does not do.   *)

\* "Trigger TWAMP peer collection when peer becomes established": when the FSM is
\* done with the transition, the peer that became established is in the table.
EstablishedPeerListed ==
  [][pc = "fsm" /\ ctx \in established' /\ ctx \in IBGP \cap INET
       => Listed(su[ctx])' \/ nh_count = MAX_NEXTHOPS]_vars

\* "Start periodic measurement check timer": a mapped segment is looked at as long
\* as some instance has the feature on.
SegmentIsPolled ==
  pc = "idle" /\ shm /\ (\E b \in configured : enabled[b]) => timer # NULL

\* "If sequence changed, measurements were updated", and the re-import "to update
\* weights" follows: with an unchanged sequence number the routes a VRF imported
\* with the feature on are weighed by the current latencies.
UnchangedMeansCurrent ==
  pc = "idle" /\ shm /\ sequence = last_sequence =>
    \A v \in VRFs : \A p \in routes \cap IBGP \cap INET :
      enabled[v] /\ weighed[v][p] # NULL
        => weighed[v][p] = bgp_twamp_get_latency(su[p])

\* vpn_leak_postchange_all: assert(bgp_default).
DefaultExistsAtRefresh == pc # "aborted"

\* bgp_delete says "Stop timers": none is left with the deleted instance.
DeletedInstanceHasNoTimer == ~dangling
=============================================================================
