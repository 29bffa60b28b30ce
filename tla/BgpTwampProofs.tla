--------------------------- MODULE BgpTwampProofs ---------------------------
(* Proofs about BgpTwamp, for any instances, peers, addresses and latencies  *)
(* and any capacity of the table.                                            *)
EXTENDS BgpTwamp, FiniteSetTheorems, WellFoundedInduction, TLAPS

-----------------------------------------------------------------------------
(* Types and the count of established peers.                               *)

\* bgp->established_peers counts the established peers of the instance, and the
\* one whose transition bgp_fsm_change_status has counted but not yet stored.
Counted ==
  \A b \in Instances :
    established_peers[b] = Cardinality(established \cap PeersOf(b))
                             + (IF pc = "fsm" /\ Owner(ctx) = b THEN 1 ELSE 0)

\* Only peers of existing instances are, or are becoming, established.
Owned ==
  /\ \A p \in established : Owner(p) \in configured
  /\ pc = "fsm" => ctx \notin established /\ Owner(ctx) \in configured

\* An entry of an address to measure.
Live(e) == e.addr \in Addrs /\ e.active

\* A slot that says it was measured holds a latency, or UINT32_MAX; a slot in use
\* holds an address and is active (bgp_twamp_remove_nexthop has no caller).
MeasuredHolds ==
  \A i \in Slots : nexthops[i].measured => nexthops[i].latency_ms \in Latencies \cup {UINT32_MAX}

UsedHolds == \A i \in Used : Live(nexthops[i])

\* What the measuring process has read is an entry of this array.  As long as the
\* table was not emptied since its cycle began, the slots it has yet to visit are in
\* use, and the one it is at still has the address it probes.
DaemonHolds ==
  /\ \A i \in Slots : nexthops[i].active => Live(nexthops[i])
  /\ daemon \in {"probe", "store"} => Live(nexthops[slot])
  /\ daemon = "store" => /\ Live(entry)
                         /\ entry.measured => entry.latency_ms \in Latencies
  /\ ~overtaken => togo \subseteq Used
  /\ ~overtaken /\ daemon \in {"probe", "store"} =>
       slot \in Used /\ nexthops[slot].addr = target
  /\ ~overtaken /\ daemon = "store" => entry.addr = target

\* TypeOK needs the others: bgp_fsm_change_status decrements without a test for
\* zero, and a slot's latency_ms starts as 0, which no route may be weighed by.
TypeInv ==
  /\ TypeOK /\ Counted /\ Owned
  /\ MeasuredHolds /\ UsedHolds /\ UniqueNexthops /\ DaemonHolds

\* The types of the shared segment, of what describes the running handler and of
\* the measuring process.
SegType ==
  /\ named \in BOOLEAN
  /\ nexthops \in [Slots -> Nexthop]
  /\ nh_count \in 0 .. MAX_NEXTHOPS
  /\ sequence \in Nat
  /\ MeasuredHolds
  /\ UsedHolds
  /\ UniqueNexthops

DaemonType ==
  /\ daemon \in {"off", "scan", "probe", "store"}
  /\ togo \subseteq Slots
  /\ slot \in Slots
  /\ target \in Addrs \cup {NULL}
  /\ entry \in Nexthop
  /\ probed \in [Slots -> Addrs \cup {NULL}]
  /\ overtaken \in BOOLEAN /\ spoiled \in BOOLEAN /\ silent \in BOOLEAN
  /\ DaemonHolds

BusyType ==
  /\ pc \in {"idle", "init", "fsm", "import", "refresh", "aborted"}
  /\ pc \in {"init", "refresh"} => ctx \in Instances
  /\ pc = "fsm" => ctx \in Peers
  /\ todo \in Seq(Peers)
  /\ reimport \subseteq VRFs \X Peers

\* The owner of a peer is the one instance whose list holds it.
LEMMA OwnerUnique ==
  ASSUME NEW p \in Peers
  PROVE  /\ Owner(p) \in Instances
         /\ \A b \in Instances : p \in PeersOf(b) <=> b = Owner(p)
<1>1. PICK b \in Instances : \A c \in Instances : p \in PeersOf(c) <=> c = b
  BY PeersAssumption, Zenon DEF PeersOf
<1>2. \A c \in Instances : p \in PeersOf(c) => c = b
  BY <1>1, Zenon
<1>3. Owner(p) = b
  BY <1>1, <1>2, Zenon DEF Owner
<1> QED
  BY <1>1, <1>3, Zenon

\* The peers of an instance are finitely many peers.
LEMMA PeersOfFinite ==
  ASSUME NEW b \in Instances
  PROVE  PeersOf(b) \subseteq Peers /\ IsFiniteSet(PeersOf(b))
<1>1. PeersOf(b) \subseteq Peers
  BY InstancesAssumption DEF PeersOf, Range
<1> QED
  BY <1>1, PeersAssumption, FS_Subset, Zenon

\* Storing the status of one more peer adds one to its owner's count.
LEMMA CountUp ==
  ASSUME NEW S \in SUBSET Peers, NEW p \in Peers \ S, NEW b \in Instances
  PROVE  /\ Cardinality(S \cap PeersOf(b)) \in Nat
         /\ Cardinality((S \cup {p}) \cap PeersOf(b))
              = Cardinality(S \cap PeersOf(b)) + (IF b = Owner(p) THEN 1 ELSE 0)
<1>1. IsFiniteSet(S \cap PeersOf(b))
  BY PeersOfFinite, FS_Subset, Zenon
<1>2. CASE b = Owner(p)
  <2>1. (S \cup {p}) \cap PeersOf(b) = (S \cap PeersOf(b)) \cup {p}
    BY <1>2, OwnerUnique, Zenon
  <2> QED
    BY <1>1, <1>2, <2>1, FS_AddElement, FS_CardinalityType, Zenon
<1>3. CASE b # Owner(p)
  <2>1. (S \cup {p}) \cap PeersOf(b) = S \cap PeersOf(b)
    BY <1>3, OwnerUnique, Zenon
  <2> QED
    BY <1>1, <1>3, <2>1, FS_CardinalityType
<1> QED
  BY <1>2, <1>3, Zenon

\* Every variable has its type in the initial state, and nothing is counted.
LEMMA InitTypeInv == Init => TypeInv
<1> SUFFICES ASSUME Init PROVE TypeInv
  BY Zenon
<1>1. TypeOK
  <2>1. nexthops \in [Slots -> Nexthop]
    BY Zenon DEF Init, ZeroNexthop, Nexthop
  <2>2. weighed \in [VRFs -> [Peers -> Latencies \cup {UINT32_MAX, NULL}]]
    BY Zenon DEF Init
  <2>3. nh_count \in 0 .. MAX_NEXTHOPS /\ troubles \in 0 .. MaxTroubles
    BY NumbersAssumption DEF Init
  <2>4. named \in BOOLEAN /\ shm \in BOOLEAN /\ dangling \in BOOLEAN
    BY Zenon DEF Init
  <2>5. todo \in Seq(Peers) /\ sequence \in Nat /\ last_sequence \in Nat
    BY DEF Init
  <2>6. enabled \in [Instances -> BOOLEAN]
    BY Zenon DEF Init
  <2>7. established_peers \in [Instances -> Nat]
    BY Zenon DEF Init
  <2>8. latest \in [Instances -> Peers \cup {NULL}]
    BY Zenon DEF Init
  <2>9. /\ probed \in [Slots -> Addrs \cup {NULL}] /\ entry \in Nexthop
        /\ overtaken \in BOOLEAN /\ spoiled \in BOOLEAN /\ silent \in BOOLEAN
    BY Zenon DEF Init, ZeroNexthop, Nexthop
  <2>10. slot \in Slots
    BY NumbersAssumption DEF Init, Slots
  <2> QED
    BY <2>1, <2>2, <2>3, <2>4, <2>5, <2>6, <2>7, <2>8, <2>9, <2>10, Zenon DEF Init, TypeOK
<1>2. Counted
  <2>1. \A b \in Instances : established \cap PeersOf(b) = {}
    BY Zenon DEF Init
  <2> QED
    BY <2>1, FS_EmptySet DEF Init, Counted
<1>3. Owned
  BY Zenon DEF Init, Owned
<1>4. MeasuredHolds
  BY Zenon DEF Init, MeasuredHolds, ZeroNexthop
<1>5. UniqueNexthops /\ UsedHolds
  BY DEF Init, UniqueNexthops, UsedHolds, Used, Slots
<1>6. DaemonHolds
  BY Zenon DEF Init, DaemonHolds, ZeroNexthop
<1> QED
  BY <1>1, <1>2, <1>3, <1>4, <1>5, <1>6, Zenon DEF TypeInv

\* Adding an address keeps the segment's types and its entries distinct, whichever
\* entry it re-activates.
LEMMA AddNexthopType ==
  ASSUME SegType, NEW a \in Addrs, bgp_twamp_add_nexthop(a), UNCHANGED spoiled
  PROVE  SegType'
<1> DEFINE known == {i \in Used : nexthops[i].addr = a}
           first == CHOOSE i \in known : \A j \in known : i <= j
<1>1. CASE UNCHANGED segVars
  BY <1>1, Zenon DEF SegType, segVars, MeasuredHolds, UsedHolds, UniqueNexthops, Used
<1>2. CASE /\ nexthops' = [nexthops EXCEPT ![first].active = TRUE]
           /\ UNCHANGED <<named, nh_count, sequence>>
  <2> HIDE DEF first
  <2>1. nexthops' \in [Slots -> Nexthop]
    BY <1>2, Zenon DEF SegType, Nexthop
  <2>2. \A i \in Slots : /\ nexthops'[i].addr = nexthops[i].addr
                         /\ nexthops'[i].measured = nexthops[i].measured
                         /\ nexthops'[i].latency_ms = nexthops[i].latency_ms
                         /\ nexthops[i].active => nexthops'[i].active
    BY <1>2, Zenon DEF SegType, Nexthop
  <2> QED
    BY <1>2, <2>1, <2>2 DEF SegType, MeasuredHolds, UsedHolds, UniqueNexthops, Used, Live
<1>3. CASE /\ known = {}
           /\ nh_count < MAX_NEXTHOPS
           /\ nexthops' = [nexthops EXCEPT ![nh_count] = NewNexthop(a)]
           /\ nh_count' = nh_count + 1
           /\ sequence' = sequence + 1
           /\ UNCHANGED named
  <2>1. NewNexthop(a) \in Nexthop
    BY Zenon DEF NewNexthop, Nexthop
  <2>2. nexthops' \in [Slots -> Nexthop]
    BY <1>3, <2>1, Zenon DEF SegType
  <2>3. nh_count' \in 0 .. MAX_NEXTHOPS /\ nh_count \in Slots /\ sequence' \in Nat
    BY <1>3, NumbersAssumption DEF SegType, Slots
  <2>4. /\ \A i \in Slots \ {nh_count} : nexthops'[i] = nexthops[i]
        /\ nexthops'[nh_count] = NewNexthop(a)
    BY <1>3, <2>3, Zenon DEF SegType
  <2>5. MeasuredHolds'
    BY <2>4 DEF SegType, MeasuredHolds, NewNexthop
  <2>6. UniqueNexthops'
    <3>1. Used' = Used \cup {nh_count} /\ nh_count \notin Used
      BY <1>3, <2>3, SMTT(60) DEF SegType, Used, Slots
    <3>2. \A i \in Used : nexthops'[i].addr # a /\ nexthops'[i] = nexthops[i]
      BY <1>3, <2>4, <3>1, Zenon DEF Used
    <3> QED
      BY <2>4, <3>1, <3>2, SMTT(60) DEF SegType, UniqueNexthops, NewNexthop
  <2>7. UsedHolds'
    BY <1>3, <2>3, <2>4, SMTT(60) DEF SegType, UsedHolds, NewNexthop, Used, Slots, Live
  <2> QED
    BY <1>3, <2>2, <2>3, <2>5, <2>6, <2>7, Zenon DEF SegType
<1> QED
  BY <1>1, <1>2, <1>3, Zenon DEF bgp_twamp_add_nexthop

\* The measuring process touches the entries and the sequence number, and the former
\* only when it writes an entry back.
LEMMA MeasuringAlone ==
  ASSUME MeasuringProcess
  PROVE  /\ UNCHANGED <<configured, enabled, established, established_peers, routes, weighed>>
         /\ UNCHANGED <<named, nh_count, shm, timer, dangling, last_sequence>>
         /\ UNCHANGED <<pc, ctx, todo, reimport, covered, collected, latest>>
         /\ \/ UNCHANGED <<nexthops, sequence, probed, spoiled, silent>>
            \/ WriteBack
            \/ AnnounceResults
BY Zenon
DEF MeasuringProcess, open_shared_memory, run_measurement_cycle, read_nexthop,
    write_nexthop_latency, mark_nexthop_failed, Reread, WriteBack, DaemonEnds,
    AnnounceResults, cfgVars, ribVars, segVars, busyVars, history, results

\* Writing an entry back keeps the segment's types; when the table was not emptied
\* since, it changes no address.
LEMMA WriteBackType ==
  ASSUME TypeInv, WriteBack
  PROVE  /\ SegType'
         /\ \A i \in Slots \ {slot} : nexthops'[i] = nexthops[i]
         /\ nexthops'[slot] = entry
         /\ ~spoiled' => /\ ~spoiled /\ ~overtaken /\ slot \in Used
                         /\ entry.addr = nexthops[slot].addr /\ target = nexthops[slot].addr
<1>0. /\ named \in BOOLEAN /\ nexthops \in [Slots -> Nexthop] /\ nh_count \in 0 .. MAX_NEXTHOPS
      /\ sequence \in Nat /\ slot \in Slots /\ entry \in Nexthop
      /\ overtaken \in BOOLEAN /\ spoiled \in BOOLEAN
      /\ MeasuredHolds /\ UsedHolds /\ UniqueNexthops /\ DaemonHolds
  BY Zenon DEF TypeInv, TypeOK
<1>1. /\ daemon = "store" /\ nexthops' = [nexthops EXCEPT ![slot] = entry]
      /\ spoiled' = (spoiled \/ overtaken)
      /\ UNCHANGED <<named, nh_count, sequence>>
  BY Zenon DEF WriteBack
<1>2. /\ \A i \in Slots \ {slot} : nexthops'[i] = nexthops[i]
      /\ nexthops'[slot] = entry
  BY <1>0, <1>1, Zenon
<1>3. Live(entry) /\ (entry.measured => entry.latency_ms \in Latencies)
  BY <1>0, <1>1, Zenon DEF DaemonHolds
<1>4. nexthops' \in [Slots -> Nexthop]
  BY <1>0, <1>1, Zenon
<1>5. MeasuredHolds'
  BY <1>0, <1>2, <1>3, Zenon DEF MeasuredHolds
<1>6. Used' = Used /\ Used \subseteq Slots
  BY <1>1, Zenon DEF Used
<1>7. UsedHolds'
  BY <1>0, <1>2, <1>3, <1>6, Zenon DEF UsedHolds
<1>8. ASSUME ~spoiled'
      PROVE  /\ ~spoiled /\ ~overtaken /\ slot \in Used
             /\ entry.addr = nexthops[slot].addr /\ target = nexthops[slot].addr
  BY <1>0, <1>1, <1>8, Zenon DEF DaemonHolds
<1>9. UniqueNexthops'
  <2> SUFFICES ASSUME ~spoiled', NEW i \in Used, NEW j \in Used,
                      nexthops'[i].addr = nexthops'[j].addr
               PROVE  i = j
    BY <1>6, Zenon DEF UniqueNexthops
  <2>1. nexthops'[i].addr = nexthops[i].addr /\ nexthops'[j].addr = nexthops[j].addr
    BY <1>2, <1>6, <1>8, Zenon
  <2> QED
    BY <1>0, <1>8, <2>1, Zenon DEF UniqueNexthops
<1> QED
  BY <1>0, <1>1, <1>2, <1>4, <1>5, <1>7, <1>8, <1>9, Zenon DEF SegType

\* A set of numbers that is not empty has a least element.
LEMMA LeastNat ==
  ASSUME NEW T \in SUBSET Nat, T # {}
  PROVE  \E x \in T : \A y \in T : x <= y
<1> DEFINE R == {ss \in Nat \X Nat : ss[1] < ss[2]}
<1>1. IsWellFoundedOn(R, Nat)
  BY NatLessThanWellFounded, Zenon DEF OpToRel
<1> HIDE DEF R
<1>2. PICK x \in T : \A y \in T : ~ (<<y, x>> \in R)
  BY <1>1, WFMin, Zenon
<1>3. ASSUME NEW y \in T PROVE x <= y
  <2>1. <<y, x>> \in Nat \X Nat /\ <<y, x>>[1] = y /\ <<y, x>>[2] = x
    OBVIOUS
  <2>2. ~(y < x)
    BY <1>2, <2>1, Zenon DEF R
  <2> QED
    BY <2>2
<1> QED
  BY <1>3, Zenon

\* bgp_twamp_get_latency stops at an entry of the address that is measured and active.
LEMMA GetLatencyEntry ==
  ASSUME NEW a \in Addrs, shm, Answering(a) # {}
  PROVE  \E i \in Answering(a) :
           /\ i = CHOOSE k \in Answering(a) : \A j \in Answering(a) : k <= j
           /\ bgp_twamp_get_latency(a) = nexthops[i].latency_ms
<1>1. Answering(a) \subseteq Nat
  BY SMTT(60) DEF Answering, Used, Slots
<1>2. \E k \in Answering(a) : \A j \in Answering(a) : k <= j
  BY <1>1, LeastNat, Zenon
<1>3. (CHOOSE k \in Answering(a) : \A j \in Answering(a) : k <= j) \in Answering(a)
  BY <1>2, Zenon
<1> QED
  BY <1>3, Zenon DEF bgp_twamp_get_latency

\* Without such an entry the result is UINT32_MAX.
LEMMA GetLatencyNone ==
  ASSUME NEW a \in Addrs, ~shm \/ Answering(a) = {}
  PROVE  bgp_twamp_get_latency(a) = UINT32_MAX
BY Zenon DEF bgp_twamp_get_latency

\* The result is a measured latency or UINT32_MAX, never the 0 of a new slot.
LEMMA GetLatencyType ==
  ASSUME SegType, NEW a \in Addrs
  PROVE  bgp_twamp_get_latency(a) \in Latencies \cup {UINT32_MAX}
<1>1. CASE shm /\ Answering(a) # {}
  <2>1. PICK i \in Answering(a) : bgp_twamp_get_latency(a) = nexthops[i].latency_ms
    BY <1>1, GetLatencyEntry, Zenon
  <2>2. nexthops[i].latency_ms \in Latencies \cup {UINT32_MAX}
    BY Zenon DEF SegType, MeasuredHolds, Answering, Used
  <2> QED
    BY <2>1, <2>2, Zenon
<1>2. CASE ~shm \/ Answering(a) = {}
  BY <1>2, GetLatencyNone, Zenon
<1> QED
  BY <1>1, <1>2, Zenon

\* What adding an address does to the array: nothing but append an entry that is
\* not measured.
LEMMA AddedEffect ==
  ASSUME TypeInv, NEW a \in Addrs, bgp_twamp_add_nexthop(a)
  PROVE  /\ nh_count' >= nh_count
         /\ \A i \in Used : i \in Used' /\ nexthops'[i] = nexthops[i]
         /\ \A i \in Used' \ Used : nexthops'[i] = NewNexthop(a)
         /\ \A i \in Slots : nexthops'[i] = nexthops[i] \/ nexthops'[i] = NewNexthop(a)
         /\ \/ nexthops' = nexthops /\ nh_count' = nh_count /\ sequence' = sequence
            \/ sequence' = sequence + 1 /\ sequence' > sequence
<1> DEFINE known == {i \in Used : nexthops[i].addr = a}
           first == CHOOSE i \in known : \A j \in known : i <= j
<1>0. /\ nexthops \in [Slots -> Nexthop] /\ nh_count \in 0 .. MAX_NEXTHOPS
      /\ sequence \in Nat /\ UsedHolds
  BY Zenon DEF TypeInv, TypeOK
<1>1. CASE UNCHANGED segVars
  BY <1>0, <1>1, SMTT(60) DEF segVars, Used, Slots
<1>2. CASE /\ known # {}
           /\ nexthops' = [nexthops EXCEPT ![first].active = TRUE]
           /\ UNCHANGED <<named, nh_count, sequence>>
  <2>1. known \subseteq Nat
    BY SMTT(60) DEF Used, Slots
  <2>2. first \in known
    BY <1>2, <2>1, LeastNat, Zenon
  <2>3. first \in Used /\ nexthops[first].active
    BY <1>0, <2>2, Zenon DEF UsedHolds, Live
  <2> HIDE DEF first, known
  <2>4. nexthops' = nexthops
    BY <1>0, <1>2, <2>3, Zenon DEF Nexthop, Used
  <2> QED
    BY <1>0, <1>2, <2>4, SMTT(60) DEF Used, Slots
<1>3. CASE /\ nh_count < MAX_NEXTHOPS
           /\ nexthops' = [nexthops EXCEPT ![nh_count] = NewNexthop(a)]
           /\ nh_count' = nh_count + 1
           /\ sequence' = sequence + 1
  BY <1>0, <1>3, NumbersAssumption, SMTT(60) DEF Used, Slots
<1> QED
  BY <1>1, <1>2, <1>3, Zenon DEF bgp_twamp_add_nexthop

\* The handlers that may write the segment keep its types; the others leave it.
LEMMA SegStep ==
  ASSUME TypeInv, [Next]_vars
  PROVE  SegType'
<1>0. SegType
  BY Zenon DEF TypeInv, TypeOK, SegType
<1>1. CASE UNCHANGED segVars /\ UNCHANGED spoiled
  BY <1>0, <1>1, Zenon DEF SegType, segVars, MeasuredHolds, UsedHolds, UniqueNexthops, Used
<1>2. ASSUME NEW b \in Instances, bgp_import_check_latency(b) PROVE SegType'
  <2>1. CASE SizeOrMapFails
    <3>1. spoiled' = spoiled
      BY <1>2, <2>1, Zenon
      DEF bgp_import_check_latency, results, SizeOrMapFails, MapSegment
    <3> QED
      BY <1>0, <2>1, <3>1, Zenon DEF SizeOrMapFails, SegType, MeasuredHolds, UsedHolds, UniqueNexthops, Used
  <2>2. CASE MapSegment
    <3>1. Used' = {}
      BY <2>2 DEF MapSegment, Used, Slots
    <3> QED
      BY <1>0, <2>2, <3>1, NumbersAssumption, SMTT(60)
      DEF MapSegment, SegType, MeasuredHolds, UsedHolds, UniqueNexthops
  <2> QED
    BY <1>1, <1>2, <2>1, <2>2, Zenon DEF bgp_import_check_latency, OpenFails, segVars, results
<1>3. ASSUME NEW b \in Instances, no_bgp_import_check_latency(b) PROVE SegType'
  <2>1. CASE shm
    <3>0. /\ nexthops' = [i \in Slots |-> ZeroNexthop]
          /\ named' = FALSE /\ nh_count' = 0 /\ sequence' = 0
      BY <1>3, <2>1, Zenon DEF no_bgp_import_check_latency, bgp_twamp_cleanup
    <3>1. nexthops' \in [Slots -> Nexthop] /\ MeasuredHolds'
      <4>1. ZeroNexthop \in Nexthop /\ ~ZeroNexthop.measured
        BY Zenon DEF ZeroNexthop, Nexthop
      <4> QED
        BY <3>0, <4>1, Zenon DEF MeasuredHolds
    <3>2. Used' = {}
      BY <3>0 DEF Used, Slots
    <3>3. named' \in BOOLEAN
      BY <3>0, Zenon
    <3>4. nh_count' \in 0 .. MAX_NEXTHOPS /\ sequence' \in Nat
      BY <3>0, NumbersAssumption
    <3>5. UniqueNexthops' /\ UsedHolds'
      BY <3>2, Zenon DEF UniqueNexthops, UsedHolds
    <3> QED
      BY <3>1, <3>3, <3>4, <3>5, Zenon DEF SegType
  <2> QED
    BY <1>1, <1>3, <2>1, Zenon DEF no_bgp_import_check_latency, bgp_twamp_cleanup, measuring, results
<1>4. CASE CollectPeer
  <2>1. su[Head(todo)] \in Addrs
    BY <1>4, InstancesAssumption DEF CollectPeer, TypeInv, TypeOK
  <2> QED
    BY <1>0, <1>1, <1>4, <2>1, AddNexthopType, Zenon DEF CollectPeer
<1>5. CASE MeasuringProcess
  <2>1. CASE WriteBack
    BY <2>1, WriteBackType, Zenon
  <2>2. CASE AnnounceResults
    <3>1. sequence' \in Nat
      BY <2>2 DEF AnnounceResults, TypeInv, TypeOK
    <3> QED
      BY <1>0, <2>2, <3>1, Zenon
      DEF AnnounceResults, SegType, MeasuredHolds, UsedHolds, UniqueNexthops, Used
  <2> QED
    BY <1>1, <1>5, <2>1, <2>2, MeasuringAlone, Zenon DEF segVars
<1>6. CASE Restart
  BY <1>1, <1>6, Zenon DEF Restart, measuring, results
<1>7. CASE ~MeasuringProcess /\ ~CollectPeer /\ ~Restart /\ ~Operator
  BY <1>1, <1>7, Zenon
  DEF Next, vars, Sessions, MainThread, TimerDue, PeerEstablished, PeerDown, VpnUpdate,
      InitDone, StoreStatus, ImportOne, ImportDone, RefreshDone, CheckStops, CheckSame,
      CheckChanged, measuring, results
<1> QED
  BY <1>1, <1>2, <1>3, <1>4, <1>5, <1>6, <1>7, Zenon
  DEF Operator, bgp_create, bgp_delete, measuring, results

\* A handler's position and argument keep their types.
LEMMA BusyStep ==
  ASSUME TypeInv, [Next]_vars
  PROVE  BusyType'
<1>0. /\ BusyType
      /\ timer \in Instances \cup {NULL}
      /\ routes \subseteq Peers
      /\ configured \subseteq Instances
  BY PeersOfFinite, InstancesAssumption, Zenon DEF TypeInv, TypeOK, BusyType
<1> USE <1>0 DEF BusyType
<1>1. CASE UNCHANGED busyVars
  BY <1>1, Zenon DEF busyVars
<1>2. CASE Leave
  BY <1>2, SMTT(60) DEF Leave, Enter
<1>3. ASSUME NEW b \in Instances, bgp_import_check_latency(b) PROVE BusyType'
  BY <1>1, <1>3, InstancesAssumption, Zenon DEF bgp_import_check_latency, Enter
<1>4. ASSUME NEW p \in Peers, PeerEstablished(p) PROVE BusyType'
  BY <1>1, <1>4, OwnerUnique, InstancesAssumption, SMTT(60) DEF PeerEstablished, Enter
<1>5. ASSUME NEW p \in Peers, VpnUpdate(p) PROVE BusyType'
  BY <1>5, SMTT(60) DEF VpnUpdate, Enter, VRFs
<1>6. CASE CollectPeer
  <2>1. todo # <<>> /\ todo' = Tail(todo) /\ UNCHANGED <<pc, ctx, reimport>>
    BY <1>6, Zenon DEF CollectPeer
  <2>2. todo' \in Seq(Peers)
    BY <2>1
  <2>3. QED
    BY <2>1, <2>2, Zenon
<1>7. CASE ImportOne
  BY <1>7, Zenon DEF ImportOne
<1>8. CASE CheckChanged
  <2>1. (VRFs \cap configured) \X routes \subseteq VRFs \X Peers
    BY Zenon DEF VRFs
  <2>2. timer \in Instances
    BY <1>8, Zenon DEF CheckChanged
  <2>3. CASE Default \in configured
    BY <1>8, <2>1, <2>2, <2>3, SMTT(60) DEF CheckChanged, Enter
  <2>4. CASE Default \notin configured
    BY <1>8, <2>4, SMTT(60) DEF CheckChanged, Enter
  <2> QED
    BY <2>3, <2>4, Zenon
<1>9. CASE Operator
  BY <1>1, <1>3, <1>9, Zenon DEF Operator, bgp_create, bgp_delete, no_bgp_import_check_latency
<1>10. CASE Sessions
  BY <1>1, <1>4, <1>5, <1>10, Zenon DEF Sessions, PeerDown
<1>11. CASE MainThread
  BY <1>2, <1>6, <1>7, <1>11, Zenon DEF MainThread, InitDone, StoreStatus, ImportDone, RefreshDone
<1>12. CASE TimerDue \/ MeasuringProcess \/ UNCHANGED vars
  BY <1>1, <1>8, <1>12, MeasuringAlone, Zenon DEF TimerDue, CheckStops, CheckSame, busyVars, vars
<1>13. CASE Restart
  BY <1>2, <1>13, Zenon DEF Restart
<1> QED
  BY <1>9, <1>10, <1>11, <1>12, <1>13, Zenon DEF Next

\* The part of the state that counts established peers.
CountType ==
  /\ configured \subseteq Instances
  /\ established \subseteq Peers
  /\ established_peers \in [Instances -> Nat]
  /\ Counted
  /\ Owned

\* Every transition that the FSM counts is one that changes the set of established
\* peers, and the counter never goes below zero.
LEMMA CountStep ==
  ASSUME TypeInv, [Next]_vars
  PROVE  CountType'
<1>0. CountType /\ (pc = "fsm" => ctx \in Peers)
  BY Zenon DEF TypeInv, TypeOK, CountType
<1> USE <1>0
<1>q. CASE /\ UNCHANGED <<configured, established, established_peers>>
           /\ pc' = "fsm" => pc = "fsm" /\ ctx' = ctx
           /\ pc = "fsm" => pc' = "fsm"
  BY <1>q, Zenon DEF CountType, Counted, Owned
<1>1. ASSUME NEW b \in Instances, bgp_create(b) PROVE CountType'
  <2>1. established \cap PeersOf(b) = {}
    BY <1>1, OwnerUnique, Zenon DEF bgp_create, CountType, Owned
  <2>2. Cardinality(established \cap PeersOf(b)) = 0
    BY <2>1, FS_EmptySet, Zenon
  <2>3. Counted'
    BY <1>1, <2>2, SMTT(60) DEF bgp_create, busyVars, CountType, Counted
  <2>4. Owned'
    BY <1>1, Zenon DEF bgp_create, busyVars, CountType, Owned
  <2> QED
    BY <1>1, <2>3, <2>4, Zenon DEF bgp_create, CountType
<1>2. ASSUME NEW b \in Instances, bgp_delete(b) PROVE CountType'
  <2>1. established' \cap PeersOf(b) = {}
    BY <1>2, Zenon DEF bgp_delete
  <2>2. Cardinality(established' \cap PeersOf(b)) = 0
    BY <2>1, FS_EmptySet, Zenon
  <2>3. \A c \in Instances \ {b} : established' \cap PeersOf(c) = established \cap PeersOf(c)
    BY <1>2, OwnerUnique, Zenon DEF bgp_delete, CountType
  <2>4. Counted'
    <3>1. pc = "idle" /\ pc' = "idle" /\ established_peers' = [established_peers EXCEPT ![b] = 0]
      BY <1>2, Zenon DEF bgp_delete, busyVars
    <3>2. SUFFICES ASSUME NEW c \in Instances
                   PROVE  established_peers'[c] = Cardinality(established' \cap PeersOf(c)) + 0
      BY <3>1, Zenon DEF Counted
    <3>3. established_peers[c] = Cardinality(established \cap PeersOf(c)) + 0
      BY <3>1, Zenon DEF CountType, Counted
    <3>4. CASE c = b
      BY <2>2, <3>1, <3>4, SMTT(60) DEF CountType
    <3>5. CASE c # b
      BY <2>3, <3>1, <3>3, <3>5, Zenon DEF CountType
    <3> QED
      BY <3>4, <3>5, Zenon
  <2>5. Owned'
    BY <1>2, OwnerUnique, Zenon DEF bgp_delete, busyVars, CountType, Owned
  <2> QED
    BY <1>2, <2>4, <2>5, Zenon DEF bgp_delete, CountType
<1>3. ASSUME NEW p \in Peers, PeerEstablished(p) PROVE CountType'
  <2>1. Owner(p) \in Instances
    BY OwnerUnique, Zenon
  <2>a. /\ pc = "idle" /\ configured' = configured
        /\ p \notin established /\ Owner(p) \in configured
        /\ established_peers' = [established_peers EXCEPT ![Owner(p)] = @ + 1]
    BY <1>3, Zenon DEF PeerEstablished
  <2>2. established_peers' \in [Instances -> Nat]
    BY <2>1, <2>a, SMTT(60) DEF CountType
  <2>b. \A c \in Instances :
          /\ Cardinality(established \cap PeersOf(c)) \in Nat
          /\ established_peers'[c] = Cardinality(established \cap PeersOf(c))
                                       + (IF c = Owner(p) THEN 1 ELSE 0)
    <3> TAKE c \in Instances
    <3>1. established_peers[c] = Cardinality(established \cap PeersOf(c)) + 0
      BY <2>a, Zenon DEF CountType, Counted
    <3>2. Cardinality(established \cap PeersOf(c)) \in Nat
      BY <2>a, CountUp, Zenon DEF CountType
    <3> QED
      BY <2>1, <2>a, <3>1, <3>2, SMTT(60) DEF CountType
  <2>3. CASE enabled[Owner(p)] /\ shm
    <3>1. pc' = "fsm" /\ ctx' = p /\ established' = established
      BY <1>3, <2>3, Zenon DEF PeerEstablished, Enter
    <3>2. Counted'
      BY <2>b, <3>1, Zenon DEF Counted
    <3> QED
      BY <2>2, <2>a, <3>1, <3>2, Zenon DEF CountType, Owned
  <2>4. CASE ~(enabled[Owner(p)] /\ shm)
    <3>1. Counted'
      <4>1. pc' = "idle" /\ established' = established \cup {p}
        BY <1>3, <2>4, Zenon DEF PeerEstablished, busyVars
      <4>2. \A c \in Instances :
              established_peers'[c] = Cardinality(established' \cap PeersOf(c)) + 0
        <5> TAKE c \in Instances
        <5>1. Cardinality((established \cup {p}) \cap PeersOf(c))
                = Cardinality(established \cap PeersOf(c)) + (IF c = Owner(p) THEN 1 ELSE 0)
          BY <2>a, CountUp, Zenon DEF CountType
        <5> QED
          BY <2>b, <4>1, <5>1, SMTT(60)
      <4> QED
        BY <4>1, <4>2, Zenon DEF Counted
    <3>2. Owned'
      BY <1>3, <2>4, Zenon DEF PeerEstablished, busyVars, CountType, Owned
    <3> QED
      BY <1>3, <2>2, <2>4, <3>1, <3>2, Zenon DEF PeerEstablished, CountType
  <2> QED
    BY <2>3, <2>4, Zenon
<1>4. ASSUME NEW p \in Peers, PeerDown(p) PROVE CountType'
  <2>1. Owner(p) \in Instances
    BY OwnerUnique, Zenon
  <2>2. established = (established \ {p}) \cup {p} /\ p \in Peers \ (established \ {p})
    BY <1>4, Zenon DEF PeerDown
  <2>a. /\ pc = "idle" /\ pc' = "idle" /\ established' = established \ {p}
        /\ established_peers' = [established_peers EXCEPT ![Owner(p)] = @ - 1]
    BY <1>4, Zenon DEF PeerDown, busyVars
  <2>3. ASSUME NEW b \in Instances
        PROVE  /\ Cardinality(established' \cap PeersOf(b)) \in Nat
               /\ established_peers'[b] = Cardinality(established' \cap PeersOf(b))
    <3>1. established_peers[b] = Cardinality(established \cap PeersOf(b)) + 0
      BY <2>a, Zenon DEF CountType, Counted
    <3>2. /\ Cardinality((established \ {p}) \cap PeersOf(b)) \in Nat
          /\ Cardinality(((established \ {p}) \cup {p}) \cap PeersOf(b))
               = Cardinality((established \ {p}) \cap PeersOf(b))
                   + (IF b = Owner(p) THEN 1 ELSE 0)
      BY <2>2, CountUp, Zenon DEF CountType
    <3>3. established_peers[b] = Cardinality((established \ {p}) \cap PeersOf(b))
                                   + (IF b = Owner(p) THEN 1 ELSE 0)
      BY <2>2, <3>1, <3>2, SMTT(60) DEF CountType
    <3> QED
      BY <2>1, <2>a, <3>2, <3>3, SMTT(60) DEF CountType
  <2>4. Counted'
    BY <2>3, <2>a, SMTT(60) DEF Counted
  <2>5. established_peers' \in [Instances -> Nat]
    <3>1. DOMAIN established_peers' = Instances
      BY <2>a, Zenon DEF CountType
    <3> QED
      BY <2>3, <2>a, <3>1, Zenon DEF CountType
  <2>6. Owned'
    BY <1>4, Zenon DEF PeerDown, busyVars, CountType, Owned
  <2> QED
    BY <1>4, <2>4, <2>5, <2>6, Zenon DEF PeerDown, CountType
<1>5. CASE StoreStatus
  <2>1. Counted'
    <3>1. /\ pc = "fsm" /\ pc' = "idle" /\ established' = established \cup {ctx}
          /\ established_peers' = established_peers
      BY <1>5, Zenon DEF StoreStatus, Leave, Enter
    <3>2. ctx \in Peers \ established
      BY <3>1, Zenon DEF CountType, Owned
    <3>3. \A b \in Instances :
            established_peers'[b] = Cardinality(established' \cap PeersOf(b)) + 0
      <4> TAKE b \in Instances
      <4>1. established_peers[b] = Cardinality(established \cap PeersOf(b))
                                     + (IF Owner(ctx) = b THEN 1 ELSE 0)
        BY <3>1, Zenon DEF CountType, Counted
      <4> QED
        BY <3>1, <3>2, <4>1, CountUp, SMTT(60) DEF CountType
    <3> QED
      BY <3>1, <3>3, Zenon DEF Counted
  <2>2. Owned'
    BY <1>5, Zenon DEF StoreStatus, Leave, Enter, CountType, Owned
  <2> QED
    BY <1>5, <2>1, <2>2, Zenon DEF StoreStatus, CountType
<1>6. CASE Restart
  <2>1. \A b \in Instances : Cardinality(established' \cap PeersOf(b)) = 0
    BY <1>6, FS_EmptySet, Zenon DEF Restart
  <2> QED
    BY <1>6, <2>1, SMTT(60) DEF Restart, Leave, Enter, CountType, Counted, Owned
<1>7. CASE Operator
  BY <1>q, <1>1, <1>2, <1>7, Zenon
  DEF Operator, bgp_import_check_latency, no_bgp_import_check_latency, Enter, busyVars
<1>8. CASE Sessions
  BY <1>q, <1>3, <1>4, <1>8, Zenon DEF Sessions, VpnUpdate, Enter, cfgVars
<1>9. CASE MainThread
  BY <1>q, <1>5, <1>9, Zenon
  DEF MainThread, CollectPeer, InitDone, ImportOne, ImportDone, RefreshDone, Leave, Enter, cfgVars
<1>10. CASE TimerDue
  BY <1>q, <1>10, Zenon
  DEF TimerDue, CheckStops, CheckSame, CheckChanged, Enter, cfgVars, busyVars, vars
<1>11. CASE MeasuringProcess \/ UNCHANGED vars
  BY <1>q, <1>11, MeasuringAlone, Zenon DEF cfgVars, busyVars, vars
<1> QED
  BY <1>6, <1>7, <1>8, <1>9, <1>10, <1>11, Zenon DEF Next

\* The weights of the imported routes, and the routes.
RibType ==
  /\ routes \subseteq PeersOf(Default)
  /\ weighed \in [VRFs -> [Peers -> Latencies \cup {UINT32_MAX, NULL}]]

\* Every step keeps the types of the VPN table and of the imported weights.
LEMMA RibStep ==
  ASSUME TypeInv, [Next]_vars
  PROVE  RibType'
<1>0. RibType
  BY Zenon DEF TypeInv, TypeOK, RibType
<1>q. CASE UNCHANGED ribVars
  BY <1>0, <1>q, Zenon DEF RibType, ribVars
<1>1. ASSUME NEW b \in Instances, bgp_delete(b) PROVE RibType'
  BY <1>0, <1>1, Zenon DEF bgp_delete, RibType
<1>2. ASSUME NEW p \in Peers, PeerDown(p) PROVE RibType'
  BY <1>0, <1>2, Zenon DEF PeerDown, RibType
<1>3. ASSUME NEW p \in Peers, VpnUpdate(p) PROVE RibType'
  BY <1>0, <1>3, Zenon DEF VpnUpdate, RibType
<1>4. CASE ImportOne
  <2>1. SegType /\ reimport \subseteq VRFs \X Peers
    BY Zenon DEF TypeInv, TypeOK, SegType
  <2>2. PICK w \in VRFs, r \in Peers :
          \/ weighed' = [weighed EXCEPT ![w][r] =
               IF r \in INET THEN bgp_twamp_get_latency(su[r]) ELSE UINT32_MAX]
          \/ weighed' = weighed
    BY <1>4, <2>1, Zenon DEF ImportOne
  <2>3. (IF r \in INET THEN bgp_twamp_get_latency(su[r]) ELSE UINT32_MAX)
          \in Latencies \cup {UINT32_MAX, NULL}
    BY <2>1, GetLatencyType, InstancesAssumption, Zenon
  <2>4. routes' = routes
    BY <1>4, Zenon DEF ImportOne
  <2> QED
    BY <1>0, <2>2, <2>3, <2>4, SMTT(60) DEF RibType
<1>5. CASE Restart
  BY <1>5, Zenon DEF Restart, RibType
<1>6. CASE Operator
  BY <1>q, <1>1, <1>6, Zenon
  DEF Operator, bgp_create, bgp_import_check_latency, no_bgp_import_check_latency
<1>7. CASE Sessions
  BY <1>q, <1>2, <1>3, <1>7, Zenon DEF Sessions, PeerEstablished
<1>8. CASE MainThread
  BY <1>q, <1>4, <1>8, Zenon
  DEF MainThread, CollectPeer, InitDone, StoreStatus, ImportDone, RefreshDone
<1>9. CASE TimerDue \/ MeasuringProcess \/ UNCHANGED vars
  BY <1>q, <1>9, MeasuringAlone, Zenon
  DEF TimerDue, CheckStops, CheckSame, CheckChanged, ribVars, vars
<1> QED
  BY <1>5, <1>6, <1>7, <1>8, <1>9, Zenon DEF Next

\* The process-wide statics of bgp_twamp.c and the history of the imports.
StaticType ==
  /\ enabled \in [Instances -> BOOLEAN]
  /\ shm \in BOOLEAN
  /\ timer \in Instances \cup {NULL}
  /\ dangling \in BOOLEAN
  /\ last_sequence \in Nat
  /\ troubles \in 0 .. MaxTroubles
  /\ covered \subseteq VRFs
  /\ collected \subseteq Instances
  /\ latest \in [Instances -> Peers \cup {NULL}]

\* Every step keeps the types of bgpd's statics, of the timer and of the history.
LEMMA StaticStep ==
  ASSUME TypeInv, [Next]_vars
  PROVE  StaticType'
<1>0. StaticType
  BY Zenon DEF TypeInv, TypeOK, StaticType
<1>a. SegType /\ BusyType
  BY Zenon DEF TypeInv, TypeOK, SegType, BusyType
<1> USE <1>0 DEF StaticType
<1>t. ASSUME Trouble PROVE troubles' \in 0 .. MaxTroubles
  BY <1>t, NumbersAssumption DEF Trouble
<1>q. CASE /\ UNCHANGED <<enabled, shm, timer, dangling, last_sequence, history>>
           /\ troubles' = troubles \/ Trouble
  BY <1>q, <1>t, Zenon DEF history
<1>1. ASSUME NEW b \in Instances, bgp_create(b) PROVE StaticType'
  BY <1>1, Zenon DEF bgp_create, history
<1>2. ASSUME NEW b \in Instances, bgp_delete(b) PROVE StaticType'
  <2>1. dangling' \in BOOLEAN
    BY <1>2, Zenon DEF bgp_delete
  <2> QED
    BY <1>2, <1>t, <2>1, Zenon DEF bgp_delete
<1>3. ASSUME NEW b \in Instances, bgp_import_check_latency(b) PROVE StaticType'
  BY <1>3, Zenon DEF bgp_import_check_latency, OpenFails, SizeOrMapFails, MapSegment, history
<1>4. ASSUME NEW b \in Instances, no_bgp_import_check_latency(b) PROVE StaticType'
  BY <1>4, <1>t, Zenon DEF no_bgp_import_check_latency, bgp_twamp_cleanup
<1>5. CASE InitDone
  BY <1>5, <1>a, Zenon DEF InitDone, event_add_timer, BusyType, cfgVars
<1>6. CASE StoreStatus
  BY <1>6, <1>a, OwnerUnique, Zenon DEF StoreStatus, BusyType
<1>7. CASE RefreshDone
  BY <1>7, <1>a, Zenon DEF RefreshDone, BusyType, history, cfgVars
<1>8. CASE CheckStops
  BY <1>8, Zenon DEF CheckStops, history, cfgVars
<1>9. CASE CheckChanged
  BY <1>9, <1>a, Zenon DEF CheckChanged, SegType, cfgVars
<1>10. CASE MeasuringProcess
  <2>1. troubles' = troubles \/ Trouble
    BY <1>10, Zenon
    DEF MeasuringProcess, open_shared_memory, run_measurement_cycle, read_nexthop,
        write_nexthop_latency, mark_nexthop_failed, Reread, WriteBack, DaemonEnds,
        AnnounceResults
  <2> QED
    BY <1>q, <1>10, <2>1, MeasuringAlone, Zenon DEF history
<1>12. CASE Restart
  <2>1. shm' \in BOOLEAN /\ dangling' \in BOOLEAN
    BY <1>12, Zenon DEF Restart
  <2> QED
    BY <1>12, <1>t, <2>1, Zenon DEF Restart
<1>13. CASE Operator
  BY <1>1, <1>2, <1>3, <1>4, <1>13, Zenon DEF Operator
<1>14. CASE Sessions
  BY <1>q, <1>14, Zenon DEF Sessions, PeerEstablished, PeerDown, VpnUpdate, cfgVars
<1>15. CASE MainThread
  BY <1>q, <1>5, <1>6, <1>7, <1>15, Zenon DEF MainThread, CollectPeer, ImportOne, ImportDone, cfgVars
<1>16. CASE TimerDue \/ UNCHANGED vars
  BY <1>q, <1>8, <1>9, <1>16, Zenon DEF TimerDue, CheckSame, vars, cfgVars
<1> QED
  BY <1>10, <1>12, <1>13, <1>14, <1>15, <1>16, Zenon DEF Next

\* What the measuring process holds stays true of the array, whatever bgpd does to
\* it between the process's steps.
LEMMA DaemonStep ==
  ASSUME TypeInv, [Next]_vars
  PROVE  DaemonType'
<1>0. DaemonType /\ nexthops \in [Slots -> Nexthop] /\ UsedHolds /\ Used \subseteq Slots
  BY Zenon DEF TypeInv, TypeOK, DaemonType, Used
<1>z. 0 \in Slots /\ ZeroNexthop \in Nexthop /\ ~ZeroNexthop.active
  <2>1. 0 \in Slots
    BY NumbersAssumption DEF Slots
  <2> QED
    BY <2>1, Zenon DEF ZeroNexthop, Nexthop
<1>q. CASE UNCHANGED measuring /\ UNCHANGED <<nexthops, nh_count>>
  BY <1>0, <1>q, Zenon DEF measuring, daemonVars, results, DaemonType, DaemonHolds, Used
<1>1. ASSUME NEW b \in Instances, bgp_import_check_latency(b) PROVE DaemonType'
  <2>1. UNCHANGED daemonVars /\ nexthops' = nexthops
    BY <1>1, Zenon
    DEF bgp_import_check_latency, OpenFails, SizeOrMapFails, MapSegment, segVars
  <2>2. CASE MapSegment
    <3>1. /\ probed' \in [Slots -> Addrs \cup {NULL}] /\ overtaken' = InCycle
          /\ spoiled' \in BOOLEAN /\ silent' \in BOOLEAN
      BY <2>2, Zenon DEF MapSegment, NewTable
    <3>2. overtaken' \in BOOLEAN
      BY <3>1, Zenon DEF InCycle
    <3>3. ~overtaken' => togo = {} /\ daemon \notin {"probe", "store"}
      BY <3>1, Zenon DEF InCycle
    <3> QED
      BY <1>0, <2>1, <3>1, <3>2, <3>3, Zenon DEF daemonVars, DaemonType, DaemonHolds
  <2>3. CASE UNCHANGED results /\ nh_count' = nh_count
    BY <1>q, <2>1, <2>3, Zenon DEF measuring
  <2> QED
    BY <1>1, <2>2, <2>3, Zenon
    DEF bgp_import_check_latency, OpenFails, SizeOrMapFails, segVars
<1>2. ASSUME NEW b \in Instances, no_bgp_import_check_latency(b) PROVE DaemonType'
  <2>1. CASE shm
    <3>1. /\ nexthops' = [i \in Slots |-> ZeroNexthop]
          /\ daemon' = "off" /\ togo' = {} /\ slot' = 0 /\ target' = NULL /\ entry' = ZeroNexthop
          /\ probed' = [i \in Slots |-> NULL] /\ overtaken' = FALSE
          /\ spoiled' = FALSE /\ silent' = FALSE
      BY <1>2, <2>1, Zenon DEF no_bgp_import_check_latency, bgp_twamp_cleanup, Forget, NewTable
    <3>2. probed' \in [Slots -> Addrs \cup {NULL}]
      BY <3>1, Zenon
    <3>3. \A i \in Slots : ~nexthops'[i].active
      BY <1>z, <3>1, Zenon
    <3>4. DaemonHolds'
      BY <3>1, <3>3, Zenon DEF DaemonHolds
    <3> QED
      BY <1>z, <3>1, <3>2, <3>4, Zenon DEF DaemonType
  <2>2. CASE ~shm
    BY <1>q, <1>2, <2>2, Zenon DEF no_bgp_import_check_latency, bgp_twamp_cleanup, segVars
  <2> QED
    BY <2>1, <2>2, Zenon
<1>3. CASE CollectPeer
  <2>1. /\ UNCHANGED <<daemon, togo, slot, target, entry, probed, overtaken, spoiled>>
        /\ silent' \in BOOLEAN
    BY <1>3, Zenon DEF CollectPeer, daemonVars
  <2>2. PICK a \in Addrs : UNCHANGED <<nexthops, nh_count>> \/ bgp_twamp_add_nexthop(a)
    <3>1. su[Head(todo)] \in Addrs
      BY <1>3, InstancesAssumption DEF CollectPeer, TypeInv, TypeOK
    <3> QED
      BY <1>3, <3>1, Zenon DEF CollectPeer, segVars
  <2>3. /\ \A i \in Used : i \in Used' /\ nexthops'[i] = nexthops[i]
        /\ \A i \in Slots : nexthops'[i] = nexthops[i] \/ nexthops'[i] = NewNexthop(a)
    BY <2>2, AddedEffect, Zenon DEF Used
  <2>4. Live(NewNexthop(a))
    BY Zenon DEF Live, NewNexthop
  <2>5. DaemonHolds'
    BY <1>0, <2>1, <2>3, <2>4, Zenon DEF DaemonType, DaemonHolds
  <2> QED
    BY <1>0, <2>1, <2>5, Zenon DEF DaemonType
<1>4. CASE open_shared_memory
  BY <1>0, <1>4, Zenon DEF open_shared_memory, segVars, results, DaemonType, DaemonHolds, Used
<1>5. CASE run_measurement_cycle
  <2>1. /\ daemon' = "scan" /\ togo' = Used /\ overtaken' = FALSE
        /\ UNCHANGED <<slot, target, entry, probed, spoiled, silent, nexthops, nh_count>>
    BY <1>5, Zenon DEF run_measurement_cycle, segVars
  <2>2. Used' = Used
    BY <2>1, Zenon DEF Used
  <2> QED
    BY <1>0, <2>1, <2>2, Zenon DEF DaemonType, DaemonHolds
<1>6. CASE read_nexthop
  <2>1. PICK i \in togo :
          /\ togo' = togo \ {i}
          /\ \/ /\ nexthops[i].active
                /\ daemon' = "probe" /\ slot' = i /\ target' = nexthops[i].addr
             \/ daemon' = "scan" /\ UNCHANGED <<slot, target>>
    BY <1>6, Zenon DEF read_nexthop
  <2>2. UNCHANGED <<entry, probed, overtaken, spoiled, silent, nexthops, nh_count>>
    BY <1>6, Zenon DEF read_nexthop, segVars, results
  <2>3. Used' = Used /\ i \in Slots /\ (~overtaken => i \in Used)
    BY <1>0, <2>2, Zenon DEF DaemonType, DaemonHolds, Used
  <2>4. nexthops[i].addr \in Addrs \cup {NULL}
    BY <1>0, <2>3, Zenon DEF Nexthop
  <2>5. togo' \subseteq Slots /\ slot' \in Slots /\ target' \in Addrs \cup {NULL}
    BY <1>0, <2>1, <2>3, <2>4, Zenon DEF DaemonType
  <2>6. DaemonHolds'
    <3>1. CASE daemon' = "scan"
      BY <1>0, <2>1, <2>2, <2>3, <3>1, Zenon DEF DaemonType, DaemonHolds
    <3>2. CASE nexthops[i].active /\ daemon' = "probe" /\ slot' = i /\ target' = nexthops[i].addr
      BY <1>0, <2>1, <2>2, <2>3, <3>2, Zenon DEF DaemonType, DaemonHolds
    <3> QED
      BY <2>1, <3>1, <3>2, Zenon
  <2> QED
    BY <1>0, <2>1, <2>2, <2>5, <2>6, Zenon DEF DaemonType
<1>7. ASSUME NEW ok \in BOOLEAN, NEW l \in Latencies \cup {UINT32_MAX},
             ok => l \in Latencies, Reread(ok, l)
      PROVE  DaemonType'
  <2>1. /\ daemon = "probe" /\ daemon' = "store"
        /\ entry' = [nexthops[slot] EXCEPT !.measured = ok, !.latency_ms = l]
        /\ UNCHANGED <<togo, slot, target, probed, overtaken, spoiled, silent, nexthops, nh_count>>
    BY <1>7, Zenon DEF Reread, segVars, results
  <2>2. PICK e \in Nexthop : e = nexthops[slot]
    BY <1>0, Zenon DEF DaemonType
  <2>3. /\ entry' \in Nexthop /\ entry'.addr = e.addr /\ entry'.active = e.active
        /\ entry'.measured = ok /\ entry'.latency_ms = l
    BY <1>7, <2>1, <2>2, Zenon DEF Nexthop
  <2>4. Live(nexthops[slot]) /\ Live(entry')
    BY <1>0, <2>1, <2>2, <2>3, Zenon DEF DaemonType, DaemonHolds, Live
  <2>5. Used' = Used
    BY <2>1, Zenon DEF Used
  <2>6. DaemonHolds'
    BY <1>0, <1>7, <2>1, <2>2, <2>3, <2>4, <2>5, Zenon DEF DaemonType, DaemonHolds
  <2> QED
    BY <1>0, <2>1, <2>3, <2>6, Zenon DEF DaemonType
<1>8. CASE WriteBack
  <2>1. /\ daemon = "store" /\ daemon' = "scan"
        /\ slot' = 0 /\ target' = NULL /\ entry' = ZeroNexthop
        /\ probed' = [probed EXCEPT ![slot] = target]
        /\ silent' = TRUE /\ spoiled' = (spoiled \/ overtaken)
        /\ UNCHANGED <<togo, overtaken, nh_count>>
    BY <1>8, Zenon DEF WriteBack, Forget
  <2>2. probed' \in [Slots -> Addrs \cup {NULL}] /\ silent' \in BOOLEAN /\ spoiled' \in BOOLEAN
    BY <1>0, <2>1, Zenon DEF DaemonType
  <2>3. \A i \in Slots : nexthops'[i].active => Live(nexthops'[i])
    BY <1>0, <1>8, <2>1, WriteBackType, Zenon DEF DaemonType, DaemonHolds
  <2>4. Used' = Used
    BY <2>1, Zenon DEF Used
  <2>5. DaemonHolds'
    BY <1>0, <2>1, <2>3, <2>4, Zenon DEF DaemonType, DaemonHolds
  <2> QED
    BY <1>0, <1>z, <2>1, <2>2, <2>5, Zenon DEF DaemonType
<1>9. CASE DaemonEnds
  <2>1. /\ daemon' = "off" /\ togo' = {} /\ slot' = 0 /\ target' = NULL /\ entry' = ZeroNexthop
        /\ UNCHANGED <<probed, overtaken, spoiled, silent, nexthops, nh_count>>
    BY <1>9, Zenon DEF DaemonEnds, Forget, segVars, results
  <2>2. DaemonHolds'
    BY <1>0, <2>1, Zenon DEF DaemonType, DaemonHolds
  <2> QED
    BY <1>0, <1>z, <2>1, <2>2, Zenon DEF DaemonType
<1>10. CASE AnnounceResults
  <2>1. /\ UNCHANGED <<daemon, togo, slot, target, entry, probed, overtaken, spoiled, nexthops, nh_count>>
        /\ silent' \in BOOLEAN
    BY <1>10, Zenon DEF AnnounceResults, daemonVars
  <2>2. DaemonHolds'
    BY <1>0, <2>1, Zenon DEF DaemonType, DaemonHolds, Used
  <2> QED
    BY <1>0, <2>1, <2>2, Zenon DEF DaemonType
<1>11. CASE MeasuringProcess
  <2>1. CASE write_nexthop_latency
    BY <1>7, <2>1, Zenon DEF write_nexthop_latency
  <2>2. CASE mark_nexthop_failed
    BY <1>7, <2>2, Zenon DEF mark_nexthop_failed
  <2> QED
    BY <1>4, <1>5, <1>6, <1>8, <1>9, <1>10, <1>11, <2>1, <2>2, Zenon DEF MeasuringProcess
<1>12. CASE Operator
  BY <1>q, <1>1, <1>2, <1>12, Zenon DEF Operator, bgp_create, bgp_delete, segVars
<1>13. CASE Sessions
  BY <1>q, <1>13, Zenon DEF Sessions, PeerEstablished, PeerDown, VpnUpdate, segVars
<1>14. CASE MainThread
  BY <1>q, <1>3, <1>14, Zenon
  DEF MainThread, InitDone, StoreStatus, ImportOne, ImportDone, RefreshDone, segVars
<1>15. CASE TimerDue \/ Restart \/ UNCHANGED vars
  BY <1>q, <1>15, Zenon
  DEF TimerDue, CheckStops, CheckSame, CheckChanged, Restart, vars, segVars
<1> QED
  BY <1>11, <1>12, <1>13, <1>14, <1>15, Zenon DEF Next

\* The inductive invariant is kept by every step.
LEMMA TypeInvStep == TypeInv /\ [Next]_vars => TypeInv'
<1> SUFFICES ASSUME TypeInv, [Next]_vars PROVE TypeInv'
  BY Zenon
<1>1. SegType' /\ BusyType' /\ CountType' /\ RibType' /\ StaticType' /\ DaemonType'
  BY SegStep, BusyStep, CountStep, RibStep, StaticStep, DaemonStep, Zenon
<1> QED
  BY <1>1, Zenon
  DEF SegType, BusyType, CountType, RibType, StaticType, DaemonType, TypeInv, TypeOK

\* The inductive invariant holds throughout.
THEOREM TypeInvariant == Spec => []TypeInv
BY InitTypeInv, TypeInvStep, PTL DEF Spec

\* Every variable stays in its range; nh_count never passes the array's end and
\* established_peers never goes below zero.
THEOREM TypeCorrect == Spec => []TypeOK
BY TypeInvariant, PTL DEF TypeInv

\* bgp_twamp_add_nexthop never lists an address twice, and no write-back of a cycle
\* that began with this table makes it so.
THEOREM NexthopsUnique == Spec => []UniqueNexthops
BY TypeInvariant, PTL DEF TypeInv

\* Between handlers bgp->established_peers is the number of established peers.
THEOREM EstablishedPeersCorrect == Spec => []EstablishedPeersExact
<1>1. TypeInv => EstablishedPeersExact
  <2> SUFFICES ASSUME TypeInv, pc = "idle", NEW b \in configured
               PROVE  established_peers[b] = Cardinality(established \cap PeersOf(b))
    BY Zenon DEF EstablishedPeersExact
  <2>1. b \in Instances
    BY Zenon DEF TypeInv, TypeOK
  <2>2. established_peers[b] = Cardinality(established \cap PeersOf(b)) + 0
    BY <2>1, Zenon DEF TypeInv, Counted
  <2>3. established_peers[b] \in Nat
    BY <2>1, Zenon DEF TypeInv, TypeOK
  <2>4. Cardinality(established \cap PeersOf(b)) \in Nat
    BY <2>1, PeersOfFinite, FS_Subset, FS_CardinalityType, Zenon
  <2> QED
    BY <2>2, <2>3, <2>4, SMTT(60)
<1> QED
  BY <1>1, TypeInvariant, PTL

-----------------------------------------------------------------------------
(* What the table holds.                                                   *)

\* What happens to the segment in one step: nothing; the table is emptied by
\* bgp_twamp_init or bgp_twamp_cleanup; an address is added; the measuring process
\* writes an entry back or moves the sequence number.
Emptied ==
  /\ nh_count' = 0
  /\ sequence' = 0
  /\ ~spoiled'
  /\ covered' = {} \/ ~shm
  /\ ~shm \/ ~shm'

Added ==
  /\ \E a \in Addrs : bgp_twamp_add_nexthop(a)
  /\ UNCHANGED <<shm, spoiled, probed>>

Untouched ==
  /\ UNCHANGED <<nexthops, nh_count, sequence, spoiled, probed>>
  /\ shm' = shm \/ ~shm'

\* A step empties the table, adds an address, is one of the two of the measuring
\* process, or leaves the segment as it is.
LEMMA SegmentCases ==
  ASSUME TypeInv, [Next]_vars
  PROVE  Emptied \/ Added \/ WriteBack \/ AnnounceResults \/ Untouched
<1>1. ASSUME NEW b \in Instances, bgp_import_check_latency(b)
      PROVE  Emptied \/ Untouched
  BY <1>1, Zenon
  DEF bgp_import_check_latency, OpenFails, SizeOrMapFails, MapSegment, NewTable, segVars,
      results, Emptied, Untouched
<1>2. ASSUME NEW b \in Instances, no_bgp_import_check_latency(b)
      PROVE  Emptied \/ Untouched
  BY <1>2, Zenon
  DEF no_bgp_import_check_latency, bgp_twamp_cleanup, NewTable, segVars, measuring, results,
      Emptied, Untouched
<1>3. CASE Operator
  BY <1>1, <1>2, <1>3, Zenon
  DEF Operator, bgp_create, bgp_delete, segVars, measuring, results, Untouched
<1>4. CASE Sessions
  BY <1>4, Zenon
  DEF Sessions, PeerEstablished, PeerDown, VpnUpdate, segVars, measuring, results, Untouched
<1>5. CASE CollectPeer
  <2>1. su[Head(todo)] \in Addrs
    BY <1>5, InstancesAssumption DEF CollectPeer, TypeInv, TypeOK
  <2> QED
    BY <1>5, <2>1, Zenon DEF CollectPeer, segVars, Added, Untouched
<1>6. CASE MainThread
  BY <1>5, <1>6, Zenon
  DEF MainThread, InitDone, StoreStatus, ImportOne, ImportDone, RefreshDone, segVars, measuring,
      results, Untouched
<1>7. CASE TimerDue \/ UNCHANGED vars
  BY <1>7, Zenon
  DEF TimerDue, CheckStops, CheckSame, CheckChanged, vars, segVars, measuring, results, Untouched
<1>8. CASE MeasuringProcess
  BY <1>8, MeasuringAlone, Zenon DEF Untouched
<1>9. CASE Restart
  BY <1>9, Zenon DEF Restart, segVars, measuring, results, Untouched
<1> QED
  BY <1>3, <1>4, <1>6, <1>7, <1>8, <1>9, Zenon DEF Next

\* The results in the table were measured on the addresses of their slots.
FreshInv ==
  ~spoiled => \A i \in Used : nexthops[i].measured => probed[i] = nexthops[i].addr

\* What bgp_twamp_get_latency returns was measured on the address asked for, since
\* the table was emptied: bgp_twamp_init does not clear the array, a crash leaves it
\* filled, and the measuring process writes by index what it read long before, but
\* only a write of a cycle that began before the table was emptied can go astray.
THEOREM LatencyFresh == Spec => []LatencyIsFresh
<1>1. Init => FreshInv
  BY SMTT(60) DEF Init, FreshInv, Used, Slots
<1>2. TypeInv /\ FreshInv /\ [Next]_vars => FreshInv'
  <2> SUFFICES ASSUME TypeInv, FreshInv, [Next]_vars PROVE FreshInv'
    BY Zenon
  <2>1. CASE Emptied
    BY <2>1, SMTT(60) DEF Emptied, FreshInv, Used, Slots
  <2>2. CASE Added
    <3>1. PICK a \in Addrs : bgp_twamp_add_nexthop(a)
      BY <2>2, Zenon DEF Added
    <3>2. \A i \in Used' : \/ i \in Used /\ nexthops'[i] = nexthops[i]
                           \/ nexthops'[i] = NewNexthop(a)
      BY <3>1, AddedEffect, Zenon
    <3>3. NewNexthop(a).measured = FALSE
      BY Zenon DEF NewNexthop
    <3> QED
      BY <2>2, <3>2, <3>3, Zenon DEF Added, FreshInv
  <2>3. CASE WriteBack
    <3> SUFFICES ASSUME ~spoiled', NEW i \in Used', nexthops'[i].measured
                 PROVE  probed'[i] = nexthops'[i].addr
      BY Zenon DEF FreshInv
    <3>1. /\ ~spoiled /\ slot \in Slots /\ probed \in [Slots -> Addrs \cup {NULL}]
          /\ \A j \in Slots \ {slot} : nexthops'[j] = nexthops[j]
          /\ nexthops'[slot] = entry /\ entry.addr = target
      BY <2>3, WriteBackType, Zenon DEF TypeInv, TypeOK
    <3>2. probed' = [probed EXCEPT ![slot] = target] /\ i \in Used /\ i \in Slots
      BY <2>3, Zenon DEF WriteBack, Used
    <3>3. CASE i = slot
      BY <3>1, <3>2, <3>3, Zenon
    <3>4. CASE i # slot
      BY <3>1, <3>2, <3>4, Zenon DEF FreshInv
    <3> QED
      BY <3>3, <3>4, Zenon
  <2>4. CASE UNCHANGED <<nexthops, nh_count, probed, spoiled>>
    BY <2>4, Zenon DEF FreshInv, Used
  <2> QED
    BY <2>1, <2>2, <2>3, <2>4, SegmentCases, Zenon DEF AnnounceResults, Untouched
<1>3. TypeInv /\ FreshInv => LatencyIsFresh
  <2> SUFFICES ASSUME TypeInv, FreshInv, ~spoiled, NEW a \in Addrs,
                      bgp_twamp_get_latency(a) # UINT32_MAX
               PROVE  probed[CHOOSE i \in Answering(a) : \A j \in Answering(a) : i <= j] = a
    BY Zenon DEF LatencyIsFresh
  <2>1. PICK i \in Answering(a) :
          i = CHOOSE k \in Answering(a) : \A j \in Answering(a) : k <= j
    BY GetLatencyEntry, GetLatencyNone, Zenon
  <2>2. probed[i] = a
    BY Zenon DEF FreshInv, Answering
  <2> QED
    BY <2>1, <2>2, Zenon
<1> QED
  BY <1>1, <1>2, <1>3, TypeInvariant, PTL DEF Spec

\* What a step that does not empty the table leaves of it, unless it is a write-back
\* of a cycle from before the table was emptied.
LEMMA TableKept ==
  ASSUME TypeInv, [Next]_vars, ~Emptied, ~spoiled'
  PROVE  /\ ~spoiled
         /\ nh_count' >= nh_count
         /\ \A i \in Used : /\ i \in Used'
                            /\ nexthops'[i].addr = nexthops[i].addr
                            /\ nexthops'[i].active
<1>0. nh_count \in Nat /\ UsedHolds /\ SegType'
  BY SegStep, SMTT(60) DEF TypeInv, TypeOK
<1>1. CASE Added
  <2>1. /\ nh_count' >= nh_count
        /\ \A i \in Used : i \in Used' /\ nexthops'[i] = nexthops[i]
    BY <1>1, AddedEffect, Zenon DEF Added
  <2> QED
    BY <1>0, <1>1, <2>1, Zenon DEF Added, UsedHolds, Live
<1>2. CASE WriteBack
  <2>1. nh_count' = nh_count /\ Used' = Used /\ Used \subseteq Slots
    BY <1>2, Zenon DEF WriteBack, Used
  <2>2. \A i \in Used : nexthops'[i].active
    BY <1>0, <2>1, Zenon DEF SegType, UsedHolds, Live
  <2>3. ~spoiled /\ \A i \in Used : nexthops'[i].addr = nexthops[i].addr
    BY <1>2, <2>1, WriteBackType, Zenon
  <2> QED
    BY <1>0, <2>1, <2>2, <2>3, SMTT(60)
<1>3. CASE UNCHANGED <<nexthops, nh_count, spoiled>>
  <2>1. Used' = Used /\ nh_count' >= nh_count
    BY <1>0, <1>3, SMTT(60) DEF Used
  <2> QED
    BY <1>0, <1>3, <2>1, Zenon DEF UsedHolds, Live
<1> QED
  BY <1>1, <1>2, <1>3, SegmentCases, Zenon DEF AnnounceResults, Untouched

\* While the segment stays mapped, a slot in use keeps its address, also when the
\* measuring process writes whole entries back.
THEOREM SlotsKept == Spec => SlotsStable
<1>1. ASSUME TypeInv, [Next]_vars, shm, shm', ~spoiled'
      PROVE  /\ nh_count' >= nh_count
             /\ \A i \in Used : nexthops'[i].addr = nexthops[i].addr
  BY <1>1, TableKept, Zenon DEF Emptied
<1>2. TypeInv /\ [Next]_vars =>
        [shm /\ shm' /\ ~spoiled' =>
           /\ nh_count' >= nh_count
           /\ \A i \in Used : nexthops'[i].addr = nexthops[i].addr]_vars
  BY <1>1, Zenon
<1> QED
  BY <1>2, TypeInvariant, PTL DEF Spec, SlotsStable

-----------------------------------------------------------------------------
(* The weights of imported routes.                                         *)

\* The VRF weighs the peer's route by the latency the segment holds.
Current(v, p) == weighed[v][p] = bgp_twamp_get_latency(su[p])

\* A VRF of the last re-import has the feature on and the segment it was read from
\* is still mapped.  last_sequence is then not ahead of sequence, so a later change
\* cannot bring the two back together.  A weight that is not current will be seen
\* to, by the import under way or by the next check, which will find a change,
\* unless a result was stored in silence.
ImportInv ==
  /\ covered # {} => shm /\ last_sequence <= sequence
  /\ \A v \in covered : v \in configured /\ enabled[v]
  /\ routes # {} => Default \in configured
  /\ pc \notin {"import", "refresh"} => reimport = {}
  /\ \A v \in covered : \A p \in routes \cap IBGP \cap INET :
       Current(v, p) \/ silent \/ sequence # last_sequence \/ <<v, p>> \in reimport

\* The result of bgp_twamp_get_latency depends on the table alone.
LEMMA SameTable ==
  ASSUME UNCHANGED <<nexthops, nh_count, shm>>
  PROVE  \A p \in Peers : bgp_twamp_get_latency(su[p])' = bgp_twamp_get_latency(su[p])
BY DEF bgp_twamp_get_latency, Answering, Used

\* A step that leaves the routes, their weights and the import under way alone
\* keeps the invariant if it changes the table only together with sequence, or in
\* silence.
LEMMA TableOnly ==
  ASSUME TypeInv, ImportInv, sequence' \in Nat,
         UNCHANGED <<shm, last_sequence, weighed, reimport>>,
         routes' \subseteq routes, covered' \subseteq covered,
         \/ UNCHANGED <<nexthops, nh_count, sequence, silent>>
         \/ sequence' = sequence /\ silent'
         \/ sequence' > sequence
  PROVE  /\ covered' # {} => shm' /\ last_sequence' <= sequence'
         /\ \A v \in covered' : \A p \in routes' \cap IBGP \cap INET :
              Current(v, p)' \/ silent' \/ sequence' # last_sequence' \/ <<v, p>> \in reimport'
<1>0. sequence \in Nat /\ last_sequence \in Nat /\ routes \subseteq Peers
  BY PeersOfFinite, InstancesAssumption, Zenon DEF TypeInv, TypeOK
<1>1. CASE UNCHANGED <<nexthops, nh_count, sequence, silent>>
  BY <1>0, <1>1, SameTable, Zenon DEF ImportInv, Current
<1>2. CASE sequence' = sequence /\ silent'
  BY <1>2, Zenon DEF ImportInv
<1>3. CASE sequence' > sequence
  BY <1>0, <1>3, SMTT(60) DEF ImportInv
<1> QED
  BY <1>1, <1>2, <1>3, Zenon

\* No handler and no measurement leaves a weight that nobody will correct.
LEMMA ImportStep == TypeInv /\ ImportInv /\ [Next]_vars => ImportInv'
<1> SUFFICES ASSUME TypeInv, ImportInv, [Next]_vars PROVE ImportInv'
  BY Zenon
<1>0. /\ sequence \in Nat /\ last_sequence \in Nat /\ routes \subseteq PeersOf(Default)
      /\ routes \subseteq Peers /\ covered \subseteq VRFs /\ configured \subseteq Instances
      /\ enabled \in [Instances -> BOOLEAN] /\ established \subseteq Peers
      /\ weighed \in [VRFs -> [Peers -> Latencies \cup {UINT32_MAX, NULL}]]
      /\ reimport \subseteq VRFs \X Peers
      /\ Default \in Instances /\ VRFs \subseteq Instances
      /\ IBGP \subseteq Peers /\ INET \subseteq Peers
  BY PeersOfFinite, InstancesAssumption, Zenon DEF TypeInv, TypeOK, VRFs
<1>s. sequence' \in Nat
  BY SegStep, Zenon DEF SegType
<1>q. CASE UNCHANGED <<cfgVars, ribVars, nexthops, nh_count, sequence, silent, shm, last_sequence, pc,
                       reimport, covered>>
  <2>1. UNCHANGED <<routes, weighed, configured, enabled>>
    BY <1>q, Zenon DEF ribVars, cfgVars
  <2> QED
    BY <1>q, <1>s, <2>1, TableOnly, Zenon DEF ImportInv
<1>1. ASSUME NEW b \in Instances, bgp_create(b) PROVE ImportInv'
  <2>1. /\ b \notin configured /\ configured' = configured \cup {b}
        /\ enabled' = [enabled EXCEPT ![b] = FALSE]
        /\ UNCHANGED <<routes, weighed, nexthops, nh_count, sequence, silent, shm, last_sequence, pc,
                       reimport, covered>>
    BY <1>1, Zenon DEF bgp_create, ribVars, segVars, measuring, results, busyVars, history
  <2> QED
    BY <1>0, <1>s, <2>1, TableOnly, Zenon DEF ImportInv
<1>2. ASSUME NEW b \in Instances, bgp_delete(b) PROVE ImportInv'
  <2>1. /\ configured' = configured \ {b} /\ (b = Default => configured = {Default})
        /\ enabled' = [enabled EXCEPT ![b] = FALSE]
        /\ routes' = routes \ PeersOf(b) /\ covered' = covered \ {b}
        /\ weighed' = [v \in VRFs |-> [p \in Peers |->
                         IF v = b \/ p \in PeersOf(b) THEN NULL ELSE weighed[v][p]]]
        /\ UNCHANGED <<nexthops, nh_count, sequence, silent, shm, last_sequence, pc, reimport>>
    BY <1>2, Zenon DEF bgp_delete, segVars, measuring, results, busyVars
  <2>2. \A v \in covered' : \A p \in routes' : weighed'[v][p] = weighed[v][p]
    BY <1>0, <2>1, Zenon
  <2>3. \A v \in covered' : \A p \in routes' \cap IBGP \cap INET :
          Current(v, p)' \/ silent' \/ sequence' # last_sequence' \/ <<v, p>> \in reimport'
    <3> TAKE v \in covered'
    <3> TAKE p \in routes' \cap IBGP \cap INET
    <3>1. v \in covered /\ p \in routes \cap IBGP \cap INET /\ p \in Peers
      BY <1>0, <2>1, Zenon
    <3>2. weighed'[v][p] = weighed[v][p]
      BY <2>2, Zenon
    <3>3. bgp_twamp_get_latency(su[p])' = bgp_twamp_get_latency(su[p])
      BY <2>1, <3>1, SameTable, Zenon
    <3>4. Current(v, p) \/ silent \/ sequence # last_sequence \/ <<v, p>> \in reimport
      BY <3>1, Zenon DEF ImportInv
    <3> QED
      BY <2>1, <3>2, <3>3, <3>4, Zenon DEF Current
  <2>4. /\ \A v \in covered' : v \in configured' /\ enabled'[v]
        /\ routes' # {} => Default \in configured'
    BY <1>0, <2>1, Zenon DEF ImportInv
  <2> QED
    BY <1>0, <2>1, <2>3, <2>4, Zenon DEF ImportInv
<1>3. ASSUME NEW b \in Instances, bgp_import_check_latency(b) PROVE ImportInv'
  <2>1. /\ configured' = configured /\ enabled' = [enabled EXCEPT ![b] = TRUE]
        /\ pc = "idle" /\ pc' \in {"idle", "init"}
        /\ UNCHANGED <<routes, weighed, last_sequence, covered>>
    BY <1>3, Zenon DEF bgp_import_check_latency, Enter, ribVars, busyVars, history
  <2>2. reimport' = {}
    BY <1>3, Zenon DEF bgp_import_check_latency, Enter, busyVars, ImportInv
  <2>3. CASE shm
    <3>1. UNCHANGED <<nexthops, nh_count, sequence, silent, shm>>
      BY <1>3, <2>3, Zenon DEF bgp_import_check_latency, segVars, measuring, results
    <3> QED
      BY <1>0, <1>s, <2>1, <2>2, <3>1, TableOnly, Zenon DEF ImportInv
  <2>4. CASE ~shm
    BY <1>0, <2>1, <2>2, <2>4, Zenon DEF ImportInv
  <2> QED
    BY <2>3, <2>4, Zenon
<1>4. ASSUME NEW b \in Instances, no_bgp_import_check_latency(b) PROVE ImportInv'
  BY <1>4, Zenon DEF no_bgp_import_check_latency, ribVars, busyVars, ImportInv
<1>5. ASSUME NEW p \in Peers, PeerEstablished(p) PROVE ImportInv'
  <2>1. /\ pc = "idle" /\ pc' \in {"idle", "fsm"} /\ reimport' = {}
        /\ UNCHANGED <<configured, enabled, routes, weighed, nexthops, nh_count, sequence, silent,
                       shm, last_sequence, covered>>
    BY <1>5, Zenon DEF PeerEstablished, Enter, ribVars, segVars, measuring, results, busyVars, history, ImportInv
  <2> QED
    BY <1>s, <2>1, TableOnly, Zenon DEF ImportInv
<1>6. ASSUME NEW p \in Peers, PeerDown(p) PROVE ImportInv'
  <2>1. /\ routes' = routes \ {p}
        /\ weighed' = [v \in VRFs |-> [weighed[v] EXCEPT ![p] = NULL]]
        /\ UNCHANGED <<configured, enabled, nexthops, nh_count, sequence, silent, shm, last_sequence,
                       pc, reimport, covered>>
    BY <1>6, Zenon DEF PeerDown, segVars, measuring, results, busyVars, history
  <2>2. \A v \in covered : \A r \in routes' : weighed'[v][r] = weighed[v][r]
    BY <1>0, <2>1, Zenon
  <2> QED
    BY <1>0, <2>1, <2>2, SameTable, SMTT(60) DEF ImportInv, Current
<1>7. ASSUME NEW p \in Peers, VpnUpdate(p) PROVE ImportInv'
  <2>1. /\ pc = "idle" /\ pc' = "import" /\ p \in established /\ p \in PeersOf(Default)
        /\ routes' = routes \cup {p} /\ reimport' = (VRFs \cap configured) \X {p}
        /\ UNCHANGED <<configured, enabled, weighed, nexthops, nh_count, sequence, silent, shm,
                       last_sequence, covered>>
    BY <1>7, Zenon DEF VpnUpdate, Enter, cfgVars, segVars, measuring, results, history
  <2>2. Default \in configured
    BY <1>0, <2>1, OwnerUnique, Zenon DEF TypeInv, Owned
  <2>3. \A v \in covered : <<v, p>> \in reimport'
    BY <1>0, <2>1, Zenon DEF ImportInv
  <2>4. \A v \in covered : \A r \in (routes' \ {p}) \cap IBGP \cap INET :
          Current(v, r)' \/ silent' \/ sequence' # last_sequence'
    BY <1>0, <2>1, SameTable, Zenon DEF ImportInv, Current
  <2> QED
    BY <1>0, <2>1, <2>2, <2>3, <2>4, Zenon DEF ImportInv
<1>8. CASE CollectPeer
  <2>1. /\ UNCHANGED <<configured, enabled, routes, weighed, shm, last_sequence, pc, reimport,
                       covered>>
    BY <1>8, Zenon DEF CollectPeer, cfgVars, ribVars, history
  <2>2. su[Head(todo)] \in Addrs
    BY <1>8, InstancesAssumption DEF CollectPeer, TypeInv, TypeOK
  <2>3. \/ nexthops' = nexthops /\ nh_count' = nh_count /\ sequence' = sequence
        \/ sequence' > sequence
    BY <1>8, <2>2, AddedEffect, Zenon DEF CollectPeer, segVars
  <2>4. sequence' = sequence => silent' = silent
    <3>1. silent' = (silent /\ sequence' = sequence) /\ silent \in BOOLEAN
      BY <1>8, Zenon DEF CollectPeer, TypeInv, TypeOK
    <3> QED
      BY <3>1, Zenon
  <2> QED
    BY <1>s, <2>1, <2>3, <2>4, TableOnly, Zenon DEF ImportInv
<1>9. CASE ImportOne
  <2>1. PICK pair \in reimport :
          /\ reimport' = reimport \ {pair}
          /\ IF enabled[pair[1]] /\ pair[2] \in IBGP
             THEN weighed' = [weighed EXCEPT ![pair[1]][pair[2]] =
                    IF pair[2] \in INET THEN bgp_twamp_get_latency(su[pair[2]])
                                        ELSE UINT32_MAX]
             ELSE UNCHANGED weighed
    BY <1>9, Zenon DEF ImportOne
  <2>2. /\ pc \in {"import", "refresh"}
        /\ UNCHANGED <<configured, enabled, routes, nexthops, nh_count, sequence, silent, shm,
                       last_sequence, pc, covered>>
    BY <1>9, Zenon DEF ImportOne, cfgVars, segVars, measuring, results, history
  <2>3. PICK w \in VRFs, r \in Peers : pair = <<w, r>>
    BY <1>0, <2>1
  <2>4. ASSUME NEW v \in covered, NEW p \in routes \cap IBGP \cap INET
        PROVE  Current(v, p)' \/ silent' \/ sequence' # last_sequence' \/ <<v, p>> \in reimport'
    <3>1. CASE v = w /\ p = r
      <4>1. enabled[w]
        BY <3>1, Zenon DEF ImportInv
      <4>2. weighed'[v][p] = bgp_twamp_get_latency(su[p])
        BY <1>0, <2>1, <2>3, <3>1, <4>1, SMTT(60)
      <4> QED
        BY <1>0, <2>2, <4>2, SameTable, Zenon DEF Current
    <3>2. CASE ~(v = w /\ p = r)
      <4>1. weighed'[v][p] = weighed[v][p]
        BY <1>0, <2>1, <2>3, <3>2, SMTT(60)
      <4>2. <<v, p>> \in reimport => <<v, p>> \in reimport'
        BY <2>1, <2>3, <3>2, Zenon
      <4> QED
        BY <1>0, <2>2, <4>1, <4>2, SameTable, Zenon DEF Current, ImportInv
    <3> QED
      BY <3>1, <3>2, Zenon
  <2> QED
    BY <2>2, <2>4, Zenon DEF ImportInv
<1>10. CASE ImportDone \/ RefreshDone
  <2>1. /\ reimport = {} /\ reimport' = {}
        /\ UNCHANGED <<configured, enabled, routes, weighed, nexthops, nh_count, sequence, silent, shm,
                       last_sequence, covered>>
    BY <1>10, Zenon DEF ImportDone, RefreshDone, Leave, Enter, cfgVars, ribVars, segVars, measuring, results, history
  <2> QED
    BY <1>s, <2>1, TableOnly, Zenon DEF ImportInv
<1>11. CASE InitDone \/ StoreStatus
  <2>1. /\ pc \notin {"import", "refresh"} /\ reimport' = {}
        /\ UNCHANGED <<configured, enabled, routes, weighed, nexthops, nh_count, sequence, silent, shm,
                       last_sequence, covered>>
    BY <1>11, Zenon DEF InitDone, StoreStatus, Leave, Enter, cfgVars, ribVars, segVars, measuring, results
  <2> QED
    BY <1>s, <2>1, TableOnly, Zenon DEF ImportInv
<1>12. CASE CheckChanged
  <2>1. /\ shm /\ sequence' = sequence /\ last_sequence' = sequence
        /\ UNCHANGED <<configured, enabled, routes, weighed, nexthops, nh_count, shm>>
    BY <1>12, Zenon DEF CheckChanged, cfgVars, ribVars, segVars, measuring, results
  <2>2. CASE Default \in configured
    <3>1. /\ pc' = "refresh" /\ reimport' = (VRFs \cap configured) \X routes
          /\ covered' = {v \in VRFs \cap configured : enabled[v]}
      BY <1>12, <2>2, Zenon DEF CheckChanged, Enter
    <3> QED
      BY <1>0, <2>1, <2>2, <3>1, SMTT(60) DEF ImportInv
  <2>3. CASE Default \notin configured
    <3>1. pc' = "aborted" /\ reimport' = {} /\ covered' = covered
      BY <1>12, <2>3, Zenon DEF CheckChanged, Enter
    <3> QED
      BY <1>0, <2>1, <2>3, <3>1, SMTT(60) DEF ImportInv
  <2> QED
    BY <2>2, <2>3, Zenon
<1>13. CASE MeasuringProcess
  <2>1. UNCHANGED <<configured, enabled, routes, weighed, nh_count, shm, last_sequence, pc,
                    reimport, covered>>
    BY <1>13, MeasuringAlone, Zenon
  <2>2. CASE WriteBack
    <3>1. sequence' = sequence /\ silent'
      BY <2>2, Zenon DEF WriteBack
    <3> QED
      BY <1>s, <2>1, <3>1, TableOnly, Zenon DEF ImportInv
  <2>3. CASE AnnounceResults
    <3>1. sequence' > sequence
      BY <1>0, <2>3 DEF AnnounceResults
    <3> QED
      BY <1>s, <2>1, <3>1, TableOnly, Zenon DEF ImportInv
  <2>4. CASE UNCHANGED <<nexthops, sequence, silent>>
    BY <1>s, <2>1, <2>4, TableOnly, Zenon DEF ImportInv
  <2> QED
    BY <1>13, <2>2, <2>3, <2>4, MeasuringAlone, Zenon
<1>14. CASE Restart
  BY <1>14, Zenon DEF Restart, Leave, Enter, ImportInv
<1>15. CASE CheckStops \/ CheckSame \/ UNCHANGED vars
  BY <1>q, <1>15, Zenon
  DEF CheckStops, CheckSame, vars, segVars, measuring, results, busyVars, history, cfgVars, ribVars
<1> QED
  BY <1>1, <1>2, <1>3, <1>4, <1>5, <1>6, <1>7, <1>8, <1>9, <1>10, <1>11, <1>12, <1>13,
     <1>14, <1>15, Zenon
  DEF Next, Operator, Sessions, MainThread, TimerDue

\* A settled re-import leaves no weight behind the segment, whatever results were
\* stored and announced while it ran; a result that nobody announces is the one way.
THEOREM ImportsAreCurrent == Spec => []ImportsCurrent
<1>1. Init => ImportInv
  BY Zenon DEF Init, ImportInv
<1>2. ImportInv => ImportsCurrent
  BY Zenon DEF ImportInv, ImportsCurrent, Current
<1> QED
  BY <1>1, <1>2, ImportStep, TypeInvariant, PTL DEF Spec

-----------------------------------------------------------------------------
(* The collection of peers.                                                *)

\* The peer's address is in the table, or there was no room for it, or a write-back
\* from before the table was emptied may have replaced it.
Kept(p) == spoiled \/ Listed(su[p]) \/ nh_count = MAX_NEXTHOPS

\* The instance whose peers are being collected.
Subject == IF pc = "init" THEN ctx ELSE Owner(ctx)

\* An instance that was collected has the feature on and the table is mapped, so
\* that a later transition to Established is not missed; and while the peers of an
\* instance are visited, those already behind are kept.
CollectInv ==
  /\ \A b \in collected : b \in configured /\ enabled[b] /\ shm
  /\ pc \in {"init", "fsm"} =>
       /\ Subject \in configured /\ enabled[Subject] /\ shm
       /\ \A p \in Monitored(Subject) : p \in Range(todo) \/ Kept(p)
  /\ \A b \in collected : \A p \in Monitored(b) : p = latest[b] \/ Kept(p)

\* bgp_twamp_add_nexthop lists the address unless the table is full.
LEMMA AddLists ==
  ASSUME TypeInv, shm, NEW a \in Addrs, bgp_twamp_add_nexthop(a)
  PROVE  Listed(a)' \/ nh_count' = MAX_NEXTHOPS
<1> DEFINE known == {i \in Used : nexthops[i].addr = a}
           first == CHOOSE i \in known : \A j \in known : i <= j
<1>0. /\ nexthops \in [Slots -> Nexthop] /\ nh_count \in 0 .. MAX_NEXTHOPS
      /\ MAX_NEXTHOPS \in Nat /\ UsedHolds
  BY NumbersAssumption, Zenon DEF TypeInv, TypeOK
<1>1. CASE known # {}
  <2>1. PICK i \in Used : nexthops[i].addr = a /\ nexthops[i].active
    BY <1>0, <1>1, Zenon DEF UsedHolds, Live
  <2>2. i \in Used' /\ nexthops'[i] = nexthops[i]
    BY AddedEffect, Zenon
  <2> QED
    BY <2>1, <2>2, Zenon DEF Listed
<1>2. CASE known = {} /\ nh_count < MAX_NEXTHOPS
  <2>1. nexthops' = [nexthops EXCEPT ![nh_count] = NewNexthop(a)] /\ nh_count' = nh_count + 1
    BY <1>2, Zenon DEF bgp_twamp_add_nexthop
  <2>2. nh_count \in Used' /\ nexthops'[nh_count] = NewNexthop(a)
    BY <1>0, <1>2, <2>1, SMTT(60) DEF Used, Slots
  <2> QED
    BY <2>2, SMTT(60) DEF Listed, NewNexthop
<1>3. CASE known = {} /\ ~(nh_count < MAX_NEXTHOPS)
  BY <1>0, <1>3, SMTT(60) DEF bgp_twamp_add_nexthop, segVars
<1> QED
  BY <1>1, <1>2, <1>3, ZenonT(60)

\* What the table keeps it keeps until it is emptied.
LEMMA KeptStays ==
  ASSUME TypeInv, [Next]_vars, ~Emptied, NEW p \in Peers, Kept(p)
  PROVE  Kept(p)'
<1>0. /\ nh_count \in 0 .. MAX_NEXTHOPS /\ MAX_NEXTHOPS \in Nat
      /\ nh_count' \in 0 .. MAX_NEXTHOPS
  BY NumbersAssumption, SegStep, Zenon DEF TypeInv, TypeOK, SegType
<1>1. CASE spoiled'
  BY <1>1, Zenon DEF Kept
<1>2. CASE ~spoiled' /\ Listed(su[p])
  BY <1>2, TableKept, Zenon DEF Listed, Kept
<1>3. CASE ~spoiled' /\ nh_count = MAX_NEXTHOPS
  <2>1. nh_count' >= nh_count
    BY <1>3, TableKept, Zenon
  <2> QED
    BY <1>0, <1>3, <2>1, SMTT(60) DEF Kept
<1> QED
  BY <1>1, <1>2, <1>3, TableKept, Zenon DEF Kept

\* The elements of a non-empty list are its head and those of its tail.
LEMMA HeadTailRange ==
  ASSUME NEW S, NEW s \in Seq(S), s # <<>>
  PROVE  Range(s) = {Head(s)} \cup Range(Tail(s)) /\ Head(s) \in S
<1>1. /\ Len(s) \in Nat \ {0} /\ DOMAIN s = 1 .. Len(s)
      /\ Head(s) = s[1] /\ DOMAIN Tail(s) = 1 .. Len(s) - 1
      /\ \A i \in 1 .. Len(s) - 1 : Tail(s)[i] = s[i + 1]
  OBVIOUS
<1>2. \A i \in 1 .. Len(s) : i = 1 \/ (i - 1 \in 1 .. Len(s) - 1 /\ s[i] = Tail(s)[i - 1])
  BY <1>1, SMTT(60)
<1>3. Range(s) \subseteq {Head(s)} \cup Range(Tail(s))
  <2> SUFFICES ASSUME NEW i \in 1 .. Len(s)
               PROVE  s[i] \in {Head(s)} \cup Range(Tail(s))
    BY <1>1, ZenonT(60) DEF Range
  <2>1. CASE i = 1
    BY <1>1, <2>1, Zenon
  <2>2. CASE i - 1 \in 1 .. Len(s) - 1 /\ s[i] = Tail(s)[i - 1]
    BY <1>1, <2>2, Zenon DEF Range
  <2> QED
    BY <1>2, <2>1, <2>2, Zenon
<1>4. {Head(s)} \cup Range(Tail(s)) \subseteq Range(s)
  BY <1>1, SMTT(60) DEF Range
<1> QED
  BY <1>1, <1>3, <1>4, SMTT(60)

\* A step that collects nothing and establishes nobody keeps the invariant.
LEMMA CollectQuiet ==
  ASSUME TypeInv, CollectInv, [Next]_vars,
         UNCHANGED <<configured, enabled, shm, collected, latest>>,
         established' \subseteq established,
         pc' \in {"init", "fsm"} => UNCHANGED <<pc, ctx, todo>>
  PROVE  CollectInv'
<1>0. /\ \A b \in Instances : Monitored(b) \subseteq Peers /\ Monitored(b)' \subseteq Monitored(b)
      /\ collected \subseteq Instances /\ configured \subseteq Instances
  BY PeersOfFinite, Zenon DEF Monitored, TypeInv, TypeOK
<1>1. CASE ~shm
  BY <1>1, Zenon DEF CollectInv
<1>2. CASE shm
  <2>1. \A p \in Peers : Kept(p) => Kept(p)'
    BY <1>2, KeptStays, Zenon DEF Emptied
  <2>2. \A b \in collected' : \A p \in Monitored(b)' : p = latest'[b] \/ Kept(p)'
    BY <1>0, <2>1, Zenon DEF CollectInv
  <2>3. pc' \in {"init", "fsm"} =>
          /\ Subject' = Subject /\ pc \in {"init", "fsm"} /\ Subject \in Instances
          /\ \A p \in Monitored(Subject)' : p \in Range(todo') \/ Kept(p)'
    BY <1>0, <2>1, Zenon DEF CollectInv, Subject
  <2> QED
    BY <2>2, <2>3, Zenon DEF CollectInv, Subject
<1> QED
  BY <1>1, <1>2, Zenon

\* Every step keeps the invariant of the collection.
LEMMA CollectStep == TypeInv /\ CollectInv /\ [Next]_vars => CollectInv'
<1> SUFFICES ASSUME TypeInv, CollectInv, [Next]_vars PROVE CollectInv'
  BY Zenon
<1>0. /\ collected \subseteq Instances /\ configured \subseteq Instances
      /\ established \subseteq Peers /\ enabled \in [Instances -> BOOLEAN]
      /\ latest \in [Instances -> Peers \cup {NULL}] /\ todo \in Seq(Peers)
      /\ pc = "fsm" => ctx \in Peers
      /\ pc = "init" => ctx \in Instances
      /\ \A b \in Instances : Monitored(b) \subseteq Peers /\ Monitored(b) \subseteq PeersOf(b)
  BY PeersOfFinite, Zenon DEF TypeInv, TypeOK, Monitored
<1>1. ASSUME NEW b \in Instances, bgp_create(b) PROVE CollectInv'
  <2>1. /\ pc = "idle" /\ b \notin configured /\ configured' = configured \cup {b}
        /\ enabled' = [enabled EXCEPT ![b] = FALSE]
        /\ UNCHANGED <<established, shm, nexthops, nh_count, spoiled, collected, latest, pc>>
    BY <1>1, Zenon DEF bgp_create, segVars, measuring, results, busyVars, history
  <2>2. \A p \in Peers : Kept(p)' = Kept(p)
    BY <2>1, Zenon DEF Kept, Listed, Used
  <2> QED
    BY <1>0, <2>1, <2>2, Zenon DEF CollectInv, Monitored
<1>2. ASSUME NEW b \in Instances, bgp_delete(b) PROVE CollectInv'
  <2>1. /\ pc = "idle" /\ configured' = configured \ {b} /\ collected' = collected \ {b}
        /\ enabled' = [enabled EXCEPT ![b] = FALSE]
        /\ established' = established \ PeersOf(b)
        /\ UNCHANGED <<shm, nexthops, nh_count, spoiled, latest, pc>>
    BY <1>2, Zenon DEF bgp_delete, segVars, measuring, results, busyVars
  <2>2. \A p \in Peers : Kept(p)' = Kept(p)
    BY <2>1, Zenon DEF Kept, Listed, Used
  <2>3. \A c \in Instances : Monitored(c)' \subseteq Monitored(c)
    BY <2>1, Zenon DEF Monitored
  <2> QED
    BY <1>0, <2>1, <2>2, <2>3, ZenonT(60) DEF CollectInv
<1>3. ASSUME NEW b \in Instances, bgp_import_check_latency(b) PROVE CollectInv'
  <2>1. /\ pc = "idle" /\ b \in configured /\ enabled' = [enabled EXCEPT ![b] = TRUE]
        /\ UNCHANGED <<configured, established, collected, latest>>
    BY <1>3, Zenon DEF bgp_import_check_latency, history
  <2>2. \/ shm' /\ pc' = "init" /\ ctx' = b /\ todo' = peerList[b]
        \/ pc' = "idle" /\ shm' = shm /\ ~shm
    BY <1>3, Zenon DEF bgp_import_check_latency, Enter, busyVars, OpenFails, SizeOrMapFails, MapSegment
  <2>3. CASE ~shm
    <3>1. collected = {}
      BY <2>3, Zenon DEF CollectInv
    <3>2. pc' = "init" => Monitored(b)' \subseteq Range(todo')
      BY <2>2, Zenon DEF Monitored, PeersOf
    <3> QED
      BY <1>0, <2>1, <2>2, <2>3, <3>1, <3>2, ZenonT(60) DEF CollectInv, Subject
  <2>4. CASE shm
    <3>1. UNCHANGED <<nexthops, nh_count, spoiled, shm>>
      BY <1>3, <2>4, Zenon DEF bgp_import_check_latency, segVars, measuring, results
    <3>2. \A p \in Peers : Kept(p)' = Kept(p)
      BY <3>1, Zenon DEF Kept, Listed, Used
    <3>3. \A c \in Instances : Monitored(c)' = Monitored(c)
      BY <2>1, Zenon DEF Monitored
    <3>4. Monitored(b)' \subseteq Range(todo')
      BY <2>2, <2>4, Zenon DEF Monitored, PeersOf
    <3>5. \A c \in collected : c \in configured' /\ enabled'[c] /\ shm'
      BY <1>0, <2>1, <2>4, <3>1, Zenon DEF CollectInv
    <3>6. \A c \in collected' : \A p \in Monitored(c)' : p = latest'[c] \/ Kept(p)'
      BY <1>0, <2>1, <3>2, <3>3, ZenonT(60) DEF CollectInv
    <3> QED
      BY <1>0, <2>1, <2>2, <2>4, <3>4, <3>5, <3>6, ZenonT(60) DEF CollectInv, Subject
  <2> QED
    BY <2>3, <2>4, Zenon
<1>4. ASSUME NEW b \in Instances, no_bgp_import_check_latency(b) PROVE CollectInv'
  BY <1>4, Zenon DEF no_bgp_import_check_latency, busyVars, CollectInv
<1>5. ASSUME NEW p \in Peers, PeerEstablished(p) PROVE CollectInv'
  <2>1. /\ pc = "idle" /\ Owner(p) \in configured
        /\ UNCHANGED <<configured, enabled, shm, nexthops, nh_count, spoiled, collected, latest>>
    BY <1>5, Zenon DEF PeerEstablished, segVars, measuring, results, history
  <2>2. \A r \in Peers : Kept(r)' = Kept(r)
    BY <2>1, Zenon DEF Kept, Listed, Used
  <2>3. CASE enabled[Owner(p)] /\ shm
    <3>1. /\ pc' = "fsm" /\ ctx' = p /\ todo' = peerList[Owner(p)] /\ established' = established
      BY <1>5, <2>3, Zenon DEF PeerEstablished, Enter
    <3>2. Monitored(Owner(p))' \subseteq Range(todo')
      BY <3>1, Zenon DEF Monitored, PeersOf
    <3>3. \A c \in Instances : Monitored(c)' = Monitored(c)
      BY <3>1, Zenon DEF Monitored
    <3> QED
      BY <1>0, <2>1, <2>2, <2>3, <3>1, <3>2, <3>3, ZenonT(60) DEF CollectInv, Subject
  <2>4. CASE ~(enabled[Owner(p)] /\ shm)
    <3>1. pc' = "idle" /\ established' = established \cup {p}
      BY <1>5, <2>4, Zenon DEF PeerEstablished, busyVars
    <3>2. \A c \in collected : Monitored(c)' = Monitored(c)
      BY <1>0, <2>4, <3>1, OwnerUnique, SMTT(60) DEF CollectInv, Monitored
    <3> QED
      BY <1>0, <2>1, <2>2, <3>1, <3>2, Zenon DEF CollectInv
  <2> QED
    BY <2>3, <2>4, Zenon
<1>6. CASE CollectPeer
  <2>1. /\ pc \in {"init", "fsm"} /\ todo # <<>> /\ todo' = Tail(todo)
        /\ UNCHANGED <<configured, enabled, established, shm, collected, latest, pc, ctx>>
    BY <1>6, Zenon DEF CollectPeer, cfgVars, history
  <2>2. shm /\ Subject' = Subject /\ Subject \in Instances
    BY <1>0, <2>1, Zenon DEF CollectInv, Subject
  <2>3. \A p \in Peers : Kept(p) => Kept(p)'
    BY <2>1, <2>2, KeptStays, Zenon DEF Emptied
  <2>4. PICK q \in Peers : q = Head(todo) /\ Range(todo) = {q} \cup Range(todo')
    BY <1>0, <2>1, HeadTailRange, Zenon
  <2>5. q \in Monitored(Subject) => Kept(q)'
    <3>1. SUFFICES ASSUME q \in Monitored(Subject) PROVE Kept(q)'
      BY Zenon
    <3>2. bgp_twamp_add_nexthop(su[q])
      BY <1>6, <2>4, <3>1, Zenon DEF CollectPeer, Monitored
    <3>3. su[q] \in Addrs
      BY InstancesAssumption, Zenon
    <3>4. PICK a \in Addrs : a = su[q]
      BY <3>3, Zenon
    <3>5. Listed(a)' \/ nh_count' = MAX_NEXTHOPS
      BY <2>2, <3>2, <3>4, AddLists, Zenon
    <3> QED
      BY <3>4, <3>5, Zenon DEF Kept
  <2>6. \A c \in Instances : Monitored(c)' = Monitored(c)
    BY <2>1, Zenon DEF Monitored
  <2>7. \A p \in Monitored(Subject)' : p \in Range(todo') \/ Kept(p)'
    <3>1. PICK c \in Instances : c = Subject /\ c = Subject'
      BY <2>2, Zenon
    <3>2. \A p \in Monitored(c) : p \in Range(todo) \/ Kept(p)
      BY <2>1, <3>1, Zenon DEF CollectInv
    <3>3. \A p \in Monitored(c)' : p \in Range(todo') \/ Kept(p)'
      BY <1>0, <2>3, <2>4, <2>5, <2>6, <3>1, <3>2, ZenonT(60)
    <3> QED
      BY <3>1, <3>3, Zenon
  <2>8. \A c \in collected' : \A p \in Monitored(c)' : p = latest'[c] \/ Kept(p)'
    BY <1>0, <2>1, <2>3, <2>6, Zenon DEF CollectInv
  <2> QED
    BY <2>1, <2>2, <2>7, <2>8, Zenon DEF CollectInv
<1>7. CASE InitDone \/ StoreStatus
  <2>1. /\ pc \in {"init", "fsm"} /\ pc' = "idle" /\ todo = <<>>
        /\ collected' = collected \cup {Subject}
        /\ UNCHANGED <<configured, enabled, shm, nexthops, nh_count, spoiled>>
    BY <1>7, Zenon DEF InitDone, StoreStatus, Leave, Enter, Subject, cfgVars, segVars, measuring, results
  <2>2. /\ Subject \in Instances /\ Subject \in configured /\ enabled[Subject] /\ shm
        /\ \A p \in Monitored(Subject) : Kept(p)
    BY <1>0, <2>1, SMTT(60) DEF CollectInv, Range
  <2>3. \A p \in Peers : Kept(p)' = Kept(p)
    BY <2>1, Zenon DEF Kept, Listed, Used
  <2>4. ASSUME NEW c \in collected', NEW p \in Monitored(c)'
        PROVE  p = latest'[c] \/ Kept(p)'
    <3>1. CASE pc = "init"
      <4>1. established' = established /\ latest' = [latest EXCEPT ![Subject] = NULL]
        BY <1>7, <3>1, Zenon DEF InitDone, StoreStatus, Subject, cfgVars
      <4>2. p \in Monitored(c) /\ p \in Peers /\ c \in Instances
        BY <1>0, <2>1, <2>2, <2>4, <4>1, Zenon DEF Monitored
      <4> QED
        BY <1>0, <2>1, <2>2, <2>3, <4>1, <4>2, Zenon DEF CollectInv
    <3>2. CASE pc = "fsm"
      <4>1. /\ established' = established \cup {ctx} /\ Subject = Owner(ctx)
            /\ latest' = [latest EXCEPT ![Subject] = ctx] /\ ctx \in Peers
        BY <1>0, <1>7, <3>2, Zenon DEF InitDone, StoreStatus, Subject
      <4>2. c \in Instances
        BY <1>0, <2>1, <2>2, <2>4, Zenon
      <4>3. p \in Monitored(c) \/ (p = ctx /\ ctx \in PeersOf(c))
        BY <2>4, <4>1, Zenon DEF Monitored
      <4>4. CASE p = ctx /\ ctx \in PeersOf(c)
        <5>1. c = Subject
          BY <4>1, <4>2, <4>4, OwnerUnique, Zenon
        <5> QED
          BY <1>0, <2>2, <4>1, <4>4, <5>1, Zenon
      <4>5. CASE p \in Monitored(c)
        BY <1>0, <2>1, <2>2, <2>3, <4>1, <4>2, <4>5, Zenon DEF CollectInv
      <4> QED
        BY <4>3, <4>4, <4>5, Zenon
    <3> QED
      BY <2>1, <3>1, <3>2, Zenon
  <2> QED
    BY <1>0, <2>1, <2>2, <2>4, Zenon DEF CollectInv
<1>8. CASE Restart
  BY <1>8, Zenon DEF Restart, Leave, Enter, CollectInv
<1>9. ASSUME NEW p \in Peers, PeerDown(p) \/ VpnUpdate(p) PROVE CollectInv'
  BY <1>9, CollectQuiet, Zenon DEF PeerDown, VpnUpdate, Enter, cfgVars, busyVars, history
<1>10. CASE ImportOne \/ ImportDone \/ RefreshDone
  BY <1>10, CollectQuiet, Zenon DEF ImportOne, ImportDone, RefreshDone, Leave, Enter, cfgVars, history
<1>11. CASE CheckChanged
  <2>1. pc' \notin {"init", "fsm"}
    BY <1>11, Zenon DEF CheckChanged, Enter
  <2> QED
    BY <1>11, <2>1, CollectQuiet, Zenon DEF CheckChanged, cfgVars
<1>12. CASE CheckStops \/ CheckSame \/ MeasuringProcess \/ UNCHANGED vars
  BY <1>12, CollectQuiet, MeasuringAlone, Zenon
  DEF CheckStops, CheckSame, vars, cfgVars, busyVars, history
<1> QED
  BY <1>1, <1>2, <1>3, <1>4, <1>5, <1>6, <1>7, <1>8, <1>9, <1>10, <1>11, <1>12, ZenonT(60)
  DEF Next, Operator, Sessions, MainThread, TimerDue

\* A collection leaves out only the peer established last and what a full table has
\* no room for.
THEOREM PeersAreListed == Spec => []CollectedPeersListed
<1>1. Init => CollectInv
  BY Zenon DEF Init, CollectInv
<1>2. CollectInv => CollectedPeersListed
  BY Zenon DEF CollectInv, CollectedPeersListed, Kept
<1> QED
  BY <1>1, <1>2, CollectStep, TypeInvariant, PTL DEF Spec

-----------------------------------------------------------------------------
(* Polling.                                                                *)

\* The timer's argument exists, or has been seen to be deleted.
ListenerInv == ~dangling /\ Listener # NULL => Listener \in configured

\* Every step keeps the timer's argument a configured instance, or dangling.
LEMMA ListenerStep == TypeInv /\ CollectInv /\ ListenerInv /\ [Next]_vars => ListenerInv'
<1> SUFFICES ASSUME TypeInv, CollectInv, ListenerInv, [Next]_vars PROVE ListenerInv'
  BY Zenon
<1>0. dangling \in BOOLEAN
  BY Zenon DEF TypeInv, TypeOK
<1>q. CASE UNCHANGED dangling /\ Listener' = Listener /\ configured \subseteq configured'
  BY <1>q, Zenon DEF ListenerInv
<1>1. ASSUME NEW b \in Instances, bgp_create(b) PROVE ListenerInv'
  BY <1>1, <1>q, Zenon DEF bgp_create, busyVars, Listener
<1>2. ASSUME NEW b \in Instances, bgp_delete(b) PROVE ListenerInv'
  <2>1. /\ Listener = timer /\ Listener' = timer /\ configured' = configured \ {b}
        /\ dangling' = (dangling \/ timer = b)
    BY <1>2, Zenon DEF bgp_delete, busyVars, Listener
  <2>2. CASE dangling \/ timer = b
    BY <2>1, <2>2, Zenon DEF ListenerInv
  <2>3. CASE ~dangling /\ timer # b
    BY <2>1, <2>3, Zenon DEF ListenerInv
  <2> QED
    BY <2>2, <2>3, Zenon
<1>3. ASSUME NEW b \in Instances, bgp_import_check_latency(b) \/ no_bgp_import_check_latency(b)
      PROVE  ListenerInv'
  BY <1>3, <1>q, Zenon
  DEF bgp_import_check_latency, no_bgp_import_check_latency, Enter, busyVars, Listener
<1>4. CASE Sessions
  BY <1>4, <1>q, Zenon
  DEF Sessions, PeerEstablished, PeerDown, VpnUpdate, Enter, busyVars, cfgVars, Listener
<1>5. CASE InitDone
  <2>1. ctx \in configured /\ configured' = configured /\ pc = "init" /\ pc' = "idle"
    BY <1>5, Zenon DEF InitDone, Leave, Enter, cfgVars, CollectInv, Subject
  <2>2. \/ timer' = ctx
        \/ timer' = timer /\ dangling' = dangling
    BY <1>5, Zenon DEF InitDone, event_add_timer
  <2> QED
    BY <2>1, <2>2, Zenon DEF ListenerInv, Listener
<1>6. CASE RefreshDone \/ CollectPeer \/ StoreStatus \/ ImportOne \/ ImportDone
  BY <1>6, <1>q, Zenon
  DEF RefreshDone, CollectPeer, StoreStatus, ImportOne, ImportDone, Leave, Enter, cfgVars, Listener
<1>7. CASE CheckStops \/ Restart
  BY <1>7, Zenon DEF CheckStops, Restart, Leave, Enter, busyVars, ListenerInv, Listener
<1>8. CASE CheckChanged
  <2>1. Listener = timer /\ (Listener' = timer \/ Listener' = NULL)
    BY <1>8, Zenon DEF CheckChanged, Enter, Listener
  <2> QED
    BY <1>8, <2>1, Zenon DEF CheckChanged, cfgVars, ListenerInv
<1>9. CASE CheckSame \/ MeasuringProcess \/ UNCHANGED vars
  BY <1>9, <1>q, MeasuringAlone, Zenon DEF CheckSame, vars, cfgVars, busyVars, Listener
<1> QED
  BY <1>1, <1>2, <1>3, <1>4, <1>5, <1>6, <1>7, <1>8, <1>9, Zenon
  DEF Next, Operator, MainThread, TimerDue

\* No step but the end of the segment, of the instance or of the daemon stops the
\* polling of a mapped segment.
THEOREM PollingKept == Spec => PollingContinues
<1>1. ASSUME TypeInv, ListenerInv, [Next]_vars, Polled
      PROVE  Polled' \/ ~shm' \/ dangling' \/ pc' = "aborted"
  <2>0. /\ NULL \notin Instances /\ timer \in Instances \cup {NULL}
        /\ pc = "refresh" => ctx \in Instances
        /\ configured \subseteq Instances /\ enabled \in [Instances -> BOOLEAN]
        /\ shm /\ ~dangling /\ Listener \in Instances /\ enabled[Listener]
    BY <1>1, InstancesAssumption, Zenon DEF TypeInv, TypeOK, Polled, Listener
  <2>q. CASE /\ UNCHANGED <<shm, dangling>> /\ Listener' = Listener
             /\ enabled'[Listener] = enabled[Listener]
    BY <2>0, <2>q, Zenon DEF Polled
  <2>1. ASSUME NEW b \in Instances, bgp_create(b) \/ bgp_delete(b) \/ bgp_import_check_latency(b)
        PROVE  Polled' \/ ~shm' \/ dangling' \/ pc' = "aborted"
    <3>1. pc = "idle" /\ pc' # "refresh" /\ timer' = timer /\ Listener = timer /\ Listener' = timer
      BY <2>1, Zenon
      DEF bgp_create, bgp_delete, bgp_import_check_latency, Enter, busyVars, Listener
    <3>2. CASE bgp_create(b)
      <4>1. b # timer
        BY <1>1, <2>0, <3>1, <3>2, Zenon DEF bgp_create, ListenerInv
      <4> QED
        BY <2>0, <2>q, <3>1, <3>2, <4>1, Zenon DEF bgp_create
    <3>3. CASE bgp_delete(b)
      <4>1. /\ enabled' = [enabled EXCEPT ![b] = FALSE] /\ shm' = shm
            /\ dangling' = (dangling \/ timer = b)
        BY <3>3, Zenon DEF bgp_delete
      <4>2. CASE timer = b
        BY <4>1, <4>2, Zenon
      <4>3. CASE timer # b
        <5>1. ~dangling'
          BY <2>0, <4>1, <4>3, Zenon
        <5>2. shm' /\ Listener' # NULL /\ enabled'[Listener']
          BY <2>0, <3>1, <4>1, <4>3, Zenon
        <5> QED
          BY <5>1, <5>2, Zenon DEF Polled
      <4> QED
        BY <4>2, <4>3, Zenon
    <3>4. CASE bgp_import_check_latency(b)
      BY <2>0, <2>q, <3>1, <3>4, Zenon
      DEF bgp_import_check_latency, OpenFails, SizeOrMapFails, MapSegment
    <3> QED
      BY <2>1, <3>2, <3>3, <3>4, Zenon
  <2>2. ASSUME NEW b \in Instances, no_bgp_import_check_latency(b) PROVE ~shm'
    BY <2>0, <2>2, Zenon DEF no_bgp_import_check_latency, bgp_twamp_cleanup
  <2>3. CASE Sessions
    BY <2>q, <2>3, Zenon
    DEF Sessions, PeerEstablished, PeerDown, VpnUpdate, Enter, busyVars, cfgVars, Listener
  <2>4. CASE InitDone
    BY <2>0, <2>q, <2>4, Zenon DEF InitDone, event_add_timer, Leave, Enter, cfgVars, Listener
  <2>5. CASE RefreshDone
    BY <2>q, <2>5, Zenon DEF RefreshDone, Leave, Enter, cfgVars, Listener
  <2>6. CASE CollectPeer \/ StoreStatus \/ ImportOne \/ ImportDone
    BY <2>q, <2>6, Zenon
    DEF CollectPeer, StoreStatus, ImportOne, ImportDone, Leave, Enter, cfgVars, Listener
  <2>7. CASE CheckStops
    BY <2>0, <2>7, Zenon DEF CheckStops, EnabledRead, Listener
  <2>8. CASE CheckChanged
    BY <2>0, <2>q, <2>8, Zenon DEF CheckChanged, Enter, cfgVars, Listener
  <2>9. CASE CheckSame \/ MeasuringProcess \/ UNCHANGED vars
    BY <2>q, <2>9, MeasuringAlone, Zenon DEF CheckSame, vars, cfgVars, busyVars, Listener
  <2>10. CASE Restart
    BY <2>10, Zenon DEF Restart
  <2> QED
    BY <1>1, <2>1, <2>2, <2>3, <2>4, <2>5, <2>6, <2>7, <2>8, <2>9, <2>10, ZenonT(60)
    DEF Next, Operator, MainThread, TimerDue
<1>2. TypeInv /\ ListenerInv /\ [Next]_vars =>
        [Polled => Polled' \/ ~shm' \/ dangling' \/ pc' = "aborted"]_vars
  BY <1>1, Zenon
<1>3. Init => CollectInv /\ ListenerInv
  BY Zenon DEF Init, CollectInv, ListenerInv, Listener
<1> QED
  BY <1>2, <1>3, CollectStep, ListenerStep, TypeInvariant, PTL DEF Spec, PollingContinues

-----------------------------------------------------------------------------
(* The segment implements LatencyTable.                                    *)

\* What LatencyTable calls known, version and intact.
Known == [a \in Addrs |-> bgp_twamp_get_latency(a)]

Version == IF shm THEN sequence ELSE 0

Intact == shm => ~spoiled

\* What bgp_twamp_get_latency answers: UINT32_MAX when no entry does, else what one
\* of them says.
Answers ==
  \A a \in Addrs :
    /\ ~shm \/ Answering(a) = {} => bgp_twamp_get_latency(a) = UINT32_MAX
    /\ shm /\ Answering(a) # {} =>
         \E i \in Answering(a) :
           /\ i = CHOOSE k \in Answering(a) : \A j \in Answering(a) : k <= j
           /\ bgp_twamp_get_latency(a) = nexthops[i].latency_ms

\* It answers so in this state and in the next.
LEMMA AnswersNow == Answers
BY GetLatencyEntry, GetLatencyNone, Zenon DEF Answers

LEMMA AnswersNext == Answers'
BY AnswersNow, PTL

\* Without a mapped segment, or with an empty table, nothing is known.
LEMMA KnownNothing ==
  /\ ~shm \/ Used = {} => Known = LT!Nothing
  /\ ~shm' \/ Used' = {} => Known' = LT!Nothing
<1>1. Used = {} => \A a \in Addrs : Answering(a) = {}
  BY Zenon DEF Answering
<1>2. Used' = {} => \A a \in Addrs : Answering(a)' = {}
  BY Zenon DEF Answering
<1> QED
  BY <1>1, <1>2, AnswersNow, AnswersNext, Zenon DEF Answers, Known, LT!Nothing

\* The answer for an address stays when the entries that answer do, with their
\* latencies.
LEMMA SameAnswer ==
  ASSUME NEW c \in Addrs, shm' = shm, Answering(c)' = Answering(c),
         \A i \in Answering(c) : nexthops'[i].latency_ms = nexthops[i].latency_ms
  PROVE  bgp_twamp_get_latency(c)' = bgp_twamp_get_latency(c)
<1>1. CASE ~shm \/ Answering(c) = {}
  BY <1>1, AnswersNow, AnswersNext, Zenon DEF Answers
<1>2. CASE shm /\ Answering(c) # {}
  <2>1. PICK i \in Answering(c) :
          /\ i = CHOOSE k \in Answering(c) : \A j \in Answering(c) : k <= j
          /\ bgp_twamp_get_latency(c) = nexthops[i].latency_ms
    BY <1>2, AnswersNow, Zenon DEF Answers
  <2>2. PICK i2 \in Answering(c)' :
          /\ i2 = CHOOSE k \in Answering(c)' : \A j \in Answering(c)' : k <= j
          /\ bgp_twamp_get_latency(c)' = nexthops'[i2].latency_ms
    BY <1>2, AnswersNext, Zenon DEF Answers
  <2>3. i = i2
    BY <2>1, <2>2, Zenon
  <2> QED
    BY <2>1, <2>2, <2>3, Zenon
<1> QED
  BY <1>1, <1>2, Zenon

\* An entry that adding an address appends is not measured, so every answer stays.
LEMMA AddedKnown ==
  ASSUME TypeInv, NEW a \in Addrs, bgp_twamp_add_nexthop(a), shm' = shm
  PROVE  Known' = Known
<1> SUFFICES ASSUME NEW c \in Addrs
             PROVE  bgp_twamp_get_latency(c)' = bgp_twamp_get_latency(c)
  BY Zenon DEF Known
<1>1. ~NewNexthop(a).measured
  BY Zenon DEF NewNexthop
<1>2. /\ \A i \in Used : i \in Used' /\ nexthops'[i] = nexthops[i]
      /\ \A i \in Used' \ Used : nexthops'[i] = NewNexthop(a)
  BY AddedEffect, Zenon
<1>3. \A i \in Answering(c)' : i \in Answering(c)
  BY <1>1, <1>2, Zenon DEF Answering
<1>4. \A i \in Answering(c) : i \in Answering(c)' /\ nexthops'[i] = nexthops[i]
  BY <1>2, Zenon DEF Answering
<1>5. Answering(c)' = Answering(c)
  BY <1>3, <1>4, Zenon
<1> QED
  BY <1>4, <1>5, SameAnswer, Zenon

\* Writing a result back to the table it was read from changes the answer for the
\* address of its slot, and no other.
LEMMA WrittenKnown ==
  ASSUME TypeInv, shm, WriteBack, ~spoiled'
  PROVE  /\ target \in Addrs
         /\ Known' = [Known EXCEPT ![target] =
                        IF entry.measured THEN entry.latency_ms ELSE UINT32_MAX]
<1>0. /\ shm' /\ Used' = Used /\ Used \subseteq Slots
      /\ \A i \in Slots \ {slot} : nexthops'[i] = nexthops[i]
      /\ nexthops'[slot] = entry /\ slot \in Used
      /\ entry.addr = target /\ nexthops[slot].addr = target
  BY WriteBackType, Zenon DEF WriteBack, Used
<1>1. Live(entry) /\ UniqueNexthops'
  BY WriteBackType, Zenon DEF WriteBack, TypeInv, DaemonHolds, SegType
<1>2. target \in Addrs /\ entry.active
  BY <1>0, <1>1, Zenon DEF Live
<1>t. PICK t \in Addrs : t = target
  BY <1>2, Zenon
<1>3. bgp_twamp_get_latency(t)' = IF entry.measured THEN entry.latency_ms ELSE UINT32_MAX
  <2>1. \A j \in Used' : nexthops'[j].addr = t => j = slot
    BY <1>0, <1>1, <1>t, Zenon DEF UniqueNexthops
  <2>2. Answering(t)' \subseteq {slot} /\ (slot \in Answering(t)' <=> entry.measured)
    BY <1>0, <1>2, <1>t, <2>1, Zenon DEF Answering
  <2>3. CASE entry.measured
    <3>1. Answering(t)' # {} /\ \A i \in Answering(t)' : i = slot
      BY <2>2, <2>3, Zenon
    <3>2. PICK i \in Answering(t)' : bgp_twamp_get_latency(t)' = nexthops'[i].latency_ms
      BY <1>0, <3>1, AnswersNext, Zenon DEF Answers
    <3> QED
      BY <1>0, <2>3, <3>1, <3>2, Zenon
  <2>4. CASE ~entry.measured
    <3>1. Answering(t)' = {}
      BY <2>2, <2>4, Zenon
    <3> QED
      BY <2>4, <3>1, AnswersNext, Zenon DEF Answers
  <2> QED
    BY <2>3, <2>4, Zenon
<1>4. ASSUME NEW c \in Addrs, c # t
      PROVE  bgp_twamp_get_latency(c)' = bgp_twamp_get_latency(c)
  <2>1. \A i \in Answering(c) : i # slot /\ i \in Slots
    BY <1>0, <1>t, <1>4, Zenon DEF Answering
  <2>2. \A i \in Answering(c)' : i # slot /\ i \in Slots
    BY <1>0, <1>t, <1>4, Zenon DEF Answering
  <2>3. \A i \in Slots \ {slot} : i \in Answering(c)' <=> i \in Answering(c)
    BY <1>0, Zenon DEF Answering
  <2>4. Answering(c)' = Answering(c)
    BY <2>1, <2>2, <2>3, Zenon
  <2>5. \A i \in Answering(c) : nexthops'[i].latency_ms = nexthops[i].latency_ms
    BY <1>0, <2>1, Zenon
  <2> QED
    BY <1>0, <2>4, <2>5, SameAnswer, Zenon
<1> QED
  BY <1>t, <1>3, <1>4, Zenon DEF Known

\* Every step is a step of the table of answers, or leaves it as it is.
LEMMA TableStep ==
  ASSUME TypeInv, TypeInv', [Next]_vars
  PROVE  \/ LT!Next
         \/ Known' = Known /\ Version' = Version /\ Intact' = Intact
<1>0. shm \in BOOLEAN /\ shm' \in BOOLEAN /\ spoiled \in BOOLEAN /\ SegType'
  BY Zenon DEF TypeInv, TypeOK, SegType
<1>1. CASE Emptied
  <2>1. Used' = {}
    BY <1>1, SMTT(60) DEF Emptied, Used, Slots
  <2>2. Known' = LT!Nothing
    BY <2>1, KnownNothing, Zenon DEF LT!Nothing
  <2>3. Version' = 0 /\ Intact' = TRUE
    BY <1>1, Zenon DEF Emptied, Version, Intact
  <2>4. LT!Reset
    BY <2>2, <2>3, Zenon DEF LT!Reset, Known, Version, Intact
  <2> QED
    BY <2>4, Zenon DEF LT!Next
<1>2. CASE Added
  <2>1. PICK a \in Addrs : bgp_twamp_add_nexthop(a)
    BY <1>2, Zenon DEF Added
  <2>2. Known' = Known /\ Intact' = Intact
    BY <1>2, <2>1, AddedKnown, Zenon DEF Added, Intact
  <2>3. CASE shm
    <3>1. sequence' = sequence \/ sequence' = sequence + 1
      BY <2>1, AddedEffect, Zenon
    <3>2. Version' = Version \/ Version' = Version + 1
      BY <1>2, <2>3, <3>1, Zenon DEF Added, Version
    <3> QED
      BY <2>2, <3>2, Zenon DEF LT!Next, LT!Announce, Known, Version, Intact
  <2>4. CASE ~shm
    BY <1>2, <2>2, <2>4, Zenon DEF Added, Version
  <2> QED
    BY <2>3, <2>4, Zenon
<1>3. CASE WriteBack /\ shm
  <2>1. shm' /\ Version' = Version /\ (spoiled => spoiled')
    BY <1>3, Zenon DEF WriteBack, Version
  <2>2. CASE spoiled'
    <3>1. Known' \in [Addrs -> Latencies \cup {UINT32_MAX}]
      <4>1. \A a \in Addrs : bgp_twamp_get_latency(a)' \in Latencies \cup {UINT32_MAX}
        <5> TAKE a \in Addrs
        <5>1. CASE Answering(a)' = {}
          BY <5>1, AnswersNext, Zenon DEF Answers
        <5>2. CASE Answering(a)' # {}
          <6>1. PICK i \in Answering(a)' : bgp_twamp_get_latency(a)' = nexthops'[i].latency_ms
            BY <2>1, <5>2, AnswersNext, Zenon DEF Answers
          <6>2. nexthops'[i].latency_ms \in Latencies \cup {UINT32_MAX}
            BY <1>0, Zenon DEF SegType, MeasuredHolds, Answering, Used
          <6> QED
            BY <6>1, <6>2, Zenon
        <5> QED
          BY <5>1, <5>2, Zenon
      <4> QED
        BY <4>1, Zenon DEF Known
    <3>2. Intact' = FALSE
      BY <2>1, <2>2, Zenon DEF Intact
    <3> QED
      BY <2>1, <3>1, <3>2, Zenon DEF LT!Next, LT!Spoil, Known, Version, Intact
  <2>3. CASE ~spoiled'
    <3>1. PICK a \in Addrs, l \in Latencies \cup {UINT32_MAX} : Known' = [Known EXCEPT ![a] = l]
      <4>1. entry.measured => entry.latency_ms \in Latencies
        BY <1>3, Zenon DEF WriteBack, TypeInv, DaemonHolds
      <4> QED
        BY <1>3, <2>3, <4>1, WrittenKnown, Zenon
    <3>2. Intact /\ Intact' = Intact
      BY <2>1, <2>3, Zenon DEF Intact
    <3>3. LT!Result(a, l)
      BY <2>1, <3>1, <3>2, Zenon DEF LT!Result, Known, Version, Intact
    <3> QED
      BY <3>3, Zenon DEF LT!Next
  <2> QED
    BY <2>2, <2>3, Zenon
<1>4. CASE AnnounceResults /\ shm
  <2>1. /\ UNCHANGED <<nexthops, nh_count, shm, spoiled>>
        /\ sequence' = sequence + 1
    BY <1>4, Zenon DEF AnnounceResults
  <2>2. \A a \in Addrs : bgp_twamp_get_latency(a)' = bgp_twamp_get_latency(a)
    BY <2>1, SMTT(60) DEF bgp_twamp_get_latency, Answering, Used
  <2>3. Known' = Known /\ Version' = Version + 1 /\ Intact' = Intact
    BY <1>4, <2>1, <2>2, Zenon DEF Known, Version, Intact
  <2> QED
    BY <2>3, Zenon DEF LT!Next, LT!Announce, Known, Version, Intact
<1>5. CASE (WriteBack \/ AnnounceResults) /\ ~shm
  <2>1. ~shm'
    BY <1>5, Zenon DEF WriteBack, AnnounceResults
  <2>2. Known = LT!Nothing /\ Known' = LT!Nothing
    BY <1>5, <2>1, KnownNothing, Zenon DEF LT!Nothing
  <2> QED
    BY <1>5, <2>1, <2>2, Zenon DEF Version, Intact
<1>6. CASE Untouched /\ shm' = shm
  <2>1. \A a \in Addrs : bgp_twamp_get_latency(a)' = bgp_twamp_get_latency(a)
    BY <1>6, SMTT(60) DEF Untouched, bgp_twamp_get_latency, Answering, Used
  <2> QED
    BY <1>6, <2>1, Zenon DEF Untouched, Known, Version, Intact
<1>7. CASE Untouched /\ ~shm'
  <2>1. Known' = LT!Nothing /\ Version' = 0 /\ Intact' = TRUE
    BY <1>7, KnownNothing, Zenon DEF LT!Nothing, Version, Intact
  <2> QED
    BY <2>1, Zenon DEF LT!Next, LT!Reset, Known, Version, Intact
<1> QED
  BY <1>0, <1>1, <1>2, <1>3, <1>4, <1>5, <1>6, <1>7, SegmentCases, Zenon DEF Untouched

\* The shared segment, with its slots and flags, the restarts of bgpd and the unlocked
\* write-backs of the measuring process, implements the table of answers of
\* LatencyTable, for any number of instances, peers, addresses and slots.
THEOREM TableImplemented == Spec => ImplementsLatencyTable
<1>1. Init => LT!Init
  <2> SUFFICES ASSUME Init PROVE LT!Init
    BY Zenon
  <2>1. Known = LT!Nothing /\ Version = 0 /\ Intact = TRUE
    BY KnownNothing, Zenon DEF Init, Version, Intact
  <2> QED
    BY <2>1, Zenon DEF LT!Init, Known, Version, Intact
<1>2. TypeInv /\ TypeInv' /\ [Next]_vars => [LT!Next]_<<Known, Version, Intact>>
  BY TableStep, Zenon
<1> QED
  BY <1>1, <1>2, TypeInvariant, PTL DEF Spec, ImplementsLatencyTable, LT!Spec, Known, Version, Intact
=============================================================================
