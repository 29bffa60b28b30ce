------------------------------ MODULE BestPath ------------------------------
(***************************************************************************)
(* Best path selection for one destination of one BGP instance            *)
(* (bgpd/bgp_route.c), with the latency adjustment of the weights.         *)
(*                                                                         *)
(* The destination holds a list of paths, newest first.  Whatever changes  *)
(* the list schedules the destination, and bgp_process_main_one later      *)
(* walks the list three times: the deterministic-med pass, the selection,  *)
(* and the search for multipaths.  Every comparison of two paths is one    *)
(* step here, or two, because the measuring process may store a new        *)
(* latency between two comparisons and between the two look-ups of one;    *)
(* nothing else happens during a walk, bgpd having a single thread.        *)
(*                                                                         *)
(* Configurations left out: confederations, AIGP, accept-own, peer-type    *)
(* multipath-relax, as-path ignore/multipath-relax, EVPN, graceful restart *)
(* (stale paths), add-path, and labels (all paths carry the same number).  *)
(***************************************************************************)
EXTENDS Naturals, Sequences, FiniteSets, Functions

CONSTANTS
    Paths,                \* the bgp_path_info the destination may have
    Peer,                 \* [Paths -> [kind, as, addr, nexthop]]
    Attrs,                \* [Paths -> set of attributes it may arrive with]
    Fickle,               \* the paths whose nexthop may become unreachable
    Flapping,             \* the paths whose peer's session may fail
    Measured,             \* the paths whose peer is probed
    Modes,                \* the values "bgp import check-latency" may take
    Latencies,            \* the latencies the prober may store
    UINT32_MAX,           \* no latency known
    damping_threshold,
    DETERMINISTIC_MED, ALWAYS_COMPARE_MED, COMPARE_ROUTER_ID, same_clusterlen,
    maxpaths_ibgp, maxpaths_ebgp,
    NULL

Kinds == {"ibgp", "ebgp", "imported", "static"}

LATENCY_WEIGHT == 32768

do_mpath == maxpaths_ebgp > 1 \/ maxpaths_ibgp > 1

\* The multipaths keep one path of a nexthop, by the address of its peer, which the
\* imports of one VRF do not have: with multipaths they have nexthops of their own.
ASSUME PathsAssumption ==
    /\ NULL \notin Paths
    /\ IsFiniteSet(Paths)
    /\ Peer \in [Paths -> [kind : Kinds, as : Nat, addr : Nat, nexthop : Nat]]
    /\ \A p, q \in Paths : p # q => Peer[p].addr # Peer[q].addr
    /\ \A p, q \in Paths :
           Peer[p].kind = "static" /\ Peer[q].kind = "static" => p = q
    /\ do_mpath =>
           \A p, q \in Paths :
               Peer[p].kind = "imported" /\ Peer[p].nexthop = Peer[q].nexthop => p = q
    /\ Fickle \subseteq Paths
    /\ Flapping \subseteq Paths
    /\ Measured \subseteq Paths

Attr == [weight : Nat, llgr : BOOLEAN, local_pref : Nat, aspath : Seq(Nat),
         origin : Nat, med : Nat, igpmetric : Nat, cluster : Nat, id : Nat]

ASSUME AttrsAssumption ==
    \A p \in Paths : Attrs[p] # {} /\ Attrs[p] \subseteq Attr

ASSUME NumbersAssumption ==
    /\ damping_threshold \in Nat
    /\ UINT32_MAX \in Nat
    /\ Latencies \subseteq Nat
    /\ \A l \in Latencies : l < UINT32_MAX
    /\ maxpaths_ibgp \in Nat
    /\ maxpaths_ebgp \in Nat

ASSUME SwitchesAssumption ==
    /\ Modes \subseteq BOOLEAN
    /\ {DETERMINISTIC_MED, ALWAYS_COMPARE_MED,
        COMPARE_ROUTER_ID, same_clusterlen} \subseteq BOOLEAN

VARIABLES
    list,          \* the destination's paths, newest first
    attr,          \* their attributes; a comparison may rewrite the weight
    holders,       \* the paths that hold the struct attr a path holds
    parent,        \* the attributes of the VPN path an import was leaked from
    valid,         \* BGP_PATH_VALID
    removed,       \* BGP_PATH_REMOVED
    changed,       \* BGP_PATH_ATTR_CHANGED
    selected,      \* the path flagged BGP_PATH_SELECTED
    multipath,     \* the paths on the selected path's multipath list
    mp_attr,       \* the attribute aggregated over the multipaths
    established,   \* the paths whose peer is Established
    clearing,      \* the paths on their peer's clear_node_queue
    enabled,       \* import_latency_cfg.enabled
    latency,       \* what bgp_twamp_get_latency answers for the path's peer
    scheduled,     \* BGP_NODE_PROCESS_SCHEDULED
    phase,         \* where bgp_best_selection is
    todo,          \* the paths the walk has still to visit
    inner,         \* the same for the inner deterministic-med walk
    new_latency,   \* what the comparison under way has looked up; NULL before
    new_select,
    check,         \* BGP_PATH_DMED_CHECK
    dmed,          \* BGP_PATH_DMED_SELECTED
    mp_list,       \* the multipath candidates
    fib,           \* the route zebra was last told of
    fastest        \* history: the clear winners since the walk began, and by what

table == <<list, attr, holders, parent, valid, removed, changed>>
chosen == <<selected, multipath, mp_attr, fib>>
sessions == <<established, clearing>>
prober == <<enabled, latency>>
walk == <<phase, todo, inner, new_latency, new_select, check, dmed, mp_list, fastest>>
vars == <<table, chosen, sessions, prober, scheduled, walk>>

-----------------------------------------------------------------------------
(* bgp_path_info_cmp: the first criterion that tells the paths apart.      *)

Then(verdict, next) == IF verdict = "ties" THEN next ELSE verdict

Lower(m, n) == IF m < n THEN "wins" ELSE IF m > n THEN "loses" ELSE "ties"

Higher(m, n) == Lower(n, m)

\* the sort of the ultimate peer: an import is compared as its parent
Sort(p) == IF Peer[p].kind = "imported" THEN "ibgp" ELSE Peer[p].kind

LlgrCheck(n, e) ==
    IF attr[n].llgr THEN "loses" ELSE IF attr[e].llgr THEN "wins" ELSE "ties"

\* a weight written into the object that the paths of s hold
Weigh(at, s, w) ==
    [p \in Paths |-> IF p \in s THEN [at[p] EXCEPT !.weight = w] ELSE at[p]]

\* the latency of the new path, which was looked up before the other one's
NewLatency(n) == IF new_latency = NULL THEN latency[n] ELSE new_latency

\* faulty variant: the slower path keeps the weight it has
LoserKept(n, e) ==
    LET ln == NewLatency(n)
        le == latency[e]
    IN  IF \/ ~enabled
           \/ Sort(n) # "ibgp" \/ Sort(e) # "ibgp"
           \/ ln = UINT32_MAX \/ le = UINT32_MAX
        THEN attr
        ELSE IF ln < le THEN Weigh(attr, holders[n], LATENCY_WEIGHT)
                        ELSE Weigh(attr, holders[e], LATENCY_WEIGHT)

\* 0.5: the weights a comparison leaves in the two paths' attributes, the second
\* overwriting the first where both paths hold one object
LatencyWeights(n, e) ==
    LET ln == NewLatency(n)
        le == latency[e]
        Put(wn, we) == Weigh(Weigh(attr, holders[n], wn), holders[e], we)
    IN  IF \/ ~enabled
           \/ Sort(n) # "ibgp" \/ Sort(e) # "ibgp"
           \/ ln = UINT32_MAX \/ le = UINT32_MAX
        THEN attr
        ELSE IF ln <= le + damping_threshold /\ le <= ln + damping_threshold
             THEN Put(LATENCY_WEIGHT, LATENCY_WEIGHT)
             ELSE IF ln < le THEN Put(LATENCY_WEIGHT, 0)
                             ELSE Put(0, LATENCY_WEIGHT)

\* from the AS path on, an import is compared by its parent's attributes
Ultimate(at, p) == IF Peer[p].kind = "imported" THEN parent[p] ELSE at[p]

LocalRoute(p) == IF Peer[p].kind = "static" THEN 0 ELSE 1

aspath_cmp_left(a, b) ==
    \/ a = <<>> /\ b = <<>>
    \/ a # <<>> /\ b # <<>> /\ Head(a) = Head(b)

MedCheck(a, b) ==
    IF ALWAYS_COMPARE_MED \/ aspath_cmp_left(a.aspath, b.aspath)
    THEN Lower(a.med, b.med)
    ELSE "ties"

PeerType(p) == IF Sort(p) = "ebgp" THEN 0 ELSE 1

\* 8 and 9; the cluster list stands in for the metric between iBGP peers
MetricCheck(n, e, a, b) ==
    Then(Lower(a.igpmetric, b.igpmetric),
         IF Sort(n) = "ibgp" /\ Sort(e) = "ibgp" /\ same_clusterlen
         THEN Lower(a.cluster, b.cluster)
         ELSE "ties")

OldestCheck(n, e) ==
    IF COMPARE_ROUTER_ID \/ Sort(n) # "ebgp" \/ Sort(e) # "ebgp" THEN "ties"
    ELSE IF n = selected THEN "wins"
    ELSE IF e = selected THEN "loses" ELSE "ties"

\* steps 1 to 9: what paths must agree on to share the traffic
UpToMetric(at, n, e) ==
    LET a == Ultimate(at, n)
        b == Ultimate(at, e)
    IN  Then(Higher(at[n].weight, at[e].weight),
        Then(Higher(at[n].local_pref, at[e].local_pref),
        Then(Lower(LocalRoute(n), LocalRoute(e)),
        Then(Lower(Len(a.aspath), Len(b.aspath)),
        Then(Lower(a.origin, b.origin),
        Then(MedCheck(a, b),
        Then(Lower(PeerType(n), PeerType(e)),
             MetricCheck(n, e, a, b))))))))

\* faulty variant: the later of two tied paths wins
NewestWins(at, n, e) == "wins"

\* steps 12 to 15
TieBreak(at, n, e) ==
    LET a == Ultimate(at, n)
        b == Ultimate(at, e)
    IN  Then(OldestCheck(n, e),
        Then(Lower(a.id, b.id),
        Then(Lower(a.cluster, b.cluster),
        Then(Lower(Peer[n].addr, Peer[e].addr),
             "wins"))))

\* the attributes after the comparison: LLGR is looked at before the latency
AttrAfter(n, e) == IF LlgrCheck(n, e) = "ties" THEN LatencyWeights(n, e) ELSE attr

bgp_path_info_cmp(n, e) ==
    LET at == AttrAfter(n, e)
    IN  Then(LlgrCheck(n, e), Then(UpToMetric(at, n, e), TieBreak(at, n, e)))
            = "wins"

paths_eq(n, e) ==
    LET at == AttrAfter(n, e)
    IN  /\ LlgrCheck(n, e) = "ties"
        /\ UpToMetric(at, n, e) = "ties"
        /\ IF Sort(n) = "ibgp" THEN Ultimate(at, n).aspath = Ultimate(at, e).aspath
                               ELSE Peer[n].as = Peer[e].as

-----------------------------------------------------------------------------
(* The table and what changes it.                                          *)

Idle == phase = "idle"

Listed == Range(list)

HasSession(p) == Peer[p].kind \in {"ibgp", "ebgp"}

\* passed over by every walk unless this holds
Eligible(p) == p \in valid /\ (HasSession(p) => p \in established)

\* Attributes are interned: an object of equal attributes may be found in the hash
\* table, one of another path of this destination among them, or a new one is made.
\* The metric and the router id are not part of a struct attr, the nexthop is.
SameObject(q, p, a) ==
    /\ Peer[q].nexthop = Peer[p].nexthop
    /\ attr[q] = [a EXCEPT !.igpmetric = attr[q].igpmetric, !.id = attr[q].id]

bgp_attr_intern(p, a) ==
    \E s \in {{}} \cup {holders[q] : q \in {r \in Listed \ {p} : SameObject(r, p, a)}} :
        holders' = [q \in Paths |-> IF q \in s \cup {p} THEN s \cup {p}
                                                       ELSE holders[q] \ {p}]

\* faulty variant: a path that was removed is rewritten but not restored
NotRestored(p, a) ==
    /\ list' = IF p \in Listed THEN list ELSE <<p>> \o list
    /\ attr' = [attr EXCEPT ![p] = a] /\ bgp_attr_intern(p, a)
    /\ changed' = IF p \in Listed THEN changed \cup {p} ELSE changed \ {p}
    /\ valid' = valid \cup {p}
    /\ scheduled' = TRUE
    /\ UNCHANGED <<removed, chosen, sessions, prober, walk>>

\* add at the head, or rewrite in place; either way the node is scheduled
bgp_path_info_store(p, a) ==
    /\ list' = IF p \in Listed THEN list ELSE <<p>> \o list
    /\ attr' = [attr EXCEPT ![p] = a] /\ bgp_attr_intern(p, a)
    /\ changed' = IF p \in Listed THEN changed \cup {p} ELSE changed \ {p}
    /\ removed' = removed \ {p}
    /\ \E reachable \in {TRUE} \cup {p \notin Fickle} :
           valid' = IF reachable THEN valid \cup {p} ELSE valid \ {p}
    /\ scheduled' = TRUE
    /\ UNCHANGED <<chosen, sessions, prober, walk>>

Without(s, p) ==
    LET k == CHOOSE i \in DOMAIN s : s[i] = p
    IN  IF p \in Range(s)
        THEN [i \in 1 .. Len(s) - 1 |-> IF i < k THEN s[i] ELSE s[i + 1]]
        ELSE s

\* off the list, and its flags with it; NULL for no path
bgp_path_info_reap(p) ==
    /\ list' = Without(list, p)
    /\ removed' = removed \ {p}

SameAttr(p, a) == p \in Listed /\ p \notin removed /\ attr[p] = a

\* a path learned from a peer, or configured here
bgp_update(p) ==
    /\ Idle
    /\ Peer[p].kind # "imported"
    /\ HasSession(p) => p \in established
    /\ \E a \in Attrs[p] :
           /\ ~SameAttr(p, a)
           /\ bgp_path_info_store(p, a)
    /\ UNCHANGED parent

ImportWeight(p, w) ==
    IF latency[p] = UINT32_MAX THEN w
    ELSE IF latency[p] <= damping_threshold THEN LATENCY_WEIGHT ELSE 0

\* a VPN path learned: with the feature off nothing is imported of it
vpn_leak_to_vrf_update(p) ==
    /\ Idle
    /\ Peer[p].kind = "imported"
    /\ \E a \in Attrs[p] :
           LET w == [a EXCEPT !.weight = ImportWeight(p, a.weight)]
           IN  /\ parent' = [parent EXCEPT ![p] = a]
               /\ IF enabled /\ ~SameAttr(p, w)
                  THEN bgp_path_info_store(p, w)
                  ELSE UNCHANGED <<list, attr, holders, changed, removed, valid,
                                   scheduled, chosen, sessions, prober, walk>>

\* faulty variant: bgp_process is not called
DeleteUnscheduled(p) ==
    /\ removed' = removed \cup {p}
    /\ valid' = valid \ {p}
    /\ UNCHANGED <<list, attr, holders, parent, changed, chosen, prober, scheduled, walk>>

bgp_path_info_delete(p) ==
    /\ removed' = removed \cup {p}
    /\ valid' = valid \ {p}
    /\ scheduled' = TRUE
    /\ UNCHANGED <<list, attr, holders, parent, changed, chosen, prober, walk>>

bgp_withdraw(p) ==
    /\ Idle
    /\ p \in Listed \ removed
    /\ HasSession(p) => p \in established
    /\ bgp_path_info_delete(p)
    /\ UNCHANGED sessions

\* the session leaves Established: the paths are queued for removal
PeerDown(p) ==
    /\ Idle
    /\ p \in Flapping
    /\ HasSession(p)
    /\ p \in established
    /\ established' = established \ {p}
    /\ clearing' = IF p \in Listed THEN clearing \cup {p} ELSE clearing
    /\ UNCHANGED <<table, chosen, prober, scheduled, walk>>

bgp_clear_route_node(p) ==
    /\ Idle
    /\ p \in clearing
    /\ clearing' = clearing \ {p}
    /\ UNCHANGED established
    /\ IF p \in Listed
       THEN bgp_path_info_delete(p)
       ELSE UNCHANGED <<table, chosen, prober, scheduled, walk>>

\* only once Clearing_Completed let the session leave Clearing
PeerUp(p) ==
    /\ Idle
    /\ HasSession(p)
    /\ p \notin established \cup clearing
    /\ established' = established \cup {p}
    /\ UNCHANGED <<clearing, table, chosen, prober, scheduled, walk>>

\* the path's nexthop becomes reachable or unreachable
evaluate_paths(p) ==
    /\ Idle
    /\ p \in Fickle \cap (Listed \ removed)
    /\ valid' = IF p \in valid THEN valid \ {p} ELSE valid \cup {p}
    /\ scheduled' = TRUE
    /\ UNCHANGED <<list, attr, holders, parent, removed, changed, chosen,
                   sessions, prober, walk>>

\* neither command reschedules any destination
check_latency(on) ==
    /\ Idle
    /\ on \in Modes
    /\ enabled # on
    /\ enabled' = on
    /\ UNCHANGED <<latency, table, chosen, sessions, scheduled, walk>>

-----------------------------------------------------------------------------
(* bgp_best_selection.                                                     *)

\* the path every comparison with an eligible path is bound to favour: its latency
\* is at most l, the other ones' are not within the threshold of l
ClearWinner(lat, p, l) ==
    /\ enabled
    /\ p \in Listed /\ Eligible(p)
    /\ lat[p] <= l
    /\ \A q \in Listed :
           Eligible(q) =>
               /\ Sort(q) = "ibgp"
               /\ ~attr[q].llgr
               /\ lat[q] # UINT32_MAX
               /\ q # p => l + damping_threshold < lat[q] /\ q \notin holders[p]

\* the prober stores a latency at any time, also between two look-ups
Measure(p) ==
    /\ p \in Measured
    /\ \E l \in Latencies \cup {UINT32_MAX} :
           /\ l # latency[p]
           /\ latency' = [latency EXCEPT ![p] = l]
    /\ fastest' = {f \in fastest : ClearWinner(latency', f[1], f[2])}
    /\ UNCHANGED <<table, chosen, sessions, enabled, scheduled, phase, todo,
                   inner, new_latency, new_select, check, dmed, mp_list>>

\* the selection for another destination, whose paths share these attributes
Elsewhere(p) ==
    /\ Idle
    /\ enabled
    /\ Sort(p) = "ibgp"
    /\ latency[p] # UINT32_MAX
    /\ p \in Listed
    /\ \E w \in {0, LATENCY_WEIGHT} : attr' = Weigh(attr, holders[p], w)
    /\ UNCHANGED <<list, holders, parent, valid, removed, changed, chosen, sessions,
                   prober, scheduled, walk>>

bgp_best_selection ==
    /\ Idle
    /\ scheduled
    /\ phase' = IF DETERMINISTIC_MED THEN "dmed" ELSE "select"
    /\ todo' = list
    /\ inner' = <<>>
    /\ new_latency' = NULL
    /\ new_select' = NULL
    /\ check' = {}
    /\ dmed' = {}
    /\ mp_list' = {}
    /\ fastest' = {f \in Listed \X Latencies : ClearWinner(latency, f[1], f[2])}
    /\ UNCHANGED <<table, chosen, sessions, prober, scheduled>>

\* what the running walk has still to visit
Rest == IF phase = "inner" THEN inner ELSE todo

\* The first of the two look-ups of a comparison, when a latency is stored between
\* them; the comparison itself is the second, and both when none is.
LookUp ==
    /\ phase \in {"inner", "select", "mpath"}
    /\ Rest # <<>>
    /\ enabled
    /\ new_latency = NULL
    /\ new_select # NULL
    /\ Eligible(Head(Rest))
    /\ new_latency' = latency[Head(Rest)]
    /\ UNCHANGED <<table, chosen, sessions, prober, scheduled, phase, todo, inner,
                   new_select, check, dmed, mp_list, fastest>>

\* faulty variant: the arguments of the comparison are swapped
ContendSwapped(p) ==
    IF new_select = NULL
    THEN new_select' = p /\ attr' = attr
    ELSE /\ new_select' = IF bgp_path_info_cmp(new_select, p) THEN p ELSE new_select
         /\ attr' = AttrAfter(new_select, p)

\* the comparison with the best path so far, and what it does to the weights
Contend(p) ==
    IF new_select = NULL
    THEN new_select' = p /\ attr' = attr
    ELSE /\ new_select' = IF bgp_path_info_cmp(p, new_select) THEN p ELSE new_select
         /\ attr' = AttrAfter(p, new_select)

SameWalk ==
    /\ new_latency' = NULL
    /\ UNCHANGED <<list, holders, parent, valid, removed, changed, chosen, sessions,
                   prober, scheduled, fastest>>

\* deterministic-med, outer walk: the first path of a neighbouring AS
DmedOuter ==
    /\ phase = "dmed"
    /\ todo # <<>>
    /\ LET p == Head(todo)
       IN  IF p \in check \/ ~Eligible(p)
           THEN todo' = Tail(todo) /\ UNCHANGED <<phase, inner, new_select>>
           ELSE /\ new_select' = p
                /\ inner' = Tail(todo)
                /\ phase' = "inner"
                /\ UNCHANGED todo
    /\ UNCHANGED <<attr, check, dmed, mp_list>>
    /\ SameWalk

\* faulty variant: the neighbouring AS is not looked at
AnyNeighbour ==
    /\ phase = "inner"
    /\ inner # <<>>
    /\ inner' = Tail(inner)
    /\ LET p == Head(inner)
       IN  IF p \in check \/ ~Eligible(p)
           THEN UNCHANGED <<attr, new_select, check>>
           ELSE Contend(p) /\ check' = check \cup {p}
    /\ UNCHANGED <<phase, todo, dmed, mp_list>>
    /\ SameWalk

\* inner walk: the other paths of the same AS
DmedInner ==
    /\ phase = "inner"
    /\ inner # <<>>
    /\ inner' = Tail(inner)
    /\ LET p == Head(inner)
       IN  IF \/ p \in check
              \/ ~Eligible(p)
              \/ ~aspath_cmp_left(attr[Head(todo)].aspath, attr[p].aspath)
           THEN UNCHANGED <<attr, new_select, check>>
           ELSE Contend(p) /\ check' = check \cup {p}
    /\ UNCHANGED <<phase, todo, dmed, mp_list>>
    /\ SameWalk

DmedGroupEnd ==
    /\ phase = "inner"
    /\ inner = <<>>
    /\ check' = check \cup {new_select}
    /\ dmed' = dmed \cup {new_select}
    /\ todo' = Tail(todo)
    /\ phase' = "dmed"
    /\ UNCHANGED <<attr, inner, new_select, mp_list>>
    /\ SameWalk

DmedEnd ==
    /\ phase = "dmed"
    /\ todo = <<>>
    /\ phase' = "select"
    /\ todo' = list
    /\ new_select' = NULL
    /\ UNCHANGED <<attr, inner, check, dmed, mp_list>>
    /\ SameWalk

\* the selection proper; a removed path leaves the list unless selected
SelectStep ==
    /\ phase = "select"
    /\ todo # <<>>
    /\ todo' = Tail(todo)
    /\ LET p == Head(todo)
           dead == IF p \in removed /\ p \notin valid /\ p # selected THEN p ELSE NULL
       IN  /\ IF Eligible(p) /\ (DETERMINISTIC_MED => p \in dmed)
              THEN Contend(p)
              ELSE UNCHANGED <<attr, new_select>>
           /\ bgp_path_info_reap(dead)
           /\ changed' = changed \ {dead}
    /\ new_latency' = NULL
    /\ UNCHANGED <<holders, parent, valid, chosen, sessions, prober,
                   scheduled, phase, inner, check, dmed, mp_list, fastest>>

SelectEnd ==
    /\ phase = "select"
    /\ todo = <<>>
    /\ phase' = IF do_mpath /\ new_select # NULL THEN "mpath" ELSE "end"
    /\ todo' = list
    /\ UNCHANGED <<attr, inner, new_select, check, dmed, mp_list>>
    /\ SameWalk

\* the paths the best one may share the traffic with
MpathStep ==
    /\ phase = "mpath"
    /\ todo # <<>>
    /\ todo' = Tail(todo)
    /\ LET p == Head(todo)
       IN  IF \/ p = new_select
              \/ ~Eligible(p)
              \/ Peer[p].nexthop = Peer[new_select].nexthop
           THEN UNCHANGED <<attr, mp_list>>
           ELSE /\ attr' = AttrAfter(p, new_select)
                /\ mp_list' = IF paths_eq(p, new_select) THEN mp_list \cup {p}
                                                         ELSE mp_list
    /\ UNCHANGED <<phase, inner, new_select, check, dmed>>
    /\ SameWalk

MpathEnd ==
    /\ phase = "mpath"
    /\ todo = <<>>
    /\ phase' = "end"
    /\ UNCHANGED <<attr, todo, inner, new_select, check, dmed, mp_list>>
    /\ SameWalk

-----------------------------------------------------------------------------
(* The rest of bgp_process_main_one.                                       *)

MaxPaths(best) == IF Peer[best].kind = "ibgp" THEN maxpaths_ibgp ELSE maxpaths_ebgp

\* the candidates mp_list keeps, in the order of their nexthops
FirstOfNexthop ==
    {p \in mp_list :
         \A q \in mp_list :
             Peer[p].nexthop = Peer[q].nexthop => Peer[p].addr <= Peer[q].addr}

EarlierNexthops(p) == {q \in FirstOfNexthop : Peer[q].nexthop < Peer[p].nexthop}

\* faulty variant: the best path is not counted
OneTooMany ==
    IF new_select = NULL THEN {}
    ELSE {p \in FirstOfNexthop : Cardinality(EarlierNexthops(p)) < MaxPaths(new_select)}

\* in the order of the nexthops, one path for each, up to maximum-paths
bgp_path_info_mpath_update ==
    IF new_select = NULL THEN {}
    ELSE {p \in FirstOfNexthop :
              Cardinality(EarlierNexthops(p)) + 1 < MaxPaths(new_select)}

\* a route as zebra sees it: no weight, nothing for a local route
Route(best, others, at) ==
    IF best = NULL THEN NULL
    ELSE IF Peer[best].kind = "static" THEN NULL
    ELSE [best |-> best,
          attrs |-> [p \in {best} \cup others |-> [at[p] EXCEPT !.weight = 0]]]

\* the multipath aggregate: a fresh one marks the best path as changed
Aggregate(others) == IF others = {} THEN NULL ELSE attr[new_select]

\* faulty variant: a change of a multipath's attributes goes unnoticed
MembersOnly(others, flagged) == others # multipath

bgp_zebra_has_route_changed(others, flagged) ==
    others # multipath \/ others \cap flagged # {}

\* faulty variant: the destination is never taken off the schedule
StillScheduled == UNCHANGED scheduled

Unschedule == scheduled' = FALSE

\* faulty variant: the old path is left to a later walk
LeftOnList == NULL

\* the selected path the walk spared although it was removed
OldRemoved == IF selected \in removed THEN selected ELSE NULL

bgp_process_main_one ==
    /\ phase = "end"
    /\ LET others == bgp_path_info_mpath_update
           flagged == IF new_select # NULL
                         /\ Aggregate(others) # mp_attr[new_select]
                      THEN changed \cup {new_select}
                      ELSE changed
           same == selected # NULL /\ selected = new_select
                       /\ new_select \notin flagged
           tell == ~same \/ bgp_zebra_has_route_changed(others, flagged)
       IN  /\ multipath' = others
           /\ mp_attr' = [p \in Paths |->
                              IF p = new_select THEN Aggregate(others)
                              ELSE IF p = selected THEN NULL
                              ELSE mp_attr[p]]
           /\ fib' = IF tell THEN Route(new_select, others, attr) ELSE fib
           /\ changed' = flagged \ (valid \cup removed \cup {new_select})
           /\ bgp_path_info_reap(OldRemoved)
    /\ selected' = new_select
    /\ Unschedule
    /\ phase' = "idle"
    /\ todo' = <<>>
    /\ inner' = <<>>
    /\ new_latency' = NULL
    /\ new_select' = NULL
    /\ check' = {}
    /\ dmed' = {}
    /\ mp_list' = {}
    /\ fastest' = {}
    /\ UNCHANGED <<attr, holders, parent, valid, sessions, prober>>

-----------------------------------------------------------------------------
Init ==
    /\ list = <<>>
    /\ attr = [p \in Paths |-> CHOOSE a \in Attrs[p] : TRUE]
    /\ holders = [p \in Paths |-> {p}]
    /\ parent = attr
    /\ valid = {} /\ removed = {} /\ changed = {}
    /\ selected = NULL /\ multipath = {} /\ fib = NULL
    /\ mp_attr = [p \in Paths |-> NULL]
    /\ established = {p \in Paths : HasSession(p)}
    /\ clearing = {}
    /\ enabled \in Modes
    /\ latency = [p \in Paths |-> UINT32_MAX]
    /\ scheduled = FALSE
    /\ phase = "idle"
    /\ todo = <<>> /\ inner = <<>>
    /\ new_latency = NULL /\ new_select = NULL
    /\ check = {} /\ dmed = {} /\ mp_list = {} /\ fastest = {}

Walk ==
    \/ bgp_best_selection
    \/ DmedOuter \/ DmedInner \/ DmedGroupEnd \/ DmedEnd
    \/ SelectStep \/ SelectEnd
    \/ MpathStep \/ MpathEnd
    \/ bgp_process_main_one

Next ==
    \/ Walk
    \/ LookUp
    \/ \E p \in Paths :
           \/ bgp_update(p) \/ vpn_leak_to_vrf_update(p) \/ bgp_withdraw(p)
           \/ PeerDown(p) \/ bgp_clear_route_node(p) \/ PeerUp(p)
           \/ evaluate_paths(p)
           \/ Measure(p) \/ Elsewhere(p)
    \/ \E on \in BOOLEAN : check_latency(on)

Spec == Init /\ [][Next]_vars /\ WF_vars(Walk)

-----------------------------------------------------------------------------
(* Properties.                                                             *)

\* The destination's lists, flags and attributes keep their types: the list
\* holds a path once, and only a listed path is removed or on a walk.
TypeOK ==
    /\ list \in Seq(Paths) /\ IsInjective(list)
    /\ attr \in [Paths -> Attr]
    /\ holders \in [Paths -> SUBSET Paths]
    /\ parent \in [Paths -> Attr]
    /\ valid \subseteq Listed
    /\ removed \subseteq Listed \ valid
    /\ changed \subseteq Paths
    /\ selected \in Listed \cup {NULL}
    /\ multipath \subseteq Paths
    /\ established \subseteq Paths
    /\ clearing \subseteq Paths
    /\ enabled \in BOOLEAN
    /\ latency \in [Paths -> Nat]
    /\ scheduled \in BOOLEAN
    /\ phase \in {"idle", "dmed", "inner", "select", "mpath", "end"}
    /\ todo \in Seq(Paths) /\ inner \in Seq(Paths)
    /\ new_latency \in Nat \cup {NULL}
    /\ new_select \in Paths \cup {NULL}
    /\ check \subseteq Paths /\ dmed \subseteq Paths /\ mp_list \subseteq Paths

AtRest == Idle /\ ~scheduled /\ clearing = {}

EligiblePaths == {p \in Listed : Eligible(p)}

\* What zebra was last told is the selected path and its multipaths with
\* their present attributes, although bgp_process_main_one stays silent
\* when it believes that nothing zebra cares for has changed.
FibCurrent == Idle /\ ~scheduled => fib = Route(selected, multipath, attr)

\* Once every queued change is processed, the destination has a selected path
\* exactly if some path is usable, and the selected path and the multipaths
\* are usable ones still on the list (no route through a reaped path, a dead
\* session or an unreachable nexthop).
RouteUsable ==
    AtRest => /\ selected = NULL <=> EligiblePaths = {}
              /\ selected # NULL => {selected} \cup multipath \subseteq EligiblePaths

\* With a total order of the paths (always-compare-med) the selected path is
\* preferred to every other usable path by bgp_path_info_cmp, whatever the
\* order in which the paths came, changed and went.
BestIsPreferred ==
    AtRest /\ ALWAYS_COMPARE_MED /\ ~enabled /\ selected # NULL =>
        \A q \in EligiblePaths \ {selected} :
            \/ attr[q].llgr
            \/ ~attr[selected].llgr /\ bgp_path_info_cmp(selected, q)

\* The multipaths are the usable paths that tie with the best one up to the
\* IGP metric: at most maximum-paths of them, no nexthop twice, and a tying
\* path is left out only for one of its nexthop or because the limit is met.
MultipathExact ==
    LET group == {selected} \cup multipath
    IN  AtRest /\ do_mpath /\ ~enabled /\ selected # NULL =>
            /\ \A m \in multipath : paths_eq(m, selected)
            /\ \A m, n \in group : Peer[m].nexthop = Peer[n].nexthop => m = n
            /\ multipath # {} => Cardinality(group) <= MaxPaths(selected)
            /\ \A q \in EligiblePaths \ group :
                   paths_eq(q, selected) =>
                       \/ Cardinality(group) >= MaxPaths(selected)
                       \/ \E m \in group : Peer[m].nexthop = Peer[q].nexthop

\* A path whose latencies, from the start of the walk to its end, stayed below
\* those of every other usable one by more than the threshold is the one selected:
\* in any order of the list, whatever the other attributes say, although the
\* latencies may change between two comparisons and between the two look-ups of
\* one.  The exception is a path that shares its struct attr with another usable
\* one: comparing the two, bgp_path_info_cmp writes the second weight over the first.
FastestWins == phase = "end" => \A f \in fastest : f[1] = new_select

\* Every scheduled destination is processed.
ScheduledIsProcessed == scheduled ~> ~scheduled

\* A path that was withdrawn leaves the list or comes back to life; none is
\* kept forever because it was the selected one when it was removed.
RemovedIsReaped == \A p \in Paths : p \in removed ~> p \notin removed
=============================================================================
