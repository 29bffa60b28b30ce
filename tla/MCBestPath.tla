----------------------------- MODULE MCBestPath -----------------------------
(***************************************************************************)
(* Instances of BestPath for TLC, and the properties that quantify over    *)
(* the orders of the destination's list.                                   *)
(***************************************************************************)
EXTENDS BestPath, SequencesExt

CONSTANTS pa, pb, pc, pd

Speaks(k, as, addr, nexthop) ==
    [kind |-> k, as |-> as, addr |-> addr, nexthop |-> nexthop]

Base == [weight |-> 0, llgr |-> FALSE, local_pref |-> 100, aspath |-> <<1>>,
         origin |-> 0, med |-> 0, igpmetric |-> 0, cluster |-> 0, id |-> 1]

Two == {pa, pb}
Three == {pa, pb, pc}
Four == {pa, pb, pc, pd}

(* Three eBGP peers with nexthops of their own, room for two paths, and an  *)
(* iBGP peer that shares a nexthop and is depreferenced (LLGR_STALE).       *)
ClassicPeer ==
    pa :> Speaks("ebgp", 1, 1, 1) @@ pb :> Speaks("ebgp", 1, 2, 2)
        @@ pc :> Speaks("ebgp", 1, 3, 3) @@ pd :> Speaks("ibgp", 9, 4, 2)
ClassicAttrs ==
    pa :> {Base} @@ pb :> {Base, [Base EXCEPT !.med = 1]}
        @@ pc :> {[Base EXCEPT !.id = 2], [Base EXCEPT !.id = 3]}
        @@ pd :> {[Base EXCEPT !.llgr = TRUE, !.local_pref = 200]}

(* MEDs of two neighbouring ASes that no order of three paths respects.   *)
MedPeer ==
    pa :> Speaks("ebgp", 1, 1, 1) @@ pb :> Speaks("ebgp", 2, 2, 2)
        @@ pc :> Speaks("ebgp", 1, 3, 3)
MedAttrs ==
    pa :> {[Base EXCEPT !.med = 1, !.id = 1]}
        @@ pb :> {[Base EXCEPT !.aspath = <<2>>, !.id = 2]}
        @@ pc :> {[Base EXCEPT !.id = 3]}

(* Two VPN paths imported into a VRF beside a locally configured route.    *)
VpnPeer ==
    pa :> Speaks("imported", 9, 1, 1) @@ pb :> Speaks("imported", 9, 2, 2)
        @@ pc :> Speaks("static", 9, 3, 3)
VpnAttrs ==
    pa :> {Base, [Base EXCEPT !.med = 1]} @@ pb :> {Base}
        @@ pc :> {[Base EXCEPT !.aspath = <<>>, !.weight = LATENCY_WEIGHT]}

(* Two imports with one nexthop, which may be given one struct attr.       *)
LatencyPeer ==
    pa :> Speaks("imported", 9, 1, 1) @@ pb :> Speaks("imported", 9, 2, 1)
LatencyAttrs ==
    pa :> {Base, [Base EXCEPT !.med = 1]} @@ pb :> {[Base EXCEPT !.med = 1, !.id = 2]}

-----------------------------------------------------------------------------
(* What the selection answers for the usable paths of a list, when a        *)
(* comparison does not depend on the weights earlier ones left.            *)

Better(e, n) == IF e = NULL \/ bgp_path_info_cmp(n, e) THEN n ELSE e

SameNeighbour(p, q) == aspath_cmp_left(attr[p].aspath, attr[q].aspath)

Answer(l) ==
    LET usable == SelectSeq(l, Eligible)
        Group(p) == SelectSeq(usable, LAMBDA q : SameNeighbour(p, q))
        Winner(p) == FoldLeft(Better, NULL, Group(p))
    IN  FoldLeft(Better, NULL,
                 IF DETERMINISTIC_MED
                 THEN SelectSeq(usable, LAMBDA p : Winner(p) = p)
                 ELSE usable)

Orders == {l \in [1 .. Len(list) -> Listed] : IsInjective(l)}

\* every comparison is decided by the latencies or by what was received
Measurable ==
    enabled => \A p \in EligiblePaths : Sort(p) = "ibgp" /\ latency[p] # UINT32_MAX

\* deterministic-med: the path selected from a set of paths is the same for
\* every order in which they may stand on the destination's list, that is in
\* every order in which they may have been learned.
OrderIndependent ==
    phase = "idle" /\ DETERMINISTIC_MED /\ Measurable =>
        \A l \in Orders : Answer(l) = Answer(list)

\* The selected path is what bgp_best_selection would select again now: two
\* runs over the same paths agree, the one that made the other path the
\* selected (oldest) one included.
SelectionStable == AtRest /\ ~enabled => selected = Answer(list)

\* "import vpn": a usable import carries what its VPN path carries now, but
\* for the weight.
ImportFollowsVpnPath ==
    AtRest => \A p \in EligiblePaths :
                  Peer[p].kind = "imported" =>
                      attr[p] = [parent[p] EXCEPT !.weight = attr[p].weight]
=============================================================================
