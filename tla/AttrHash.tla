------------------------------ MODULE AttrHash ------------------------------
(***************************************************************************)
(* The table of interned path attributes (bgp_attr.c) and the references   *)
(* bgpd keeps to its objects.                                              *)
(*                                                                         *)
(* bgp_attr_intern looks an attribute up by its content and hands out the  *)
(* one object with that content, counting the reference; bgp_attr_unintern *)
(* drops a reference and, with the last one, takes the object out of the   *)
(* table and frees it.  A bucket of the table remembers the hash of the    *)
(* content at insertion, while hash_release computes the hash anew: this   *)
(* is sound as long as nobody writes to an interned object, which is what  *)
(* the latency step of bgp_path_info_cmp does.                             *)
(*                                                                         *)
(* The holders of references are VPN routes learned from iBGP peers, their *)
(* Adj-RIB-In copies, the imports leaked from them into one VRF that has   *)
(* `import-check-latency', the attribute aggregated over the multipaths of *)
(* an import, and the local variable of the handler that is running.       *)
(* Everything here runs in the main pthread, one handler at a time; pc     *)
(* tells how far the running handler has got, one reference per step.      *)
(*                                                                         *)
(* Abstractions.  A content is an AS path, the weight, and the NEXT_HOP    *)
(* flag that an import sets; the hash tells contents apart (no collision). *)
(* Communities are counted like the AS path.  The AS path table has one    *)
(* entry per value, so an AS path is its count.  A path outlives its place *)
(* in the table while an import points to it: its reference is dropped     *)
(* after the import's.  Announced again meanwhile it is restored in place; *)
(* once it is off its node the code adds a second path_info with an import *)
(* of its own, and drops the first one's reference as it would have done.  *)
(***************************************************************************)
EXTENDS Naturals, FiniteSets, FiniteSetsExt

CONSTANTS
    Routes,         \* VPN routes, each of an iBGP peer of its own
    SoftReconfig,   \* the ones whose peer has soft-reconfiguration inbound
    Measured,       \* the ones whose peer has a measured latency
    ASPaths,        \* the AS paths that are received
    InputWeights,   \* the weights the inbound policy may set
    LATENCY_WEIGHT, \* 32768
    Addresses,      \* where attribute objects can be allocated
    MaxLost,        \* bound: references that are dropped without a release
    MaxRewrites,    \* bound: comparisons that change a weight
    NULL

ASSUME AttrHashAssumption ==
    /\ IsFiniteSet(Routes)
    /\ SoftReconfig \subseteq Routes
    /\ Measured \subseteq Routes
    /\ InputWeights \subseteq Nat
    /\ LATENCY_WEIGHT \in Nat
    /\ MaxLost \in Nat
    /\ MaxRewrites \in Nat
    /\ NULL \notin ASPaths
    /\ NULL \notin Nat
    /\ NULL \notin Routes
    /\ NULL \notin Addresses

VARIABLES
    content,        \* the attribute stored at an address, NULL if none
    bucket,         \* the content whose hash the object's bucket remembers
    refcnt,         \* attr->refcnt
    aspath_refcnt,  \* aspath->refcnt
    ref,            \* the object each holder points to
    removed,        \* the path_infos flagged BGP_PATH_REMOVED
    lost,           \* history: references no holder will ever release
    rewrites,       \* history: comparisons that changed an interned weight
    pc,             \* where the running handler is
    cur,            \* the route it works on
    got,            \* the attribute it was called with
    parsed          \* the AS path the UPDATE's parser still references

heap == <<content, bucket, refcnt, aspath_refcnt>>
call == <<cur, got, parsed>>
handler == <<pc, call>>
history == <<lost, rewrites>>
vars == <<heap, ref, removed, history, handler>>

Weights == {0, LATENCY_WEIGHT} \cup InputWeights

Contents == [aspath : ASPaths, weight : Weights, next_hop : BOOLEAN]

ASSUME NoContent == NULL \notin Contents

Holders == {"path", "adj_in", "import", "mp_attr", "attr_new"} \X Routes

Labels == {"idle", "adj_in", "policy", "store", "leak", "leak_update", "mpath",
           "mpath_free", "done", "aborted", "corrupted"}

Init ==
    /\ content = [a \in Addresses |-> NULL]
    /\ bucket = [a \in Addresses |-> NULL]
    /\ refcnt = [a \in Addresses |-> 0]
    /\ aspath_refcnt = [x \in ASPaths |-> 0]
    /\ ref = [h \in Holders |-> NULL]
    /\ removed = {}
    /\ lost = [a \in Addresses |-> 0]
    /\ rewrites = 0
    /\ pc = "idle"
    /\ cur = NULL
    /\ got = NULL
    /\ parsed = NULL

At(label) == pc = label

Goto(label) == pc' = label

Held(k, r) == ref[<<k, r>>] # NULL

-----------------------------------------------------------------------------
(* The table.                                                              *)

\* the objects hash_get and hash_release may find under a content: the hash
\* of the bucket and the content of its object must both match
Found(c) == {a \in Addresses : bucket[a] = c /\ content[a] = c}

\* faulty variant: the AS path is only counted when the object is new
CountedOnce(h, c) ==
    \E a \in Addresses :
        /\ IF Found(c) # {}
           THEN a \in Found(c) /\ UNCHANGED <<content, bucket, aspath_refcnt>>
           ELSE /\ content[a] = NULL
                /\ content' = [content EXCEPT ![a] = c]
                /\ bucket' = [bucket EXCEPT ![a] = c]
                /\ aspath_refcnt' = [aspath_refcnt EXCEPT ![c.aspath] = @ + 1]
        /\ refcnt' = [refcnt EXCEPT ![a] = @ + 1]
        /\ ref' = [ref EXCEPT ![h] = a]

\* holder h gets a reference to the object with content c
bgp_attr_intern(h, c) ==
    \E a \in Addresses :
        /\ IF Found(c) # {}
           THEN a \in Found(c) /\ UNCHANGED <<content, bucket>>
           ELSE /\ content[a] = NULL
                /\ content' = [content EXCEPT ![a] = c]
                /\ bucket' = [bucket EXCEPT ![a] = c]
        /\ refcnt' = [refcnt EXCEPT ![a] = @ + 1]
        /\ aspath_refcnt' = [aspath_refcnt EXCEPT ![c.aspath] = @ + 1]
        /\ ref' = [ref EXCEPT ![h] = a]

\* faulty variant: the object is freed without hash_release
FreedUnreleased(a, next) ==
    /\ refcnt' = [refcnt EXCEPT ![a] = @ - 1]
    /\ aspath_refcnt' = [aspath_refcnt EXCEPT ![content[a].aspath] = @ - 1]
    /\ content' = IF refcnt[a] > 1 THEN content ELSE [content EXCEPT ![a] = NULL]
    /\ Goto(next)
    /\ UNCHANGED bucket

\* the reference to the object at a is dropped; with the last one the table
\* gives up the bucket it finds, which must be there and should be a's own
bgp_attr_unintern(a, next) ==
    /\ refcnt' = [refcnt EXCEPT ![a] = @ - 1]
    /\ aspath_refcnt' = [aspath_refcnt EXCEPT ![content[a].aspath] = @ - 1]
    /\ IF refcnt[a] > 1
       THEN UNCHANGED <<content, bucket>> /\ Goto(next)
       ELSE /\ content' = [content EXCEPT ![a] = NULL]
            /\ IF Found(content[a]) = {}
               THEN UNCHANGED bucket /\ Goto("aborted")
               ELSE \E b \in Found(content[a]) :
                        /\ bucket' = [bucket EXCEPT ![b] = NULL]
                        /\ Goto(IF b = a THEN next ELSE "corrupted")

\* holder h lets go of its object
Release(h, next) ==
    /\ bgp_attr_unintern(ref[h], next)
    /\ ref' = [ref EXCEPT ![h] = NULL]

\* holder h lets go of its object and takes over the one of `from'
Replace(h, from, next) ==
    /\ bgp_attr_unintern(ref[h], next)
    /\ ref' = [ref EXCEPT ![h] = ref[from], ![from] = NULL]

\* holder h had none
TakeOver(h, from) == ref' = [ref EXCEPT ![h] = ref[from], ![from] = NULL]

\* the handler returns with its reference still counted
Lose(h) ==
    /\ lost' = [lost EXCEPT ![ref[h]] = @ + 1]
    /\ ref' = [ref EXCEPT ![h] = NULL]

MayLose == MapThenSumSet(LAMBDA a : lost[a], Addresses) < MaxLost

Same(h, g) == content[ref[h]] = content[ref[g]]

-----------------------------------------------------------------------------
(* bgp_update and what it calls.                                           *)

\* an UPDATE announces route r: its parser references the AS path
bgp_update_receive(r) ==
    /\ At("idle")
    /\ \E x \in ASPaths :
           /\ cur' = r
           /\ got' = [aspath |-> x, weight |-> 0, next_hop |-> FALSE]
           /\ parsed' = x
           /\ aspath_refcnt' = [aspath_refcnt EXCEPT ![x] = @ + 1]
    /\ pc' = IF r \in SoftReconfig THEN "adj_in" ELSE "policy"
    /\ UNCHANGED <<content, bucket, refcnt, ref, removed, history>>

\* inbound soft reconfiguration runs the stored attribute through the policy
bgp_soft_reconfig_table(r) ==
    /\ At("idle")
    /\ Held("adj_in", r)
    /\ cur' = r
    /\ got' = content[ref[<<"adj_in", r>>]]
    /\ pc' = "policy"
    /\ UNCHANGED <<heap, ref, removed, history, parsed>>

\* the old attribute is released before the new one is interned
bgp_adj_in_set ==
    /\ At("adj_in")
    /\ IF Held("adj_in", cur)
       THEN Release(<<"adj_in", cur>>, "adj_in")
       ELSE bgp_attr_intern(<<"adj_in", cur>>, got) /\ Goto("policy")
    /\ UNCHANGED <<removed, history, call>>

\* both the route and its import are to go; nothing is released yet
Delete(r) ==
    removed' = removed \cup {h \in {<<"path", r>>, <<"import", r>>} : ref[h] # NULL}

\* denied: an existing route is withdrawn with its import
bgp_update_filtered ==
    /\ At("policy")
    /\ Delete(cur)
    /\ Goto("done")
    /\ UNCHANGED <<heap, ref, history, call>>

\* the weight is left as it is unless the peer or a route-map sets one
bgp_update_permitted ==
    /\ At("policy")
    /\ \E w \in InputWeights \cup {got.weight} :
           bgp_attr_intern(<<"attr_new", cur>>, [got EXCEPT !.weight = w])
    /\ Goto("store")
    /\ UNCHANGED <<removed, history, call>>

\* faulty variant: the reference of an unchanged route is not given back
SameKept ==
    /\ At("store")
    /\ Held("path", cur)
    /\ LET path == <<"path", cur>>
           new == <<"attr_new", cur>>
       IN  IF path \notin removed /\ Same(path, new)
           THEN /\ ref' = [ref EXCEPT ![new] = NULL]
                /\ Goto("done")
                /\ UNCHANGED <<heap, removed>>
           ELSE Replace(path, new, "leak") /\ removed' = removed \ {path}
    /\ UNCHANGED <<history, call>>

\* an existing route: the same attribute again, or the new one replaces it
bgp_update_existing ==
    /\ At("store")
    /\ Held("path", cur)
    /\ LET path == <<"path", cur>>
           new == <<"attr_new", cur>>
       IN  IF path \notin removed /\ Same(path, new)
           THEN Release(new, "done") /\ UNCHANGED removed
           ELSE Replace(path, new, "leak") /\ removed' = removed \ {path}
    /\ UNCHANGED <<history, call>>

bgp_update_new ==
    /\ At("store")
    /\ ~Held("path", cur)
    /\ TakeOver(<<"path", cur>>, <<"attr_new", cur>>)
    /\ Goto("leak")
    /\ UNCHANGED <<heap, removed, history, call>>

\* maximum-prefix: the new path_info is freed, its attribute is not released
bgp_maximum_prefix_overflow ==
    /\ At("store")
    /\ ~Held("path", cur)
    /\ MayLose
    /\ Lose(<<"attr_new", cur>>)
    /\ Goto("done")
    /\ UNCHANGED <<heap, removed, rewrites, call>>

\* the end of the UPDATE: the parser's reference is dropped
bgp_attr_unintern_sub ==
    /\ At("done")
    /\ aspath_refcnt' = IF parsed = NULL THEN aspath_refcnt
                        ELSE [aspath_refcnt EXCEPT ![parsed] = @ - 1]
    /\ pc' = "idle"
    /\ cur' = NULL
    /\ got' = NULL
    /\ parsed' = NULL
    /\ UNCHANGED <<content, bucket, refcnt, ref, removed, history>>

-----------------------------------------------------------------------------
(* The import into the VRF.                                                *)

\* the weights the import may get: by latency, or the route's own
ImportWeights(r) ==
    IF r \in Measured THEN {0, LATENCY_WEIGHT}
    ELSE {content[ref[<<"path", r>>]].weight}

\* the refresh walks all routes of the VPN table, removed ones included
vpn_leak_to_vrf_update_all(r) ==
    /\ At("idle")
    /\ Held("path", r)
    /\ <<"path", r>> \in removed => MayLose
    /\ cur' = r
    /\ pc' = "leak"
    /\ UNCHANGED <<heap, ref, removed, history, got, parsed>>

vpn_leak_to_vrf_update_onevrf ==
    /\ At("leak")
    /\ \E w \in ImportWeights(cur) :
           bgp_attr_intern(<<"attr_new", cur>>,
               [content[ref[<<"path", cur>>]] EXCEPT !.weight = w, !.next_hop = TRUE])
    /\ Goto("leak_update")
    /\ UNCHANGED <<removed, history, call>>

\* the route is being removed, and so is its import if it has one
NotLeaked ==
    /\ <<"path", cur>> \in removed
    /\ Held("import", cur) => <<"import", cur>> \in removed

\* a route that is not being removed: its import is left alone, replaced,
\* restored or added
leak_update ==
    /\ At("leak_update")
    /\ ~NotLeaked
    /\ LET import == <<"import", cur>>
           new == <<"attr_new", cur>>
       IN  IF ref[import] = NULL
           THEN TakeOver(import, new) /\ Goto("done") /\ UNCHANGED heap
           ELSE IF import \notin removed /\ Same(import, new)
                THEN Release(new, "done")
                ELSE Replace(import, new, "done")
    /\ removed' = removed \ {<<"import", cur>>}
    /\ UNCHANGED <<history, call>>

\* a route that is being removed is not leaked, and the interned attribute
\* the function was handed is not released
leak_update_removed ==
    /\ At("leak_update")
    /\ NotLeaked
    /\ Lose(<<"attr_new", cur>>)
    /\ Goto("done")
    /\ UNCHANGED <<heap, removed, rewrites, call>>

-----------------------------------------------------------------------------
(* Withdrawal, the freeing of a path_info, multipath, and the comparison.  *)

\* with soft reconfiguration, a route without an Adj-RIB-In entry is ignored
bgp_withdraw(r) ==
    /\ At("idle")
    /\ IF r \in SoftReconfig
       THEN Held("adj_in", r) /\ Release(<<"adj_in", r>>, "idle")
       ELSE UNCHANGED <<heap, ref, pc>>
    /\ Delete(r)
    /\ UNCHANGED <<history, call>>

\* faulty variant: the flag outlives the path_info
FlagKept(k, r) ==
    /\ At("idle")
    /\ <<k, r>> \in removed
    /\ k = "path" => ~Held("import", r)
    /\ Held(k, r)
    /\ Release(<<k, r>>, IF k = "import" THEN "mpath_free" ELSE "idle")
    /\ cur' = IF k = "import" THEN r ELSE cur
    /\ UNCHANGED <<removed, history, got, parsed>>

\* a removed path_info is freed once nothing points to it
bgp_path_info_free(k, r) ==
    /\ At("idle")
    /\ <<k, r>> \in removed
    /\ k = "path" => ~Held("import", r)
    /\ Release(<<k, r>>, IF k = "import" THEN "mpath_free" ELSE "idle")
    /\ removed' = removed \ {<<k, r>>}
    /\ cur' = IF k = "import" THEN r ELSE cur
    /\ UNCHANGED <<history, got, parsed>>

\* and with an import its aggregate
bgp_path_info_mpath_free ==
    /\ At("mpath_free")
    /\ IF Held("mp_attr", cur)
       THEN Release(<<"mp_attr", cur>>, "done")
       ELSE Goto("done") /\ UNCHANGED <<heap, ref>>
    /\ UNCHANGED <<removed, history, call>>

\* the best import has multipaths: a copy of its attribute is interned ...
bgp_path_info_mpath_aggregate_update(r) ==
    /\ At("idle")
    /\ Held("import", r)
    /\ <<"import", r>> \notin removed
    /\ bgp_attr_intern(<<"attr_new", r>>, content[ref[<<"import", r>>]])
    /\ cur' = r
    /\ Goto("mpath")
    /\ UNCHANGED <<removed, history, got, parsed>>

\* ... and taken over unless it is the object that is already there
bgp_path_info_mpath_attr_set ==
    /\ At("mpath")
    /\ LET mp == <<"mp_attr", cur>>
           new == <<"attr_new", cur>>
       IN  IF ref[mp] = ref[new] THEN Release(new, "done")
           ELSE IF ref[mp] # NULL THEN Replace(mp, new, "done")
           ELSE TakeOver(mp, new) /\ Goto("done") /\ UNCHANGED heap
    /\ UNCHANGED <<removed, history, call>>

\* the import is no longer the best path, or the only one
bgp_path_info_mpath_attr_clear(r) ==
    /\ At("idle")
    /\ Held("mp_attr", r)
    /\ Release(<<"mp_attr", r>>, "idle")
    /\ UNCHANGED <<removed, history, call>>

\* two measured paths of one destination are compared: each gets a weight,
\* written into the object itself; the second write wins if it is the same
bgp_path_info_cmp(k, r, s) ==
    /\ At("idle")
    /\ r # s
    /\ {r, s} \subseteq Measured
    /\ Held(k, r) /\ Held(k, s)
    /\ {<<k, r>>, <<k, s>>} \cap removed = {}
    /\ \E w \in {<<LATENCY_WEIGHT, LATENCY_WEIGHT>>,
                 <<LATENCY_WEIGHT, 0>>, <<0, LATENCY_WEIGHT>>} :
           content' = [content EXCEPT ![ref[<<k, r>>]].weight = w[1],
                                      ![ref[<<k, s>>]].weight = w[2]]
    /\ (content' # content => rewrites < MaxRewrites)
    /\ rewrites' = IF content' # content THEN rewrites + 1 ELSE rewrites
    /\ UNCHANGED <<bucket, refcnt, aspath_refcnt, ref, removed, lost, handler>>

-----------------------------------------------------------------------------

Handler ==
    \/ bgp_adj_in_set
    \/ bgp_update_filtered
    \/ bgp_update_permitted
    \/ bgp_update_existing
    \/ bgp_update_new
    \/ bgp_maximum_prefix_overflow
    \/ bgp_attr_unintern_sub
    \/ vpn_leak_to_vrf_update_onevrf
    \/ leak_update
    \/ leak_update_removed
    \/ bgp_path_info_mpath_free
    \/ bgp_path_info_mpath_attr_set

Event(r) ==
    \/ bgp_update_receive(r)
    \/ bgp_soft_reconfig_table(r)
    \/ vpn_leak_to_vrf_update_all(r)
    \/ bgp_withdraw(r)
    \/ \E k \in {"path", "import"} : bgp_path_info_free(k, r)
    \/ bgp_path_info_mpath_aggregate_update(r)
    \/ bgp_path_info_mpath_attr_clear(r)
    \/ \E k \in {"path", "import"}, s \in Routes : bgp_path_info_cmp(k, r, s)

\* there is no next step once an assertion has ended bgpd, once a wrong bucket
\* is gone and what follows is undefined, or when an allocation fails
Next == Handler \/ \E r \in Routes : Event(r)

Spec == Init /\ [][Next]_vars

-----------------------------------------------------------------------------
(* Properties.                                                             *)

\* The variables stay in their ranges, counters never go below zero, and only
\* a path_info that is there is flagged BGP_PATH_REMOVED.
TypeOK ==
    /\ content \in [Addresses -> Contents \cup {NULL}]
    /\ bucket \in [Addresses -> Contents \cup {NULL}]
    /\ refcnt \in [Addresses -> Nat]
    /\ aspath_refcnt \in [ASPaths -> Nat]
    /\ ref \in [Holders -> Addresses \cup {NULL}]
    /\ removed \subseteq {h \in Holders : ref[h] # NULL}
    /\ lost \in [Addresses -> Nat]
    /\ rewrites \in Nat
    /\ pc \in Labels
    /\ cur \in Routes \cup {NULL}
    /\ got \in Contents \cup {NULL}
    /\ parsed \in ASPaths \cup {NULL}

HoldersOf(a) == {h \in Holders : ref[h] = a}

\* attr->refcnt counts the references: those of the holders and those that
\* were lost.  So an object is freed neither under a holder nor late.
RefcountExact ==
    \A a \in Addresses :
        /\ refcnt[a] = Cardinality(HoldersOf(a)) + lost[a]
        /\ content[a] = NULL <=> refcnt[a] = 0

\* the references to the attributes that have AS path x, numbered per object
References(x) ==
    UNION {{a} \X (1 .. refcnt[a]) :
               a \in {b \in Addresses : content[b] # NULL /\ content[b].aspath = x}}

\* aspath->refcnt is the number of references to the attributes that have it,
\* plus the parser's: bgp_attr_intern and bgp_attr_unintern count every
\* reference, not every object.
AspathRefcountExact ==
    \A x \in ASPaths :
        aspath_refcnt[x] = Cardinality(References(x)) + (IF parsed = x THEN 1 ELSE 0)

\* One object per content, as bgp_path_info_mpath_aggregate_update assumes
\* when it compares pointers, each in the bucket its content hashes to: until
\* a comparison writes to an interned object.
TableCanonical ==
    rewrites = 0 =>
        /\ \A a \in Addresses : bucket[a] = content[a]
        /\ \A a, b \in Addresses : content[a] # NULL /\ content[a] = content[b] => a = b
        /\ pc \notin {"aborted", "corrupted"}

\* bgp_attr_unintern always finds the object in the table (the assertion of
\* bgp_attr.c:1258).
ReleaseFindsObject == pc # "aborted"

=============================================================================
