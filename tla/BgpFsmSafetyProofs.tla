------------------------- MODULE BgpFsmSafetyProofs -------------------------
(***************************************************************************)
(* The theorems about the session FSM, from the invariant of BgpFsmProofs. *)
(* What Without leaves of a list, which the lemmas there suppose, is       *)
(* proved first.                                                           *)
(***************************************************************************)
EXTENDS BgpFsmStepProofs, FiniteSetTheorems, WellFoundedInduction

-----------------------------------------------------------------------------
(* Taking tasks out of the event list.                                     *)

\* A set of numbers that is not empty has a least element.  It stands in for
\* induction below: a statement about the first n elements of a list that fails
\* fails for a least n.
LEMMA Least == ASSUME NEW T \in SUBSET Nat, T # {} PROVE \E m \in T : \A n \in T : m <= n
<1>1. IsWellFoundedOn(OpToRel(<, Nat), Nat)
  BY NatLessThanWellFounded, Zenon
<1>2. PICK m \in T : \A y \in T : ~ (<<y, m>> \in OpToRel(<, Nat))
  BY <1>1, WFMin, Zenon
<1>3. \A y \in T : ~(y < m)
  BY <1>2, Zenon DEF OpToRel
<1>4. QED
  BY <1>3

\* f filters the first n elements of q
Filters(f, q, D, n) ==
    f = [i \in 0 .. n |-> IF i = 0 THEN <<>>
                          ELSE IF q[i] \in D THEN f[i - 1] ELSE Append(f[i - 1], q[i])]

\* The recursive function of Without, element by element.
LEMMA FiltersElems ==
    ASSUME NEW f, NEW q, NEW D, NEW n \in Nat
    PROVE  Filters(f, q, D, n) <=>
               /\ f = [i \in 0 .. n |-> f[i]]
               /\ f[0] = <<>>
               /\ \A i \in 1 .. n : f[i] = IF q[i] \in D THEN f[i - 1] ELSE Append(f[i - 1], q[i])
<1>1. PICK h : h = [i \in 0 .. n |-> IF i = 0 THEN <<>>
                          ELSE IF q[i] \in D THEN f[i - 1] ELSE Append(f[i - 1], q[i])]
  BY Zenon
<1>2. Filters(f, q, D, n) <=> f = h
  BY <1>1, Zenon DEF Filters
<1>3. h[0] = <<>> /\ \A i \in 1 .. n : h[i] = IF q[i] \in D THEN f[i - 1] ELSE Append(f[i - 1], q[i])
  BY <1>1
<1>4. h = [i \in 0 .. n |-> h[i]]
  BY <1>1, Zenon
<1>5. ASSUME f = [i \in 0 .. n |-> f[i]], f[0] = <<>>,
             \A i \in 1 .. n : f[i] = IF q[i] \in D THEN f[i - 1] ELSE Append(f[i - 1], q[i])
      PROVE  f = h
  <2>1. \A i \in 0 .. n : f[i] = h[i]
    <3> TAKE i \in 0 .. n
    <3>1. i = 0 \/ i \in 1 .. n
      OBVIOUS
    <3>2. QED
      BY <1>3, <1>5, <3>1, Zenon
  <2>2. QED
    BY <1>4, <1>5, <2>1, ZenonT(60)
<1>6. QED
  BY <1>2, <1>3, <1>4, <1>5, Zenon

\* The recursive function of Without exists for every list.
LEMMA FilterExists == ASSUME NEW q, NEW D, NEW n \in Nat PROVE \E f : Filters(f, q, D, n)
<1> DEFINE Bad == {m \in Nat : ~\E f : Filters(f, q, D, m)}
<1>1. SUFFICES ASSUME Bad # {} PROVE FALSE
  BY Zenon
<1>2. PICK m \in Bad : \A k \in Bad : m <= k
  BY <1>1, Least, Zenon
<1>3. CASE m = 0
  <2>1. PICK f : f = [i \in 0 .. 0 |-> <<>>]
    BY Zenon
  <2>2. Filters(f, q, D, 0)
    BY <2>1 DEF Filters
  <2>3. QED
    BY <1>3, <2>2, Zenon
<1>4. CASE m # 0
  <2>1. m - 1 \in Nat /\ m - 1 \notin Bad
    BY <1>2, <1>4
  <2>2. PICK f : Filters(f, q, D, m - 1)
    BY <2>1, Zenon
  <2>3. PICK g : g = [i \in 0 .. m |-> IF i # m THEN f[i] ELSE IF q[m] \in D THEN f[m - 1] ELSE Append(f[m - 1], q[m])]
    BY Zenon
  <2>4. /\ f[0] = <<>>
        /\ \A i \in 1 .. m - 1 : f[i] = IF q[i] \in D THEN f[i - 1] ELSE Append(f[i - 1], q[i])
    BY <2>1, <2>2, FiltersElems
  <2>5. g[0] = <<>>
    BY <1>4, <2>3, <2>4
  <2>6. \A i \in 1 .. m : g[i - 1] = f[i - 1]
    BY <2>3
  <2>7. \A i \in 1 .. m : g[i] = IF q[i] \in D THEN g[i - 1] ELSE Append(g[i - 1], q[i])
    BY <2>3, <2>4, <2>6
  <2>8. Filters(g, q, D, m)
    <3>1. g = [i \in 0 .. m |-> g[i]]
      BY <2>3, Zenon
    <3>2. QED
      BY <2>5, <2>7, <3>1, FiltersElems, Zenon
  <2>9. QED
    BY <2>8, Zenon
<1>5. QED
  BY <1>3, <1>4, Zenon

\* what Without computes: the last value of such a function
LEMMA WithoutIs == ASSUME NEW q, Len(q) \in Nat, NEW D PROVE \E f : Filters(f, q, D, Len(q)) /\ Without(q, D) = f[Len(q)]
<1> DEFINE k == CHOOSE f : Filters(f, q, D, Len(q))
<1>1. Filters(k, q, D, Len(q))
  BY FilterExists, Zenon
<1>2. Without(q, D) = k[Len(q)]
  BY Zenon DEF Without, Filters
<1>3. QED
  BY <1>1, <1>2, Zenon

\* An element that is cancelled leaves the filtered list as it is.
LEMMA RestSkip ==
    ASSUME NEW S, NEW q \in Seq(S), NEW D, NEW n \in 1 .. Len(q), q[n] \in D, NEW r, Rest(r, q, D, n - 1, S)
    PROVE  Rest(r, q, D, n, S)
<1>1. r \in Seq(S)
  BY Zenon DEF Rest
<1>2. ASSUME NEW j \in 1 .. n, q[j] \notin D PROVE \E k \in 1 .. Len(r) : r[k] = q[j]
  <2>1. j \in 1 .. n - 1
    BY <1>2
  <2>2. QED
    BY <1>2, <2>1, Zenon DEF Rest
<1>3. ASSUME NEW k \in 1 .. Len(r)
      PROVE  \E j \in 1 .. n :
               /\ r[k] = q[j] /\ q[j] \notin D
               /\ \A i \in 1 .. j - 1 : q[i] \notin D => \E l \in 1 .. k - 1 : r[l] = q[i]
  <2>1. PICK j \in 1 .. n - 1 :
               /\ r[k] = q[j] /\ q[j] \notin D
               /\ \A i \in 1 .. j - 1 : q[i] \notin D => \E l \in 1 .. k - 1 : r[l] = q[i]
    BY Zenon DEF Rest
  <2>2. j \in 1 .. n
    OBVIOUS
  <2>3. QED
    BY <2>1, <2>2, Zenon
<1>4. QED
  BY <1>1, <1>2, <1>3, ZenonT(60) DEF Rest

\* An element that is not cancelled goes to the end of the filtered list.
LEMMA RestTake ==
    ASSUME NEW S, NEW q \in Seq(S), NEW D, NEW n \in 1 .. Len(q), q[n] \notin D, NEW r, Rest(r, q, D, n - 1, S)
    PROVE  Rest(Append(r, q[n]), q, D, n, S)
<1>1. PICK x : x = q[n]
  BY Zenon
<1>2. x \in S
  BY <1>1
<1>3. PICK u : u = Append(r, x)
  BY Zenon
<1>4. PICK m \in Nat : m = Len(r)
  BY DEF Rest
<1>5. u \in Seq(S) /\ Len(u) = m + 1 /\ (\A k \in 1 .. m : u[k] = r[k]) /\ u[m + 1] = x
  BY <1>2, <1>3, <1>4 DEF Rest
<1>6. ASSUME NEW j \in 1 .. n, q[j] \notin D PROVE \E k \in 1 .. Len(u) : u[k] = q[j]
  <2>1. CASE j = n
    BY <1>1, <1>5, <2>1
  <2>2. CASE j # n
    <3>1. j \in 1 .. n - 1
      BY <2>2
    <3>2. PICK k \in 1 .. m : r[k] = q[j]
      BY <1>4, <1>6, <3>1, ZenonT(60) DEF Rest
    <3>3. k \in 1 .. Len(u) /\ u[k] = q[j]
      BY <1>5, <3>2
    <3>4. QED
      BY <3>3, Zenon
  <2>3. QED
    BY <2>1, <2>2, Zenon
<1>7. ASSUME NEW k \in 1 .. Len(u)
      PROVE  \E j \in 1 .. n :
               /\ u[k] = q[j] /\ q[j] \notin D
               /\ \A i \in 1 .. j - 1 : q[i] \notin D => \E l \in 1 .. k - 1 : u[l] = q[i]
  <2>1. CASE k = m + 1
    <3>1. u[k] = q[n] /\ q[n] \notin D
      BY <1>1, <1>5, <2>1, ZenonT(60)
    <3>2. ASSUME NEW i \in 1 .. n - 1, q[i] \notin D PROVE \E l \in 1 .. k - 1 : u[l] = q[i]
      <4>1. PICK l \in 1 .. m : r[l] = q[i]
        BY <1>4, <3>2, ZenonT(60) DEF Rest
      <4>2. l \in 1 .. k - 1 /\ u[l] = q[i]
        BY <1>5, <2>1, <4>1
      <4>3. QED
        BY <4>2, Zenon
    <3>3. n \in 1 .. n
      OBVIOUS
    <3>4. QED
      BY <3>1, <3>2, <3>3, Zenon
  <2>2. CASE k # m + 1
    <3>1. k \in 1 .. m /\ u[k] = r[k]
      BY <1>5, <2>2
    <3>2. PICK j \in 1 .. n - 1 :
               /\ r[k] = q[j] /\ q[j] \notin D
               /\ \A i \in 1 .. j - 1 : q[i] \notin D => \E l \in 1 .. k - 1 : r[l] = q[i]
      BY <1>4, <3>1, Zenon DEF Rest
    <3>3. j \in 1 .. n
      OBVIOUS
    <3>4. \A l \in 1 .. k - 1 : u[l] = r[l]
      BY <1>5, <3>1
    <3>5. QED
      BY <3>1, <3>2, <3>3, <3>4, ZenonT(60)
  <2>3. QED
    BY <2>1, <2>2, Zenon
<1>8. Rest(u, q, D, n, S)
  BY <1>5, <1>6, <1>7, ZenonT(60) DEF Rest
<1>9. QED
  BY <1>1, <1>3, <1>8, ZenonT(60)

\* What event_cancel and event_cancel_event_ready leave: Without keeps just the
\* elements outside D, and keeps their order.
LEMMA WithoutRest ==
    ASSUME NEW S, NEW q \in Seq(S), NEW D
    PROVE  Rest(Without(q, D), q, D, Len(q), S)
<1>1. Len(q) \in Nat
  OBVIOUS
<1>2. PICK f : Filters(f, q, D, Len(q)) /\ Without(q, D) = f[Len(q)]
  BY <1>1, WithoutIs, Zenon
<1>3. /\ f[0] = <<>>
      /\ \A i \in 1 .. Len(q) : f[i] = IF q[i] \in D THEN f[i - 1] ELSE Append(f[i - 1], q[i])
  BY <1>1, <1>2, FiltersElems
<1> DEFINE Bad == {m \in 0 .. Len(q) : ~Rest(f[m], q, D, m, S)}
<1>4. Bad = {}
  <2> SUFFICES ASSUME Bad # {} PROVE FALSE
    BY Zenon
  <2>1. Bad \in SUBSET Nat
    BY <1>1
  <2>2. PICK m \in Bad : \A k \in Bad : m <= k
    BY <2>1, Least, Zenon
  <2>3. CASE m = 0
    <3>1. Rest(<<>>, q, D, 0, S)
      BY DEF Rest
    <3>2. QED
      BY <1>3, <2>2, <2>3, <3>1, Zenon
  <2>4. CASE m # 0
    <3>1. m \in 1 .. Len(q) /\ m - 1 \in 0 .. Len(q) /\ m - 1 \notin Bad
      BY <1>1, <2>2, <2>4
    <3>2. Rest(f[m - 1], q, D, m - 1, S)
      BY <3>1, Zenon
    <3>3. Rest(f[m], q, D, m, S)
      <4>1. CASE q[m] \in D
        BY <1>3, <3>1, <3>2, <4>1, RestSkip, ZenonT(60)
      <4>2. CASE q[m] \notin D
        <5>1. f[m] = Append(f[m - 1], q[m])
          BY <1>3, <3>1, <4>2, ZenonT(60)
        <5>2. PICK r : r = f[m - 1]
          BY Zenon
        <5>3. Rest(Append(r, q[m]), q, D, m, S)
          BY <3>1, <3>2, <4>2, <5>2, RestTake, ZenonT(60)
        <5>4. QED
          BY <5>1, <5>2, <5>3, ZenonT(60)
      <4>3. QED
        BY <4>1, <4>2, Zenon
    <3>4. QED
      BY <3>3, Zenon
  <2>5. QED
    BY <2>3, <2>4, Zenon
<1>5. Len(q) \in 0 .. Len(q)
  BY <1>1
<1>6. QED
  BY <1>2, <1>4, <1>5, ZenonT(60)

\* The tasks that event_cancel leaves in the event list.
LEMMA Cancelled == CancelRests
<1>1. ASSUME NEW q \in Seq(Task), NEW D PROVE Rest(Without(q, D), q, D, Len(q), Task)
  BY WithoutRest, Zenon
<1>2. QED
  BY <1>1, Zenon DEF CancelRests

-----------------------------------------------------------------------------
(* Theorems.                                                               *)

\* The invariant holds in every state the specification reaches.
THEOREM Invariant == Spec => []Inv(s)
<1>1. Init => Inv(s)
  BY InitInv, Zenon
<1>2. Inv(s) /\ [Next]_vars => Inv(s)'
  <2>1. ASSUME Inv(s), Next PROVE Inv(s')
    BY <2>1, NextInv, Cancelled, ZenonT(60)
  <2>2. ASSUME Inv(s), UNCHANGED vars PROVE Inv(s')
    BY <2>2, Zenon DEF vars
  <2>3. Inv(s)' <=> Inv(s')
    BY Zenon
  <2>4. QED
    BY <2>1, <2>2, <2>3, ZenonT(60)
<1>3. QED
  BY <1>1, <1>2, PTL DEF Spec

\* bgp->established_peers counts the connections that are Established.
LEMMA CountFollows == ASSUME Inv(s) PROVE EstablishedPeersExact /\ s.established_peers \in Nat
<1>1. PICK t : t = s
  BY Zenon
<1>2. Ups(t.established_peers, t.status)
  BY <1>1, Zenon DEF Inv, During, Sound, Typed
<1>3. PICK up : up = {c \in Conns : t.status[c] = "Established"}
  BY Zenon
<1>4. Ups(Cardinality(up), t.status) /\ Cardinality(up) \in Nat
  <2>1. Cardinality({}) = 0
    BY FS_EmptySet, Zenon
  <2>2. \A x : IsFiniteSet({x}) /\ Cardinality({x}) = 1
    BY FS_Singleton, Zenon
  <2>3. Cardinality({1} \cup {2}) = 2
    <3>1. Cardinality({1} \cup {2}) = Cardinality({1}) + 1
      BY <2>2, FS_AddElement
    <3>2. Cardinality({1}) = 1
      BY <2>2, Zenon
    <3>3. QED
      BY <3>1, <3>2
  <2>4. CASE t.status[1] = "Established" /\ t.status[2] = "Established"
    <3>1. up = {1} \cup {2}
      BY <1>3, <2>4, ZenonT(60) DEF Conns
    <3>2. QED
      BY <2>3, <2>4, <3>1 DEF Ups
  <2>5. CASE t.status[1] = "Established" /\ t.status[2] # "Established"
    <3>1. up = {1}
      BY <1>3, <2>5, ZenonT(60) DEF Conns
    <3>2. QED
      BY <2>2, <2>5, <3>1 DEF Ups
  <2>6. CASE t.status[1] # "Established" /\ t.status[2] = "Established"
    <3>1. up = {2}
      BY <1>3, <2>6, ZenonT(60) DEF Conns
    <3>2. QED
      BY <2>2, <2>6, <3>1 DEF Ups
  <2>7. CASE t.status[1] # "Established" /\ t.status[2] # "Established"
    <3>1. up = {}
      BY <1>3, <2>7, ZenonT(60) DEF Conns
    <3>2. QED
      BY <2>1, <2>7, <3>1 DEF Ups
  <2>8. QED
    BY <2>4, <2>5, <2>6, <2>7, ZenonT(60)
<1>5. QED
  <2>1. t.established_peers = Cardinality(up)
    BY <1>2, <1>4, ZenonT(60) DEF Ups
  <2>2. QED
    BY <1>1, <1>3, <1>4, <2>1, ZenonT(60) DEF EstablishedPeersExact

\* bgp->established_peers, which is stepped up and down by bgp_fsm_change_status
\* and survives peer_delete, peer_xfer_conn and bgp_accept, is the number of
\* connections that are Established.
THEOREM PeersCounted == Spec => []EstablishedPeersExact
<1>1. Inv(s) => EstablishedPeersExact
  BY CountFollows, Zenon
<1>2. QED
  BY <1>1, Invariant, PTL

\* The fields have their types, in the sense of the invariant and of TypeOK.
LEMMA TypesFollow == ASSUME Inv(s) PROVE TypeOK
<1>1. PICK t : t = s
  BY Zenon
<1>2. Typed(t)
  BY <1>1, ZenonT(60) DEF Inv, During, Sound
<1>3. Task \subseteq [conn : Conns, event : FsmEvents \cup Tasks]
  BY Zenon DEF Task, Events
<1>4. t.queue \in Seq([conn : Conns, event : FsmEvents \cup Tasks])
  <2>1. t.queue \in Seq(Task)
    BY <1>2, ZenonT(60) DEF Typed
  <2>2. PICK q : q = t.queue
    BY Zenon
  <2>3. Len(q) \in Nat /\ q = [i \in 1 .. Len(q) |-> q[i]] /\ \A i \in 1 .. Len(q) : q[i] \in Task
    BY <2>1, <2>2
  <2>4. \A i \in 1 .. Len(q) : q[i] \in [conn : Conns, event : FsmEvents \cup Tasks]
    BY <1>3, <2>3, ZenonT(60)
  <2>5. q \in Seq([conn : Conns, event : FsmEvents \cup Tasks])
    <3>1. PICK S : S = [conn : Conns, event : FsmEvents \cup Tasks]
      BY Zenon
    <3>2. PICK n \in Nat : n = Len(q)
      BY <2>3, Zenon
    <3>3. q \in [1 .. n -> S]
      BY <2>3, <2>4, <3>1, <3>2, ZenonT(60)
    <3>4. q \in Seq(S)
      BY <3>3
    <3>5. QED
      BY <3>1, <3>4, ZenonT(60)
  <2>6. QED
    BY <2>2, <2>5, ZenonT(60)
<1>5. t.established_peers \in Nat
  BY <1>1, CountFollows, ZenonT(60)
<1>6. {t.stub, t.larger, t.nht, t.rib, t.clear_node_queue, t.abort, t.xfer_failed} \subseteq BOOLEAN
  BY <1>2, Zenon DEF Typed
<1>7. \A c \in Conns : t.ibuf[c] \in Seq(Packets)
  BY <1>2, ZenonT(60) DEF Typed
<1>8. QED
  BY <1>1, <1>2, <1>4, <1>5, <1>6, <1>7, ZenonT(60) DEF Typed, TypeOK

\* Every field of the peer keeps its type, whatever the order of events: only
\* known events wait in the list, bgp_process_packet never takes more than
\* rpkt_quanta packets, and established_peers, which is stepped up and down,
\* never gets below zero.
THEOREM TypeCorrect == Spec => []TypeOK
<1>1. Inv(s) => TypeOK
  BY TypesFollow, ZenonT(60)
<1>2. QED
  BY <1>1, Invariant, PTL

\* No assertion of bgp_start, bgp_connect_timer, bgp_connect_check, bgp_reads_on
\* or peer_delete ever fails.
THEOREM NoAssertionFails == Spec => []AssertionsHold
<1>1. Inv(s) => AssertionsHold
  BY ZenonT(60) DEF Inv, During, Sound, AssertionsHold
<1>2. QED
  BY <1>1, Invariant, PTL

\* Between two tasks every connection that exists has something to wait for: the
\* events that bgp_stop, peer_delete and peer_xfer_conn cancel are never the
\* last thing that would have moved it.
THEOREM NoneStranded == Spec => []NeverStranded
<1>1. ASSUME Inv(s), NEW c \in Conns
      PROVE  \/ Pending(c)
             \/ s.timers[c] # {}
             \/ s.status[c] = "Clearing" /\ s.clear_node_queue
             \/ s.status[c] = "Deleted"
  <2>1. PICK t : t = s
    BY Zenon
  <2>2. t.status[c] \in Statuses /\ Local(t, 0, "none", c)
    BY <1>1, <2>1, ZenonT(60) DEF Inv, During, Sound, Typed
  <2>3. \A g : Pends(t, 0, "none", c, g) => Pending(c)
    <3>1. ASSUME NEW g, Pends(t, 0, "none", c, g) PROVE Pending(c)
      <4>1. Has(t, c, g)
        BY <3>1, Waits, Zenon
      <4>2. QED
        BY <2>1, <4>1, ZenonT(60) DEF Has, Pending
    <3>2. QED
      BY <3>1, Zenon
  <2>4. t.status[c] \in {"Idle", "Connect", "Active", "Clearing", "Deleted"} \cup Open
    BY <2>2, Zenon DEF Statuses, Open
  <2>5. CASE t.status[c] = "Idle"
    BY <2>1, <2>2, <2>5, Two, ZenonT(60) DEF Local
  <2>6. CASE t.status[c] \in {"Connect", "Active"}
    BY <2>1, <2>2, <2>3, <2>6, ZenonT(60) DEF Local
  <2>7. CASE t.status[c] \in Open
    BY <2>1, <2>2, <2>7, Two, ZenonT(60) DEF Local
  <2>8. CASE t.status[c] = "Clearing"
    BY <2>1, <2>2, <2>3, <2>8, ZenonT(60) DEF Local
  <2>9. QED
    BY <2>1, <2>4, <2>5, <2>6, <2>7, <2>8, ZenonT(60)
<1>2. Inv(s) => NeverStranded
  BY <1>1, ZenonT(60) DEF NeverStranded
<1>3. QED
  BY <1>2, Invariant, PTL

\* A Clearing_Completed that gets to the head of the list finds its connection
\* Clearing, unless an exchange of connections has failed.
THEOREM CompletionsFindClearing == Spec => []CompletionFindsClearing
<1>1. ASSUME Inv(s), s.queue # <<>>, Head(s.queue).event = "Clearing_Completed", ~s.xfer_failed
      PROVE  s.status[Head(s.queue).conn] = "Clearing"
  <2>1. PICK q : q = s.queue
    BY Zenon
  <2>2. PICK h : h = Head(q)
    BY Zenon
  <2>3. PICK r : r = Tail(q)
    BY Zenon
  <2>4. Typed(s) /\ Routes(s, 0, "none")
    BY <1>1, Zenon DEF Inv, During, Sound
  <2>5. q \in Seq(Task) /\ q # <<>>
    BY <1>1, <2>1, <2>4, ZenonT(60) DEF Typed
  <2>6. h \in Task /\ \A d : Guarded(q, d) => h # Completion(d)
    BY <2>2, <2>3, <2>5, TailQueue, ZenonT(60)
  <2>7. h.conn \in Conns /\ h = Completion(h.conn)
    BY <1>1, <2>1, <2>2, <2>6, ZenonT(60) DEF Task, Completion
  <2>8. ~Guarded(q, h.conn)
    BY <2>6, <2>7, ZenonT(60)
  <2>9. h.conn # 0
    BY <2>7, Two, ZenonT(60)
  <2>10. QED
    BY <2>1, <2>2, <2>4, <2>7, <2>8, <2>9, ZenonT(60) DEF Routes
<1>2. Inv(s) => CompletionFindsClearing
  BY <1>1, ZenonT(60) DEF CompletionFindsClearing
<1>3. QED
  BY <1>2, Invariant, PTL

\* Unless peer_xfer_conn gave an exchange up, the routes of the neighbour stay in
\* the RIB only while the session that brought them is Established, or Clearing
\* with their removal queued.
THEOREM RoutesHaveTheirSession == Spec => []RoutesOrphanedByXfer
<1>1. Inv(s) => RoutesOrphanedByXfer
  BY Zenon DEF Inv, During, Sound, Routes, RoutesOrphanedByXfer, RoutesHaveSession
<1>2. QED
  BY <1>1, Invariant, PTL
=============================================================================
