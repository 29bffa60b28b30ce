--------------------------- MODULE BestPathProofs ---------------------------
(***************************************************************************)
(* Proofs about BestPath, for any set of paths, peers and attributes, any  *)
(* threshold and any combination of the configuration switches: the types, *)
(* the winner by latency, the route and zebra's copy of it, the order of   *)
(* bgp_path_info_cmp and the choice it leads to, and the multipaths.       *)
(***************************************************************************)
EXTENDS BestPath, FiniteSetTheorems, WellFoundedInduction, TLAPS

\* The walk's cursors stay on the list, and every path it has picked is usable.
WalkInv ==
    /\ IsInjective(todo) /\ Range(todo) \subseteq Listed
    /\ Range(inner) \subseteq Listed
    /\ new_select # NULL => new_select \in EligiblePaths
    /\ dmed \subseteq EligiblePaths
    /\ mp_list \subseteq EligiblePaths
    /\ Idle => /\ new_select = NULL /\ todo = <<>>
               /\ mp_list = {} /\ dmed = {} /\ fastest = {}
    /\ fastest \subseteq Paths \X Latencies
    /\ IF phase = "inner" THEN todo # <<>> ELSE inner = <<>>
    /\ phase \in {"inner", "mpath"} => new_select # NULL

\* the attributes as zebra sees them
Strip(a) == [a EXCEPT !.weight = 0]

\* A clear winner is still ahead of the walk, or has been picked.
Ahead(f) ==
    /\ phase = "dmed" => f \in dmed \/ (f \in Range(todo) /\ f \notin check)
    /\ phase = "inner" => \/ f \in dmed
                          \/ f = new_select
                          \/ f \in Range(Tail(todo)) /\ f \notin check
    /\ phase = "select" =>
           f = new_select \/ (f \in Range(todo) /\ (DETERMINISTIC_MED => f \in dmed))
    /\ phase \in {"mpath", "end"} => f = new_select

\* What was looked up for p, the first path of the comparison under way, when its
\* latency was bounded by l if p is f, and not within the threshold of l otherwise.
Looked(p, f, l) ==
    new_latency # NULL =>
        IF p = f THEN new_latency <= l
        ELSE l + damping_threshold < new_latency /\ new_latency # UINT32_MAX

FastInv ==
    \A f \in fastest :
        /\ ClearWinner(latency, f[1], f[2]) /\ Ahead(f[1])
        /\ phase \in {"inner", "select", "mpath"} /\ Rest # <<>> => Looked(Head(Rest), f[1], f[2])

\* The paths are divided among the objects they hold.
Divided == \A p, q \in Paths : q \in holders[p] <=> holders[q] = holders[p]

-----------------------------------------------------------------------------
(* Sequences without repetitions.                                          *)

\* The first element and the rest of a sequence make up its elements.
LEMMA HeadTail ==
    ASSUME NEW S, NEW s \in Seq(S), s # <<>>
    PROVE  /\ Tail(s) \in Seq(S)
           /\ Head(s) \in S
           /\ Head(s) \in Range(s)
           /\ Range(Tail(s)) \subseteq Range(s)
           /\ Range(s) \subseteq {Head(s)} \cup Range(Tail(s))
<1>1. /\ Len(s) \in Nat \ {0} /\ DOMAIN s = 1 .. Len(s)
      /\ Tail(s) \in Seq(S) /\ Head(s) = s[1] /\ s[1] \in S
      /\ DOMAIN Tail(s) = 1 .. Len(s) - 1
      /\ \A i \in 1 .. Len(s) - 1 : Tail(s)[i] = s[i + 1]
  OBVIOUS
<1>2. Head(s) \in Range(s)
  BY <1>1 DEF Range
<1>3. Range(Tail(s)) \subseteq Range(s)
  <2>1. SUFFICES ASSUME NEW i \in DOMAIN Tail(s)
                 PROVE  Tail(s)[i] \in Range(s)
    BY Zenon DEF Range
  <2>2. i + 1 \in DOMAIN s /\ Tail(s)[i] = s[i + 1]
    BY <1>1
  <2>3. QED
    BY <2>2, Zenon DEF Range
<1>4. Range(s) \subseteq {Head(s)} \cup Range(Tail(s))
  <2>1. SUFFICES ASSUME NEW i \in DOMAIN s, i # 1
                 PROVE  s[i] \in Range(Tail(s))
    BY <1>1, Zenon DEF Range
  <2>2. i - 1 \in DOMAIN Tail(s) /\ Tail(s)[i - 1] = s[i]
    BY <1>1, <2>1
  <2>3. QED
    BY <2>2, Zenon DEF Range
<1>5. QED
  BY <1>1, <1>2, <1>3, <1>4, Zenon

\* Nothing occurs again after the first element.
LEMMA InjectiveTail ==
    ASSUME NEW S, NEW s \in Seq(S), s # <<>>, IsInjective(s)
    PROVE  IsInjective(Tail(s)) /\ Head(s) \notin Range(Tail(s))
<1>1. /\ Len(s) \in Nat \ {0} /\ DOMAIN s = 1 .. Len(s)
      /\ Tail(s) \in Seq(S) /\ Head(s) = s[1]
      /\ DOMAIN Tail(s) = 1 .. Len(s) - 1
      /\ \A i \in 1 .. Len(s) - 1 : Tail(s)[i] = s[i + 1]
  OBVIOUS
<1>2. \A i, j \in DOMAIN s : s[i] = s[j] => i = j
  BY Zenon DEF IsInjective
<1>3. IsInjective(Tail(s))
  <2>1. SUFFICES ASSUME NEW i \in DOMAIN Tail(s), NEW j \in DOMAIN Tail(s),
                        Tail(s)[i] = Tail(s)[j]
                 PROVE  i = j
    BY Zenon DEF IsInjective
  <2>2. i + 1 \in DOMAIN s /\ j + 1 \in DOMAIN s /\ s[i + 1] = s[j + 1]
    BY <1>1, <2>1
  <2>3. QED
    BY <1>1, <1>2, <2>2
<1>4. Head(s) \notin Range(Tail(s))
  <2>1. SUFFICES ASSUME NEW i \in DOMAIN Tail(s), Tail(s)[i] = s[1]
                 PROVE  FALSE
    BY <1>1, Zenon DEF Range
  <2>2. i + 1 \in DOMAIN s /\ 1 \in DOMAIN s /\ s[i + 1] = s[1]
    BY <1>1, <2>1
  <2>3. i + 1 = 1
    BY <1>2, <2>2, Zenon
  <2>4. QED
    BY <1>1, <2>3
<1>5. QED
  BY <1>3, <1>4, Zenon

\* A new path at the head (bgp_path_info_add).
LEMMA AtHead ==
    ASSUME NEW S, NEW s \in Seq(S), NEW p \in S, p \notin Range(s), IsInjective(s)
    PROVE  /\ <<p>> \o s \in Seq(S)
           /\ IsInjective(<<p>> \o s)
           /\ Range(<<p>> \o s) = {p} \cup Range(s)
<1> DEFINE t == <<p>> \o s
<1>1. /\ Len(s) \in Nat /\ DOMAIN s = 1 .. Len(s)
      /\ t \in Seq(S) /\ DOMAIN t = 1 .. Len(s) + 1
      /\ t[1] = p
      /\ \A i \in 1 .. Len(s) : t[i + 1] = s[i]
  OBVIOUS
<1>2. \A i \in 2 .. Len(s) + 1 : i - 1 \in DOMAIN s /\ t[i] = s[i - 1]
  <2>1. TAKE i \in 2 .. Len(s) + 1
  <2>2. i - 1 \in 1 .. Len(s) /\ (i - 1) + 1 = i
    BY <1>1
  <2>3. QED
    BY <1>1, <2>2, Zenon
<1>3. \A i \in DOMAIN s : s[i] # p
  BY Zenon DEF Range
<1>4. IsInjective(t)
  <2>1. SUFFICES ASSUME NEW i \in DOMAIN t, NEW j \in DOMAIN t, t[i] = t[j]
                 PROVE  i = j
    BY Zenon DEF IsInjective
  <2>2. CASE i = 1 /\ j = 1
    BY <2>2, Zenon
  <2>3. CASE i = 1 /\ j # 1
    <3>1. j \in 2 .. Len(s) + 1
      BY <1>1, <2>3
    <3>2. QED
      BY <1>1, <1>2, <1>3, <2>1, <2>3, <3>1, Zenon
  <2>4. CASE i # 1 /\ j = 1
    <3>1. i \in 2 .. Len(s) + 1
      BY <1>1, <2>4
    <3>2. QED
      BY <1>1, <1>2, <1>3, <2>1, <2>4, <3>1, Zenon
  <2>5. CASE i # 1 /\ j # 1
    <3>1. i \in 2 .. Len(s) + 1 /\ j \in 2 .. Len(s) + 1
      BY <1>1, <2>5
    <3>2. i - 1 \in DOMAIN s /\ j - 1 \in DOMAIN s /\ s[i - 1] = s[j - 1]
      BY <1>2, <2>1, <3>1, Zenon
    <3>3. i - 1 = j - 1
      BY <3>2, Zenon DEF IsInjective
    <3>4. QED
      BY <3>1, <3>3
  <2>6. QED
    BY <2>2, <2>3, <2>4, <2>5, Zenon
<1>5. Range(t) \subseteq {p} \cup Range(s)
  <2>1. SUFFICES ASSUME NEW i \in DOMAIN t PROVE t[i] \in {p} \cup Range(s)
    BY Zenon DEF Range
  <2>2. CASE i = 1
    BY <1>1, <2>2, Zenon
  <2>3. CASE i # 1
    <3>1. i \in 2 .. Len(s) + 1
      BY <1>1, <2>3
    <3>2. QED
      BY <1>2, <3>1, Zenon DEF Range
  <2>4. QED
    BY <2>2, <2>3, Zenon
<1>6. {p} \cup Range(s) \subseteq Range(t)
  <2>1. p \in Range(t)
    BY <1>1 DEF Range
  <2>2. ASSUME NEW i \in DOMAIN s PROVE s[i] \in Range(t)
    <3>1. i + 1 \in DOMAIN t /\ t[i + 1] = s[i]
      BY <1>1
    <3>2. QED
      BY <3>1, Zenon DEF Range
  <2>3. QED
    BY <2>1, <2>2, Zenon DEF Range
<1>7. QED
  BY <1>1, <1>4, <1>5, <1>6, Zenon

\* A path unlinked from the list (bgp_path_info_reap).
LEMMA Unlinked ==
    ASSUME NEW S, NEW s \in Seq(S), NEW p, IsInjective(s)
    PROVE  /\ Without(s, p) \in Seq(S)
           /\ IsInjective(Without(s, p))
           /\ Range(Without(s, p)) = Range(s) \ {p}
<1>1. CASE p \notin Range(s)
  BY <1>1, Zenon DEF Without
<1>2. CASE p \in Range(s)
  <2> DEFINE k == CHOOSE i \in DOMAIN s : s[i] = p
             w == [i \in 1 .. Len(s) - 1 |-> IF i < k THEN s[i] ELSE s[i + 1]]
  <2>1. Without(s, p) = w
    BY <1>2, Zenon DEF Without
  <2>2. k \in DOMAIN s /\ s[k] = p
    <3>1. \E i \in DOMAIN s : s[i] = p
      BY <1>2, Zenon DEF Range
    <3>2. QED
      BY <3>1, Zenon
  <2> HIDE DEF k
  <2>3. Len(s) \in Nat \ {0} /\ DOMAIN s = 1 .. Len(s) /\ k \in 1 .. Len(s)
    BY <2>2
  <2>4. \A i, j \in DOMAIN s : s[i] = s[j] => i = j
    BY Zenon DEF IsInjective
  <2> DEFINE o(i) == IF i < k THEN i ELSE i + 1
  <2>5. \A i \in 1 .. Len(s) - 1 : o(i) \in DOMAIN s /\ o(i) # k /\ w[i] = s[o(i)]
    BY <2>3
  <2>6. \A i, j \in 1 .. Len(s) - 1 : o(i) = o(j) => i = j
    BY <2>3
  <2>7. \A i \in DOMAIN s : i # k => \E j \in 1 .. Len(s) - 1 : o(j) = i
    <3>1. TAKE i \in DOMAIN s
    <3>2. HAVE i # k
    <3>3. CASE i < k
      <4>1. i \in 1 .. Len(s) - 1 /\ o(i) = i
        BY <2>3, <3>3
      <4>2. QED
        BY <4>1, Zenon
    <3>4. CASE ~(i < k)
      <4>1. i - 1 \in 1 .. Len(s) - 1 /\ o(i - 1) = i
        BY <2>3, <3>2, <3>4
      <4>2. QED
        BY <4>1, Zenon
    <3>5. QED
      BY <3>3, <3>4, Zenon
  <2> DEFINE last == Len(s) - 1
  <2>8. w = [i \in 1 .. last |-> s[o(i)]] /\ last \in Nat
    BY <2>3, <2>5
  <2>9. DOMAIN w = 1 .. last
    BY Zenon
  <2> HIDE DEF w, o, last
  <2>10. \A i \in 1 .. last : s[o(i)] \in S
    BY <2>5 DEF last
  <2>11. w \in Seq(S)
    <3>1. w \in [1 .. last -> S]
      BY <2>8, <2>10, Zenon
    <3>2. QED
      BY <3>1, <2>8
  <2>12. IsInjective(w)
    <3>1. SUFFICES ASSUME NEW i \in 1 .. last, NEW j \in 1 .. last, w[i] = w[j]
                   PROVE  i = j
      BY <2>9, Zenon DEF IsInjective
    <3>2. s[o(i)] = s[o(j)] /\ o(i) \in DOMAIN s /\ o(j) \in DOMAIN s
      BY <2>5, <3>1, Zenon DEF last
    <3>3. o(i) = o(j)
      BY <2>4, <3>2, Zenon
    <3>4. QED
      BY <2>6, <3>3, Zenon DEF last
  <2>13. Range(w) \subseteq Range(s) \ {p}
    <3>1. SUFFICES ASSUME NEW i \in 1 .. last PROVE w[i] \in Range(s) \ {p}
      BY <2>9, Zenon DEF Range
    <3>2. o(i) \in DOMAIN s /\ o(i) # k /\ w[i] = s[o(i)]
      BY <2>5, Zenon DEF last
    <3>3. s[o(i)] # p
      BY <2>2, <2>4, <3>2, Zenon
    <3>4. QED
      BY <3>2, <3>3, Zenon DEF Range
  <2>14. Range(s) \ {p} \subseteq Range(w)
    <3>1. SUFFICES ASSUME NEW i \in DOMAIN s, s[i] # p PROVE s[i] \in Range(w)
      BY Zenon DEF Range
    <3>2. i # k
      BY <2>2, <3>1, Zenon
    <3>3. PICK j \in 1 .. last : o(j) = i
      BY <2>7, <3>2, Zenon DEF last
    <3>4. w[j] = s[i] /\ j \in DOMAIN w
      BY <2>5, <2>9, <3>3, Zenon DEF last
    <3>5. QED
      BY <3>4, Zenon DEF Range
  <2>15. QED
    BY <2>1, <2>11, <2>12, <2>13, <2>14, Zenon
<1>3. QED
  BY <1>1, <1>2, Zenon

-----------------------------------------------------------------------------
(* What a comparison does.                                                 *)

\* Writing a weight into an object changes nothing else.
LEMMA Reweighted ==
    ASSUME NEW at \in [Paths -> Attr], NEW t, NEW w \in Nat
    PROVE  /\ Weigh(at, t, w) \in [Paths -> Attr]
           /\ \A p \in Paths : /\ Strip(Weigh(at, t, w)[p]) = Strip(at[p])
                               /\ Weigh(at, t, w)[p].llgr = at[p].llgr
                               /\ p \in t => Weigh(at, t, w)[p].weight = w
                               /\ p \notin t => Weigh(at, t, w)[p] = at[p]
<1>1. ASSUME NEW a \in Attr
      PROVE  LET b == [a EXCEPT !.weight = w]
             IN  b \in Attr /\ b.weight = w /\ b.llgr = a.llgr /\ Strip(b) = Strip(a)
  <2> DEFINE b == [a EXCEPT !.weight = w]
  <2>1. b \in Attr /\ b.weight = w /\ b.llgr = a.llgr
    BY Zenon DEF Attr
  <2>2. Strip(b) = Strip(a)
    BY Zenon DEF Attr, Strip
  <2>3. QED
    BY <2>1, <2>2, Zenon
<1>2. \A p \in Paths :
          Weigh(at, t, w)[p] = IF p \in t THEN [at[p] EXCEPT !.weight = w] ELSE at[p]
  BY Zenon DEF Weigh
<1>3. \A p \in Paths : /\ Weigh(at, t, w)[p] \in Attr
                       /\ Strip(Weigh(at, t, w)[p]) = Strip(at[p])
                       /\ Weigh(at, t, w)[p].llgr = at[p].llgr
                       /\ p \in t => Weigh(at, t, w)[p].weight = w
                       /\ p \notin t => Weigh(at, t, w)[p] = at[p]
  <2> TAKE p \in Paths
  <2>1. at[p] \in Attr
    BY Zenon
  <2>2. CASE p \in t
    BY <1>1, <1>2, <2>1, <2>2, Zenon
  <2>3. CASE p \notin t
    BY <1>2, <2>1, <2>3, Zenon
  <2> QED
    BY <2>2, <2>3, Zenon
<1>4. Weigh(at, t, w) = [p \in Paths |-> Weigh(at, t, w)[p]]
  BY Zenon DEF Weigh
<1>5. Weigh(at, t, w) \in [Paths -> Attr]
  BY <1>3, <1>4, Zenon
<1> QED
  BY <1>3, <1>5, Zenon

\* the attributes once the two objects of a comparison have the weights wn and we
Weighed(n, e, wn, we) == Weigh(Weigh(attr, holders[n], wn), holders[e], we)

\* The two weights a comparison writes, and nothing else of the attributes.
LEMMA TwoWeights ==
    ASSUME NEW n \in Paths, NEW e \in Paths, NEW wn \in Nat, NEW we \in Nat,
           attr \in [Paths -> Attr]
    PROVE  /\ Weighed(n, e, wn, we) \in [Paths -> Attr]
           /\ \A p \in Paths : /\ Strip(Weighed(n, e, wn, we)[p]) = Strip(attr[p])
                               /\ Weighed(n, e, wn, we)[p].llgr = attr[p].llgr
<1> DEFINE c == Weigh(attr, holders[n], wn)
<1>1. /\ c \in [Paths -> Attr]
      /\ \A p \in Paths : /\ Strip(c[p]) = Strip(attr[p]) /\ c[p].llgr = attr[p].llgr
  BY Reweighted
<1>2. Weighed(n, e, wn, we) = Weigh(c, holders[e], we)
  BY Zenon DEF Weighed
<1> HIDE DEF c
<1>3. /\ Weigh(c, holders[e], we) \in [Paths -> Attr]
      /\ \A p \in Paths : /\ Strip(Weigh(c, holders[e], we)[p]) = Strip(c[p])
                          /\ Weigh(c, holders[e], we)[p].llgr = c[p].llgr
  BY <1>1, Reweighted
<1>4. QED
  BY <1>1, <1>2, <1>3, Zenon

\* Each path has the weight written for it where the objects are two.
LEMMA WeightsGiven ==
    ASSUME NEW n \in Paths, NEW e \in Paths, NEW wn \in Nat, NEW we \in Nat,
           attr \in [Paths -> Attr],
           n \in holders[n], e \in holders[e], n \notin holders[e]
    PROVE  Weighed(n, e, wn, we)[n].weight = wn /\ Weighed(n, e, wn, we)[e].weight = we
<1> DEFINE c == Weigh(attr, holders[n], wn)
<1>1. c \in [Paths -> Attr]
  BY Reweighted
<1>2. c[n] = [attr[n] EXCEPT !.weight = wn]
  BY Zenon DEF Weigh
<1>3. Weighed(n, e, wn, we) = Weigh(c, holders[e], we)
  BY Zenon DEF Weighed
<1> HIDE DEF c
<1>4. /\ Weigh(c, holders[e], we)[n] = c[n]
      /\ Weigh(c, holders[e], we)[e] = [c[e] EXCEPT !.weight = we]
  BY Zenon DEF Weigh
<1>5. attr[n] \in Attr /\ c[e] \in Attr
  BY <1>1, Zenon
<1>6. [attr[n] EXCEPT !.weight = wn].weight = wn /\ [c[e] EXCEPT !.weight = we].weight = we
  BY <1>5, Zenon DEF Attr
<1>7. QED
  BY <1>2, <1>3, <1>4, <1>6, Zenon

\* A comparison rewrites weights and nothing else of the attributes.
LEMMA WeightsOnly ==
    ASSUME NEW n \in Paths, NEW e \in Paths, attr \in [Paths -> Attr]
    PROVE  /\ AttrAfter(n, e) \in [Paths -> Attr]
           /\ \A p \in Paths : /\ Strip(AttrAfter(n, e)[p]) = Strip(attr[p])
                               /\ AttrAfter(n, e)[p].llgr = attr[p].llgr
<1>1. LATENCY_WEIGHT \in Nat /\ 0 \in Nat
  BY DEF LATENCY_WEIGHT
<1>2. AttrAfter(n, e) \in {attr, Weighed(n, e, LATENCY_WEIGHT, LATENCY_WEIGHT),
                           Weighed(n, e, LATENCY_WEIGHT, 0), Weighed(n, e, 0, LATENCY_WEIGHT)}
  BY Zenon DEF AttrAfter, LatencyWeights, Weighed
<1>3. CASE AttrAfter(n, e) = attr
  BY <1>3, Zenon
<1>4. CASE AttrAfter(n, e) = Weighed(n, e, LATENCY_WEIGHT, LATENCY_WEIGHT)
  BY <1>1, <1>4, TwoWeights
<1>5. CASE AttrAfter(n, e) = Weighed(n, e, LATENCY_WEIGHT, 0)
  BY <1>1, <1>5, TwoWeights
<1>6. CASE AttrAfter(n, e) = Weighed(n, e, 0, LATENCY_WEIGHT)
  BY <1>1, <1>6, TwoWeights
<1>7. QED
  BY <1>2, <1>3, <1>4, <1>5, <1>6, Zenon

\* A clear winner beats every usable path it is compared with, on either side.
LEMMA WinnerWins ==
    ASSUME NEW f \in Paths, NEW l \in Latencies, NEW q \in EligiblePaths,
           attr \in [Paths -> Attr], new_latency \in Nat \cup {NULL},
           latency \in [Paths -> Nat], list \in Seq(Paths),
           Divided, ClearWinner(latency, f, l), q # f
    PROVE  /\ Looked(f, f, l) => bgp_path_info_cmp(f, q)
           /\ Looked(q, f, l) => ~bgp_path_info_cmp(q, f)
<1>1. q \in Paths /\ q \in Listed /\ Eligible(q)
  BY DEF EligiblePaths, Listed, Range
<1>2. /\ enabled /\ Sort(f) = "ibgp" /\ Sort(q) = "ibgp"
      /\ ~attr[f].llgr /\ ~attr[q].llgr
      /\ latency[f] <= l /\ latency[q] # UINT32_MAX
      /\ l + damping_threshold < latency[q]
      /\ q \notin holders[f]
  BY <1>1, Zenon DEF ClearWinner
<1>3. /\ latency[f] \in Nat /\ latency[q] \in Nat /\ damping_threshold \in Nat
      /\ l \in Nat /\ UINT32_MAX \in Nat /\ l < UINT32_MAX
  BY <1>1, NumbersAssumption, Zenon
<1>4. f \in holders[f] /\ q \in holders[q] /\ f \notin holders[q]
  BY <1>1, <1>2, Zenon DEF Divided
<1>5. LlgrCheck(f, q) = "ties" /\ LlgrCheck(q, f) = "ties"
  BY <1>2, Zenon DEF LlgrCheck
<1>6. LATENCY_WEIGHT \in Nat /\ 0 \in Nat
  BY SMTT(60) DEF LATENCY_WEIGHT
<1>7. ASSUME NEW wn \in Nat, NEW we \in Nat
      PROVE  /\ Weighed(f, q, wn, we)[f].weight = wn /\ Weighed(f, q, wn, we)[q].weight = we
             /\ Weighed(q, f, wn, we)[q].weight = wn /\ Weighed(q, f, wn, we)[f].weight = we
  BY <1>1, <1>2, <1>4, WeightsGiven
<1>8. /\ Higher(LATENCY_WEIGHT, 0) = "wins" /\ Higher(0, LATENCY_WEIGHT) = "loses"
  BY SMTT(60) DEF Higher, Lower, LATENCY_WEIGHT
<1>9. ASSUME Looked(f, f, l) PROVE bgp_path_info_cmp(f, q)
  <2>1. NewLatency(f) \in Nat /\ NewLatency(f) <= l
    BY <1>2, <1>3, <1>9, Zenon DEF NewLatency, Looked
  <2>2. /\ NewLatency(f) # UINT32_MAX /\ NewLatency(f) < latency[q]
        /\ ~(latency[q] <= NewLatency(f) + damping_threshold)
    BY <1>2, <1>3, <2>1
  <2>3. AttrAfter(f, q) = Weighed(f, q, LATENCY_WEIGHT, 0)
    BY <1>2, <1>5, <2>2, Zenon DEF AttrAfter, LatencyWeights, Weighed
  <2>4. AttrAfter(f, q)[f].weight = LATENCY_WEIGHT /\ AttrAfter(f, q)[q].weight = 0
    <3>1. /\ Weighed(f, q, LATENCY_WEIGHT, 0)[f].weight = LATENCY_WEIGHT
          /\ Weighed(f, q, LATENCY_WEIGHT, 0)[q].weight = 0
      BY <1>6, <1>7, Zenon
    <3>2. QED
      BY <2>3, <3>1, Zenon
  <2>5. UpToMetric(AttrAfter(f, q), f, q) = "wins"
    BY <1>8, <2>4, Zenon DEF UpToMetric, Then
  <2>6. QED
    BY <1>5, <2>5, Zenon DEF bgp_path_info_cmp, Then
<1>10. ASSUME Looked(q, f, l) PROVE ~bgp_path_info_cmp(q, f)
  <2>1. /\ NewLatency(q) \in Nat /\ l + damping_threshold < NewLatency(q)
        /\ NewLatency(q) # UINT32_MAX
    BY <1>2, <1>3, <1>10, Zenon DEF NewLatency, Looked
  <2>2. /\ latency[f] # UINT32_MAX /\ ~(NewLatency(q) < latency[f])
        /\ ~(NewLatency(q) <= latency[f] + damping_threshold)
    BY <1>2, <1>3, <2>1
  <2>3. AttrAfter(q, f) = Weighed(q, f, 0, LATENCY_WEIGHT)
    BY <1>2, <1>5, <2>1, <2>2, Zenon DEF AttrAfter, LatencyWeights, Weighed
  <2>4. AttrAfter(q, f)[f].weight = LATENCY_WEIGHT /\ AttrAfter(q, f)[q].weight = 0
    <3>1. /\ Weighed(q, f, 0, LATENCY_WEIGHT)[q].weight = 0
          /\ Weighed(q, f, 0, LATENCY_WEIGHT)[f].weight = LATENCY_WEIGHT
      BY <1>6, <1>7, Zenon
    <3>2. QED
      BY <2>3, <3>1, Zenon
  <2>5. UpToMetric(AttrAfter(q, f), q, f) = "loses"
    BY <1>8, <2>4, Zenon DEF UpToMetric, Then
  <2>6. QED
    BY <1>5, <2>5, Zenon DEF bgp_path_info_cmp, Then
<1>11. QED
  BY <1>9, <1>10, Zenon

-----------------------------------------------------------------------------
(* Types, and where the walk's cursors are.                                *)

IInv == TypeOK /\ WalkInv

\* Between two walks the cursors are at rest, whatever happens to the table.
LEMMA CursorsAtRest ==
    ASSUME IInv, Idle, UNCHANGED walk
    PROVE  WalkInv'
<1>1. /\ phase' = "idle" /\ todo' = <<>> /\ inner' = <<>> /\ new_select' = NULL
      /\ mp_list' = {} /\ dmed' = {} /\ fastest' = {}
  BY Zenon DEF IInv, WalkInv, Idle, walk
<1>2. IsInjective(<<>>) /\ Range(<<>>) = {}
  BY DEF IsInjective, Range
<1>3. QED
  BY <1>1, <1>2, Zenon DEF WalkInv, Idle

\* What is usable depends on the list, the valid flags and the sessions.
LEMMA SameEligible ==
    ASSUME list' = list, valid' = valid, established' = established
    PROVE  /\ Listed' = Listed
           /\ EligiblePaths' = EligiblePaths
           /\ \A p : Eligible(p)' = Eligible(p)
BY Zenon DEF Listed, EligiblePaths, Eligible

\* A usable path is one of the paths.
LEMMA UsableArePaths ==
    ASSUME TypeOK
    PROVE  Listed \subseteq Paths /\ EligiblePaths \subseteq Listed /\ NULL \notin Listed
<1>1. list \in Seq(Paths)
  BY Zenon DEF TypeOK
<1>2. \A i \in DOMAIN list : list[i] \in Paths
  BY <1>1
<1>3. Listed \subseteq Paths
  BY <1>2, Zenon DEF Listed, Range
<1>4. QED
  BY <1>3, PathsAssumption, Zenon DEF EligiblePaths

\* A path stored: at the head if it is new, its flags restored.
LEMMA StoreTyped ==
    ASSUME IInv, Idle, NEW p \in Paths, NEW a \in Attr, bgp_path_info_store(p, a),
           parent' \in [Paths -> Attr]
    PROVE  IInv'
<1>1. /\ list \in Seq(Paths) /\ IsInjective(list) /\ Listed = Range(list)
      /\ attr \in [Paths -> Attr] /\ holders \in [Paths -> SUBSET Paths]
  BY Zenon DEF IInv, TypeOK, Listed
<1>2. /\ list' \in Seq(Paths) /\ IsInjective(list') /\ Listed' = Listed \cup {p}
  <2>1. CASE p \in Listed
    BY <1>1, <2>1, Zenon DEF bgp_path_info_store, Listed
  <2>2. CASE p \notin Listed
    <3>1. list' = <<p>> \o list
      BY <2>2, Zenon DEF bgp_path_info_store
    <3>2. QED
      BY <1>1, <2>2, <3>1, AtHead DEF Listed
  <2>3. QED
    BY <2>1, <2>2, Zenon
<1>3. attr' \in [Paths -> Attr] /\ holders' \in [Paths -> SUBSET Paths]
  <2>1. attr' = [attr EXCEPT ![p] = a] /\ bgp_attr_intern(p, a)
    BY Zenon DEF bgp_path_info_store
  <2>2. PICK t \in {{}} \cup {holders[q] : q \in {r \in Listed \ {p} : SameObject(r, p, a)}} :
            holders' = [q \in Paths |-> IF q \in t \cup {p} THEN t \cup {p}
                                                          ELSE holders[q] \ {p}]
    BY <2>1, Zenon DEF bgp_attr_intern
  <2>3. t \subseteq Paths
    BY <1>1, UsableArePaths, Zenon DEF IInv
  <2>4. QED
    BY <1>1, <2>1, <2>2, <2>3, Zenon
<1>4. /\ valid' \subseteq Listed' /\ removed' \subseteq Listed' \ valid'
      /\ changed' \subseteq Paths /\ selected' \in Listed' \cup {NULL}
  <2>1. valid' = valid \cup {p} \/ valid' = valid \ {p}
    BY Zenon DEF bgp_path_info_store
  <2>2. /\ removed' = removed \ {p} /\ selected' = selected
        /\ changed' \subseteq changed \cup {p}
    BY Zenon DEF bgp_path_info_store, chosen
  <2>3. /\ valid \subseteq Listed /\ removed \subseteq Listed \ valid
        /\ changed \subseteq Paths /\ selected \in Listed \cup {NULL}
    BY Zenon DEF IInv, TypeOK
  <2>4. QED
    BY <1>2, <2>1, <2>2, <2>3, Zenon
<1>5. UNCHANGED <<chosen, sessions, prober, walk>> /\ scheduled' = TRUE
  BY Zenon DEF bgp_path_info_store
<1>6. TypeOK'
  BY <1>2, <1>3, <1>4, <1>5, Zenon DEF IInv, TypeOK, chosen, sessions, prober, walk
<1>7. QED
  BY <1>5, <1>6, CursorsAtRest, Zenon DEF IInv


\* A path marked for removal stays on the list.
LEMMA DeleteTyped ==
    ASSUME IInv, Idle, NEW p \in Listed, bgp_path_info_delete(p),
           established' \subseteq Paths, clearing' \subseteq Paths
    PROVE  IInv'
<1>1. /\ UNCHANGED <<list, attr, holders, parent, changed, chosen, prober, walk>>
      /\ scheduled' = TRUE
      /\ removed' = removed \cup {p} /\ valid' = valid \ {p}
  BY Zenon DEF bgp_path_info_delete
<1>2. Listed' = Listed
  BY <1>1, Zenon DEF Listed
<1>3. /\ valid' \subseteq Listed' /\ removed' \subseteq Listed' \ valid'
  BY <1>1, <1>2, Zenon DEF IInv, TypeOK
<1>4. TypeOK'
  BY <1>1, <1>2, <1>3, Zenon DEF IInv, TypeOK, chosen, prober, walk
<1>5. QED
  BY <1>1, <1>4, CursorsAtRest, Zenon DEF IInv

\* What happens between two walks keeps the types.
LEMMA TableTyped ==
    ASSUME IInv, NEW p \in Paths,
           \/ bgp_update(p) \/ vpn_leak_to_vrf_update(p) \/ bgp_withdraw(p)
           \/ PeerDown(p) \/ bgp_clear_route_node(p) \/ PeerUp(p)
           \/ evaluate_paths(p)
    PROVE  IInv'
<1>1. CASE bgp_update(p)
  <2>1. PICK a \in Attrs[p] : bgp_path_info_store(p, a)
    BY <1>1, Zenon DEF bgp_update
  <2>2. a \in Attr /\ Idle /\ parent' \in [Paths -> Attr]
    BY <1>1, AttrsAssumption, Zenon DEF bgp_update, IInv, TypeOK
  <2>3. QED
    BY <2>1, <2>2, StoreTyped, Zenon
<1>2. CASE vpn_leak_to_vrf_update(p)
  <2> DEFINE W(a) == [a EXCEPT !.weight = ImportWeight(p, a.weight)]
  <2>1. PICK a \in Attrs[p] :
            /\ parent' = [parent EXCEPT ![p] = a]
            /\ \/ bgp_path_info_store(p, W(a))
               \/ UNCHANGED <<list, attr, holders, changed, removed, valid,
                              scheduled, chosen, sessions, prober, walk>>
    BY <1>2, Zenon DEF vpn_leak_to_vrf_update
  <2>2. a \in Attr /\ Idle /\ parent' \in [Paths -> Attr]
    BY <1>2, <2>1, AttrsAssumption, Zenon DEF vpn_leak_to_vrf_update, IInv, TypeOK
  <2>3. CASE bgp_path_info_store(p, W(a))
    <3>1. ImportWeight(p, a.weight) \in Nat
      BY <2>2 DEF ImportWeight, LATENCY_WEIGHT, Attr
    <3>2. W(a) \in Attr
      BY <2>2, <3>1, Zenon DEF Attr
    <3>3. QED
      BY <2>2, <2>3, <3>2, StoreTyped, Zenon
  <2>4. CASE UNCHANGED <<list, attr, holders, changed, removed, valid,
                         scheduled, chosen, sessions, prober, walk>>
    <3>1. Listed' = Listed
      BY <2>4, Zenon DEF Listed
    <3>2. TypeOK'
      BY <2>2, <2>4, <3>1, Zenon DEF IInv, TypeOK, chosen, sessions, prober, walk
    <3>3. QED
      BY <2>2, <2>4, <3>2, CursorsAtRest, Zenon DEF IInv
  <2>5. QED
    BY <2>1, <2>3, <2>4, Zenon
<1>3. CASE bgp_withdraw(p)
  <2>1. /\ Idle /\ p \in Listed /\ bgp_path_info_delete(p)
        /\ established' = established /\ clearing' = clearing
    BY <1>3, Zenon DEF bgp_withdraw, sessions
  <2>2. established \subseteq Paths /\ clearing \subseteq Paths
    BY Zenon DEF IInv, TypeOK
  <2>3. QED
    BY <2>1, <2>2, DeleteTyped, Zenon
<1>4. CASE PeerDown(p) \/ PeerUp(p)
  <2>1. /\ Idle /\ UNCHANGED <<table, chosen, prober, scheduled, walk>>
        /\ established' \subseteq Paths /\ clearing' \subseteq Paths
    BY <1>4, Zenon DEF PeerDown, PeerUp, IInv, TypeOK
  <2>2. Listed' = Listed
    BY <2>1, Zenon DEF Listed, table
  <2>3. TypeOK'
    BY <2>1, <2>2, Zenon DEF IInv, TypeOK, table, chosen, prober, walk
  <2>4. QED
    BY <2>1, <2>3, CursorsAtRest, Zenon DEF IInv
<1>5. CASE bgp_clear_route_node(p)
  <2>1. /\ Idle /\ established' \subseteq Paths /\ clearing' \subseteq Paths
    BY <1>5, Zenon DEF bgp_clear_route_node, IInv, TypeOK
  <2>2. CASE p \in Listed
    BY <1>5, <2>1, <2>2, DeleteTyped, Zenon DEF bgp_clear_route_node
  <2>3. CASE p \notin Listed
    <3>1. UNCHANGED <<table, chosen, prober, scheduled, walk>>
      BY <1>5, <2>3, Zenon DEF bgp_clear_route_node
    <3>2. Listed' = Listed
      BY <3>1, Zenon DEF Listed, table
    <3>3. TypeOK'
      BY <2>1, <3>1, <3>2, Zenon DEF IInv, TypeOK, table, chosen, prober, walk
    <3>4. QED
      BY <2>1, <3>1, <3>3, CursorsAtRest, Zenon DEF IInv
  <2>4. QED
    BY <2>2, <2>3, Zenon
<1>6. CASE evaluate_paths(p)
  <2>1. /\ Idle /\ p \in Listed \ removed /\ scheduled' = TRUE
        /\ UNCHANGED <<list, attr, holders, parent, removed, changed, chosen,
                       sessions, prober, walk>>
        /\ valid' \subseteq valid \cup {p}
    BY <1>6, Zenon DEF evaluate_paths
  <2>2. Listed' = Listed
    BY <2>1, Zenon DEF Listed
  <2>3. valid' \subseteq Listed' /\ removed' \subseteq Listed' \ valid'
    BY <2>1, <2>2, Zenon DEF IInv, TypeOK
  <2>4. TypeOK'
    BY <2>1, <2>2, <2>3, Zenon DEF IInv, TypeOK, chosen, sessions, prober, walk
  <2>5. QED
    BY <2>1, <2>4, CursorsAtRest, Zenon DEF IInv
<1>7. QED
  BY <1>1, <1>2, <1>3, <1>4, <1>5, <1>6, Zenon

\* So does a measurement or a change of the configuration.
LEMMA ProberTyped ==
    ASSUME IInv, \/ \E p \in Paths : Measure(p)
                 \/ \E on \in BOOLEAN : check_latency(on)
    PROVE  IInv'
<1>1. CASE \E on \in BOOLEAN : check_latency(on)
  <2>1. /\ Idle /\ enabled' \in BOOLEAN
        /\ UNCHANGED <<latency, table, chosen, sessions, scheduled, walk>>
    BY <1>1, Zenon DEF check_latency
  <2>2. Listed' = Listed
    BY <2>1, Zenon DEF Listed, table
  <2>3. TypeOK'
    BY <2>1, <2>2, Zenon DEF IInv, TypeOK, table, chosen, sessions, walk
  <2>4. QED
    BY <2>1, <2>3, CursorsAtRest, Zenon DEF IInv
<1>2. CASE \E p \in Paths : Measure(p)
  <2>1. PICK p \in Paths : Measure(p)
    BY <1>2, Zenon
  <2>2. PICK l \in Latencies \cup {UINT32_MAX} : latency' = [latency EXCEPT ![p] = l]
    BY <2>1, Zenon DEF Measure
  <2>3. l \in Nat
    BY NumbersAssumption, Zenon
  <2>4. latency' \in [Paths -> Nat]
    BY <2>2, <2>3, Zenon DEF IInv, TypeOK
  <2>5. UNCHANGED <<table, chosen, sessions, enabled, scheduled, phase, todo,
                    inner, new_latency, new_select, check, dmed, mp_list>>
    BY <2>1, Zenon DEF Measure
  <2>6. Listed' = Listed /\ EligiblePaths' = EligiblePaths
    BY <2>5, SameEligible, Zenon DEF table, sessions
  <2>7. TypeOK'
    BY <2>4, <2>5, <2>6, Zenon DEF IInv, TypeOK, table, chosen, sessions
  <2>8. fastest' \subseteq fastest
    BY <2>1, Zenon DEF Measure
  <2>9. WalkInv'
    BY <2>5, <2>6, <2>8, Zenon DEF IInv, WalkInv, Idle
  <2>10. QED
    BY <2>7, <2>9, Zenon DEF IInv
<1>3. QED
  BY <1>1, <1>2, Zenon


\* What another destination's walk does to this one: a weight is rewritten.
LEMMA ElsewhereStep ==
    ASSUME IInv, NEW p \in Paths, Elsewhere(p)
    PROVE  /\ Idle /\ attr' \in [Paths -> Attr]
           /\ \A q \in Paths : Strip(attr'[q]) = Strip(attr[q])
           /\ UNCHANGED <<list, holders, parent, valid, removed, changed, chosen, sessions,
                          prober, scheduled, walk>>
<1>1. PICK w \in {0, LATENCY_WEIGHT} : attr' = Weigh(attr, holders[p], w)
  BY Zenon DEF Elsewhere
<1>2. w \in Nat /\ attr \in [Paths -> Attr]
  BY DEF LATENCY_WEIGHT, IInv, TypeOK
<1>3. attr' \in [Paths -> Attr] /\ \A q \in Paths : Strip(attr'[q]) = Strip(attr[q])
  BY <1>1, <1>2, Reweighted
<1>4. QED
  BY <1>3, Zenon DEF Elsewhere

\* So does the walk of another destination.
LEMMA ElsewhereTyped ==
    ASSUME IInv, NEW p \in Paths, Elsewhere(p)
    PROVE  IInv'
<1>1. /\ Idle /\ attr' \in [Paths -> Attr]
      /\ UNCHANGED <<list, holders, parent, valid, removed, changed, chosen, sessions,
                     prober, scheduled, walk>>
  BY ElsewhereStep, Zenon
<1>2. Listed' = Listed
  BY <1>1, Zenon DEF Listed
<1>3. TypeOK'
  BY <1>1, <1>2, Zenon DEF IInv, TypeOK, chosen, sessions, prober, walk
<1>4. QED
  BY <1>1, <1>3, CursorsAtRest, Zenon DEF IInv

\* Of two usable paths compared, one goes on, and only weights are written.
LEMMA ContendStep ==
    ASSUME NEW p \in Paths, Contend(p), attr \in [Paths -> Attr],
           new_select \in Paths \cup {NULL}
    PROVE  /\ attr' \in [Paths -> Attr]
           /\ \A q \in Paths : /\ Strip(attr'[q]) = Strip(attr[q])
                               /\ attr'[q].llgr = attr[q].llgr
           /\ new_select' \in {p, new_select} /\ new_select' # NULL
<1>1. CASE new_select = NULL
  BY <1>1, PathsAssumption, Zenon DEF Contend
<1>2. CASE new_select # NULL
  <2>1. new_select \in Paths /\ attr' = AttrAfter(p, new_select)
    BY <1>2, Zenon DEF Contend
  <2>2. new_select' \in {p, new_select} /\ p # NULL
    BY <1>2, PathsAssumption, Zenon DEF Contend
  <2>3. QED
    BY <1>2, <2>1, <2>2, WeightsOnly, Zenon
<1>3. QED
  BY <1>1, <1>2, Zenon

\* The steps of a walk that leave the list alone keep the types.
LEMMA ScanTyped ==
    ASSUME IInv, SameWalk,
           \/ DmedOuter \/ DmedInner \/ DmedGroupEnd \/ DmedEnd
           \/ SelectEnd \/ MpathStep \/ MpathEnd
    PROVE  IInv'
<1>1. /\ list' = list /\ valid' = valid /\ established' = established
      /\ fastest' = fastest /\ new_latency' = NULL
      /\ UNCHANGED <<holders, parent, removed, changed, chosen, clearing,
                     prober, scheduled>>
  BY Zenon DEF SameWalk, sessions
<1>2. /\ Listed' = Listed /\ EligiblePaths' = EligiblePaths
      /\ fastest' \subseteq Paths \X Latencies
  BY <1>1, SameEligible, Zenon DEF IInv, WalkInv
<1>3. Listed \subseteq Paths /\ EligiblePaths \subseteq Listed /\ NULL \notin Listed
  BY UsableArePaths, Zenon DEF IInv
<1>4. ASSUME attr' \in [Paths -> Attr],
             phase' \in {"idle", "dmed", "inner", "select", "mpath", "end"},
             todo' \in Seq(Paths), inner' \in Seq(Paths),
             new_select' \in EligiblePaths \cup {NULL},
             check' \subseteq Paths, dmed' \subseteq EligiblePaths,
             mp_list' \subseteq EligiblePaths
      PROVE  TypeOK'
  BY <1>1, <1>2, <1>3, <1>4, Zenon DEF IInv, TypeOK, chosen, prober
<1>5. /\ attr \in [Paths -> Attr] /\ new_select \in EligiblePaths \cup {NULL}
      /\ new_select \in Paths \cup {NULL}
      /\ dmed \subseteq EligiblePaths /\ mp_list \subseteq EligiblePaths /\ check \subseteq Paths
      /\ todo \in Seq(Paths) /\ inner \in Seq(Paths) /\ list \in Seq(Paths)
      /\ IsInjective(list) /\ IsInjective(todo)
      /\ Range(todo) \subseteq Listed /\ Range(inner) \subseteq Listed
      /\ phase \in {"idle", "dmed", "inner", "select", "mpath", "end"}
  BY Zenon DEF IInv, TypeOK, WalkInv
<1>6. todo # <<>> => /\ Tail(todo) \in Seq(Paths) /\ IsInjective(Tail(todo))
                     /\ Range(Tail(todo)) \subseteq Listed
                     /\ Head(todo) \in Listed
  BY <1>5, HeadTail, InjectiveTail, Zenon
<1>7. inner # <<>> => /\ Tail(inner) \in Seq(Paths)
                      /\ Range(Tail(inner)) \subseteq Listed
                      /\ Head(inner) \in Listed
  BY <1>5, HeadTail, Zenon
<1>8. Range(<<>>) = {} /\ IsInjective(<<>>)
  BY DEF Range, IsInjective
<1>9. CASE DmedOuter
  <2>1. /\ phase = "dmed" /\ todo # <<>> /\ UNCHANGED <<attr, check, dmed, mp_list>>
        /\ inner = <<>>
    BY <1>9, Zenon DEF DmedOuter, IInv, WalkInv
  <2>2. CASE Head(todo) \in check \/ ~Eligible(Head(todo))
    <3>1. todo' = Tail(todo) /\ UNCHANGED <<phase, inner, new_select>>
      BY <1>9, <2>2, Zenon DEF DmedOuter
    <3>2. TypeOK'
      BY <1>4, <1>5, <1>6, <2>1, <3>1, Zenon
    <3>3. WalkInv'
      BY <1>2, <1>5, <1>6, <1>8, <2>1, <3>1, Zenon DEF WalkInv, Idle
    <3>4. QED
      BY <3>2, <3>3, Zenon DEF IInv
  <2>3. CASE ~(Head(todo) \in check \/ ~Eligible(Head(todo)))
    <3>1. /\ new_select' = Head(todo) /\ inner' = Tail(todo)
          /\ phase' = "inner" /\ todo' = todo
      BY <1>9, <2>3, Zenon DEF DmedOuter
    <3>2. Head(todo) \in EligiblePaths
      BY <1>6, <2>1, <2>3, Zenon DEF EligiblePaths
    <3>3. TypeOK'
      BY <1>4, <1>5, <1>6, <2>1, <3>1, <3>2, Zenon
    <3>4. WalkInv'
      BY <1>2, <1>3, <1>5, <1>6, <2>1, <3>1, <3>2, Zenon DEF WalkInv, Idle
    <3>5. QED
      BY <3>3, <3>4, Zenon DEF IInv
  <2>4. QED
    BY <2>2, <2>3, Zenon
<1>10. CASE DmedInner
  <2>1. /\ phase = "inner" /\ inner # <<>> /\ inner' = Tail(inner)
        /\ UNCHANGED <<phase, todo, dmed, mp_list>>
        /\ todo # <<>> /\ new_select # NULL
    BY <1>10, Zenon DEF DmedInner, IInv, WalkInv
  <2>2. /\ attr' \in [Paths -> Attr] /\ check' \subseteq Paths
        /\ new_select' \in EligiblePaths
    <3>1. CASE UNCHANGED <<attr, new_select, check>>
      BY <1>5, <2>1, <3>1, Zenon
    <3>2. CASE /\ Eligible(Head(inner)) /\ Contend(Head(inner))
               /\ check' = check \cup {Head(inner)}
      <4>1. Head(inner) \in EligiblePaths /\ Head(inner) \in Paths
        BY <1>3, <1>7, <2>1, <3>2, Zenon DEF EligiblePaths
      <4>2. attr' \in [Paths -> Attr] /\ new_select' \in {Head(inner), new_select}
        BY <1>5, <3>2, <4>1, ContendStep, Zenon
      <4>3. QED
        BY <1>5, <2>1, <3>2, <4>1, <4>2, Zenon
    <3>3. QED
      BY <1>10, <3>1, <3>2, Zenon DEF DmedInner
  <2>3. TypeOK'
    BY <1>4, <1>5, <1>7, <2>1, <2>2, Zenon
  <2>4. WalkInv'
    BY <1>2, <1>3, <1>5, <1>7, <2>1, <2>2, Zenon DEF WalkInv, Idle
  <2>5. QED
    BY <2>3, <2>4, Zenon DEF IInv
<1>11. CASE DmedGroupEnd
  <2>1. /\ phase = "inner" /\ inner = <<>> /\ phase' = "dmed" /\ todo' = Tail(todo)
        /\ check' = check \cup {new_select} /\ dmed' = dmed \cup {new_select}
        /\ UNCHANGED <<attr, inner, new_select, mp_list>>
        /\ todo # <<>> /\ new_select # NULL
    BY <1>11, Zenon DEF DmedGroupEnd, IInv, WalkInv
  <2>2. TypeOK'
    BY <1>3, <1>4, <1>5, <1>6, <2>1, Zenon
  <2>3. WalkInv'
    BY <1>2, <1>3, <1>5, <1>6, <1>8, <2>1, Zenon DEF WalkInv, Idle
  <2>4. QED
    BY <2>2, <2>3, Zenon DEF IInv
<1>12. CASE DmedEnd
  <2>1. /\ phase = "dmed" /\ phase' = "select" /\ todo' = list /\ new_select' = NULL
        /\ UNCHANGED <<attr, inner, check, dmed, mp_list>> /\ inner = <<>>
    BY <1>12, Zenon DEF DmedEnd, IInv, WalkInv
  <2>2. TypeOK'
    BY <1>4, <1>5, <2>1, Zenon
  <2>3. WalkInv'
    BY <1>2, <1>5, <1>8, <2>1, Zenon DEF WalkInv, Idle, Listed
  <2>4. QED
    BY <2>2, <2>3, Zenon DEF IInv
<1>13. CASE SelectEnd
  <2>1. /\ phase = "select" /\ todo' = list
        /\ phase' = "end" \/ (phase' = "mpath" /\ new_select # NULL)
        /\ UNCHANGED <<attr, inner, new_select, check, dmed, mp_list>> /\ inner = <<>>
    BY <1>13, Zenon DEF SelectEnd, IInv, WalkInv
  <2>2. TypeOK'
    BY <1>4, <1>5, <2>1, Zenon
  <2>3. WalkInv'
    BY <1>2, <1>5, <1>8, <2>1, Zenon DEF WalkInv, Idle, Listed
  <2>4. QED
    BY <2>2, <2>3, Zenon DEF IInv
<1>14. CASE MpathStep
  <2>1. /\ phase = "mpath" /\ todo # <<>> /\ todo' = Tail(todo)
        /\ UNCHANGED <<phase, inner, new_select, check, dmed>>
        /\ inner = <<>> /\ new_select # NULL
    BY <1>14, Zenon DEF MpathStep, IInv, WalkInv
  <2>2. attr' \in [Paths -> Attr] /\ mp_list' \subseteq EligiblePaths
    <3>1. CASE UNCHANGED <<attr, mp_list>>
      BY <1>5, <3>1, Zenon
    <3>2. CASE /\ Eligible(Head(todo)) /\ attr' = AttrAfter(Head(todo), new_select)
               /\ mp_list' \subseteq mp_list \cup {Head(todo)}
      <4>1. Head(todo) \in EligiblePaths /\ Head(todo) \in Paths /\ new_select \in Paths
        BY <1>3, <1>5, <1>6, <2>1, <3>2, Zenon DEF EligiblePaths
      <4>2. QED
        BY <1>5, <3>2, <4>1, WeightsOnly, Zenon
    <3>3. QED
      BY <1>14, <3>1, <3>2, Zenon DEF MpathStep
  <2>3. TypeOK'
    BY <1>4, <1>5, <1>6, <2>1, <2>2, Zenon
  <2>4. WalkInv'
    BY <1>2, <1>5, <1>6, <1>8, <2>1, <2>2, Zenon DEF WalkInv, Idle
  <2>5. QED
    BY <2>3, <2>4, Zenon DEF IInv
<1>15. CASE MpathEnd
  <2>1. /\ phase = "mpath" /\ phase' = "end" /\ inner = <<>>
        /\ UNCHANGED <<attr, todo, inner, new_select, check, dmed, mp_list>>
    BY <1>15, Zenon DEF MpathEnd, IInv, WalkInv
  <2>2. TypeOK'
    BY <1>4, <1>5, <2>1, Zenon
  <2>3. WalkInv'
    BY <1>2, <1>5, <1>8, <2>1, Zenon DEF WalkInv, Idle
  <2>4. QED
    BY <2>2, <2>3, Zenon DEF IInv
<1>16. QED
  BY <1>9, <1>10, <1>11, <1>12, <1>13, <1>14, <1>15, Zenon


\* Taking a path off the list, or none.
LEMMA ReapStep ==
    ASSUME list \in Seq(Paths), IsInjective(list), NEW p, bgp_path_info_reap(p)
    PROVE  /\ list' \in Seq(Paths) /\ IsInjective(list')
           /\ Listed' = Listed \ {p}
           /\ removed' = removed \ {p}
BY Unlinked, Zenon DEF bgp_path_info_reap, Listed

\* A step of the selection, which may take a removed path off the list.
LEMMA SelectTyped ==
    ASSUME IInv, SelectStep
    PROVE  IInv'
<1> DEFINE p == Head(todo)
           dead == IF p \in removed /\ p \notin valid /\ p # selected THEN p ELSE NULL
<1>1. /\ phase = "select" /\ todo # <<>> /\ todo' = Tail(todo)
      /\ bgp_path_info_reap(dead) /\ changed' = changed \ {dead} /\ new_latency' = NULL
      /\ UNCHANGED <<holders, parent, valid, chosen, sessions, prober,
                     scheduled, phase, inner, check, dmed, mp_list, fastest>>
  BY Zenon DEF SelectStep
<1>2. \/ Eligible(p) /\ Contend(p)
      \/ UNCHANGED <<attr, new_select>>
  BY Zenon DEF SelectStep
<1>3. Listed \subseteq Paths /\ EligiblePaths \subseteq Listed /\ NULL \notin Listed
  BY UsableArePaths, Zenon DEF IInv
<1>4. /\ Tail(todo) \in Seq(Paths) /\ IsInjective(Tail(todo))
      /\ Range(Tail(todo)) \subseteq Range(todo)
      /\ p \in Range(todo) /\ p \notin Range(Tail(todo)) /\ p \in Listed
  BY <1>1, HeadTail, InjectiveTail, Zenon DEF IInv, TypeOK, WalkInv
<1>5. /\ (dead \notin valid /\ dead # selected) \/ dead = NULL
      /\ dead \in {p, NULL}
  BY Zenon
<1> HIDE DEF p, dead
<1>6. /\ list' \in Seq(Paths) /\ IsInjective(list')
      /\ Listed' = Listed \ {dead} /\ removed' = removed \ {dead}
  BY <1>1, ReapStep, Zenon DEF IInv, TypeOK
<1>7. EligiblePaths' = EligiblePaths
  <2>1. valid' = valid /\ established' = established
    BY <1>1, Zenon DEF sessions
  <2>2. \A q : Eligible(q)' = Eligible(q)
    BY <2>1, Zenon DEF Eligible
  <2>3. \A q \in EligiblePaths : q # dead
    BY <1>3, <1>5, Zenon DEF EligiblePaths, Eligible
  <2>4. QED
    BY <1>6, <2>2, <2>3, Zenon DEF EligiblePaths
<1>8. /\ attr' \in [Paths -> Attr] /\ new_select' \in Paths \cup {NULL}
      /\ new_select' # NULL => new_select' \in EligiblePaths
  <2>1. CASE UNCHANGED <<attr, new_select>>
    BY <2>1, Zenon DEF IInv, TypeOK, WalkInv
  <2>2. CASE Eligible(p) /\ Contend(p)
    <3>1. p \in EligiblePaths /\ p \in Paths
      BY <1>3, <1>4, <2>2, Zenon DEF EligiblePaths
    <3>2. attr' \in [Paths -> Attr] /\ new_select' \in {p, new_select}
      BY <2>2, <3>1, ContendStep, Zenon DEF IInv, TypeOK
    <3>3. QED
      BY <3>1, <3>2, Zenon DEF IInv, TypeOK, WalkInv
  <2>3. QED
    BY <1>2, <2>1, <2>2, Zenon
<1>9. /\ valid' \subseteq Listed' /\ removed' \subseteq Listed' \ valid'
      /\ changed' \subseteq Paths /\ selected' \in Listed' \cup {NULL}
  <2>1. /\ valid \subseteq Listed /\ removed \subseteq Listed \ valid
        /\ changed \subseteq Paths /\ selected \in Listed \cup {NULL}
    BY Zenon DEF IInv, TypeOK
  <2>2. valid' = valid /\ selected' = selected
    BY <1>1, Zenon DEF chosen
  <2>3. QED
    BY <1>1, <1>3, <1>5, <1>6, <2>1, <2>2, Zenon
<1>10. TypeOK'
  BY <1>1, <1>4, <1>6, <1>8, <1>9, Zenon DEF IInv, TypeOK, chosen, sessions, prober
<1>11. WalkInv'
  <2>1. inner = <<>> /\ Range(<<>>) = {}
    BY <1>1, SMTT(60) DEF IInv, WalkInv, Range
  <2>2. Range(Tail(todo)) \subseteq Listed'
    BY <1>3, <1>4, <1>5, <1>6, Zenon DEF IInv, WalkInv
  <2>3. QED
    BY <1>1, <1>4, <1>7, <1>8, <2>1, <2>2, Zenon DEF IInv, WalkInv, Idle
<1>12. QED
  BY <1>10, <1>11, Zenon DEF IInv

\* The start of a walk, and its end.
LEMMA StartTyped ==
    ASSUME IInv, bgp_best_selection
    PROVE  IInv'
<1>1. /\ phase' \in {"dmed", "select"} /\ todo' = list /\ inner' = <<>>
      /\ new_latency' = NULL
      /\ new_select' = NULL /\ check' = {} /\ dmed' = {} /\ mp_list' = {}
      /\ fastest' \subseteq Paths \X Latencies
      /\ UNCHANGED <<table, chosen, sessions, prober, scheduled>>
  <2>1. Listed \subseteq Paths
    BY UsableArePaths, Zenon DEF IInv
  <2>2. {f \in Listed \X Latencies : ClearWinner(latency, f[1], f[2])}
            \subseteq Paths \X Latencies
    BY <2>1
  <2>3. QED
    BY <2>2, Zenon DEF bgp_best_selection
<1>2. Listed' = Listed
  BY <1>1, Zenon DEF Listed, table
<1>3. TypeOK'
  BY <1>1, <1>2 DEF IInv, TypeOK, table, chosen, sessions, prober
<1>4. Range(<<>>) = {}
  BY SMTT(60) DEF Range
<1>5. WalkInv'
  BY <1>1, <1>2, <1>4, Zenon DEF IInv, TypeOK, WalkInv, Idle, Listed
<1>6. QED
  BY <1>3, <1>5, Zenon DEF IInv

\* The end of the walk keeps the types, although it reaps the old selected path.
LEMMA EndTyped ==
    ASSUME IInv, bgp_process_main_one
    PROVE  IInv'
<1>1. /\ phase' = "idle" /\ todo' = <<>> /\ inner' = <<>> /\ new_select' = NULL
      /\ new_latency' = NULL
      /\ check' = {} /\ dmed' = {} /\ mp_list' = {} /\ fastest' = {}
      /\ selected' = new_select /\ scheduled' = FALSE
      /\ UNCHANGED <<attr, holders, parent, valid, sessions, prober>>
      /\ bgp_path_info_reap(OldRemoved)
      /\ multipath' = bgp_path_info_mpath_update
      /\ changed' \subseteq changed \cup {new_select}
      /\ new_select \notin changed'
  BY Zenon DEF bgp_process_main_one, Unschedule
<1>2. Listed \subseteq Paths /\ EligiblePaths \subseteq Listed /\ NULL \notin Listed
  BY UsableArePaths, Zenon DEF IInv
<1>3. OldRemoved \in removed \cup {NULL}
  BY Zenon DEF OldRemoved
<1>4. /\ list' \in Seq(Paths) /\ IsInjective(list')
      /\ Listed' = Listed \ {OldRemoved} /\ removed' = removed \ {OldRemoved}
  BY <1>1, ReapStep, Zenon DEF IInv, TypeOK
<1>5. /\ valid \subseteq Listed /\ removed \subseteq Listed \ valid /\ changed \subseteq Paths
      /\ new_select # NULL => new_select \in EligiblePaths
      /\ new_select \in Paths \cup {NULL}
      /\ mp_list \subseteq EligiblePaths
  BY Zenon DEF IInv, TypeOK, WalkInv
<1>6. EligiblePaths \subseteq valid
  BY Zenon DEF EligiblePaths, Eligible
<1>7. /\ valid' \subseteq Listed' /\ removed' \subseteq Listed' \ valid'
      /\ changed' \subseteq Paths /\ selected' \in Listed' \cup {NULL}
  BY <1>1, <1>2, <1>3, <1>4, <1>5, <1>6, Zenon
<1>8. multipath' \subseteq Paths
  <2>1. bgp_path_info_mpath_update \subseteq mp_list
    BY Zenon DEF bgp_path_info_mpath_update, FirstOfNexthop
  <2>2. QED
    BY <1>1, <1>2, <1>5, <2>1, Zenon
<1>9. TypeOK'
  <2>1. /\ attr' \in [Paths -> Attr] /\ parent' \in [Paths -> Attr]
        /\ holders' \in [Paths -> SUBSET Paths]
        /\ established' \subseteq Paths /\ clearing' \subseteq Paths
        /\ enabled' \in BOOLEAN /\ latency' \in [Paths -> Nat]
    BY <1>1, Zenon DEF IInv, TypeOK, sessions, prober
  <2>2. /\ phase' \in {"idle", "dmed", "inner", "select", "mpath", "end"}
        /\ todo' \in Seq(Paths) /\ inner' \in Seq(Paths)
        /\ new_latency' \in Nat \cup {NULL} /\ new_select' \in Paths \cup {NULL}
        /\ check' \subseteq Paths /\ dmed' \subseteq Paths /\ mp_list' \subseteq Paths
    BY <1>1
  <2>3. scheduled' \in BOOLEAN
    BY <1>1, Zenon
  <2>4. QED
    BY <1>4, <1>7, <1>8, <2>1, <2>2, <2>3, Zenon DEF TypeOK
<1>10. Range(<<>>) = {} /\ IsInjective(<<>>)
  BY DEF Range, IsInjective
<1>11. WalkInv'
  BY <1>1, <1>10, Zenon DEF WalkInv, Idle
<1>12. QED
  BY <1>9, <1>11, Zenon DEF IInv

\* The first look-up of a comparison.
LEMMA LookUpTyped ==
    ASSUME IInv, LookUp
    PROVE  IInv'
<1>1. UNCHANGED <<table, chosen, sessions, prober, scheduled, phase, todo, inner, new_select,
                  check, dmed, mp_list, fastest>>
  BY Zenon DEF LookUp
<1>2. Listed' = Listed /\ EligiblePaths' = EligiblePaths
  BY <1>1, SameEligible, Zenon DEF table, sessions
<1>3. new_latency' \in Nat
  <2>1. /\ Rest \in Seq(Paths) /\ Rest # <<>> /\ latency \in [Paths -> Nat]
        /\ new_latency' = latency[Head(Rest)]
    BY Zenon DEF LookUp, Rest, IInv, TypeOK
  <2>2. QED
    BY <2>1, HeadTail, Zenon
<1>4. TypeOK'
  BY <1>1, <1>2, <1>3, Zenon DEF IInv, TypeOK, table, chosen, sessions, prober
<1>5. WalkInv'
  BY <1>1, <1>2, Zenon DEF IInv, WalkInv, Idle
<1>6. QED
  BY <1>4, <1>5, Zenon DEF IInv

\* Stuttering.
LEMMA StutterTyped ==
    ASSUME IInv, UNCHANGED vars
    PROVE  IInv'
<1>1. /\ UNCHANGED <<table, chosen, sessions, prober, scheduled, walk>>
  BY Zenon DEF vars
<1>2. Listed' = Listed /\ EligiblePaths' = EligiblePaths
  BY <1>1, SameEligible, Zenon DEF table, sessions
<1>3. TypeOK'
  BY <1>1, <1>2, Zenon DEF IInv, TypeOK, table, chosen, sessions, prober, walk
<1>4. WalkInv'
  BY <1>1, <1>2, Zenon DEF IInv, WalkInv, Idle, walk
<1>5. QED
  BY <1>3, <1>4, Zenon DEF IInv

\* The types hold at the start.
LEMMA InitTyped == Init => IInv
<1> SUFFICES ASSUME Init PROVE IInv
  BY Zenon
<1>1. \A p \in Paths : (CHOOSE a \in Attrs[p] : TRUE) \in Attr
  BY AttrsAssumption, Zenon
<1>2. attr \in [Paths -> Attr] /\ parent \in [Paths -> Attr]
  BY <1>1, Zenon DEF Init
<1>3. holders \in [Paths -> SUBSET Paths]
  BY Zenon DEF Init
<1>4. Range(<<>>) = {} /\ IsInjective(<<>>)
  BY DEF Range, IsInjective
<1>5. latency \in [Paths -> Nat]
  BY NumbersAssumption, Zenon DEF Init
<1>6. TypeOK
  <2>1. /\ list \in Seq(Paths) /\ IsInjective(list)
        /\ valid \subseteq Listed /\ removed \subseteq Listed \ valid /\ changed \subseteq Paths
        /\ selected \in Listed \cup {NULL} /\ multipath \subseteq Paths
    BY <1>4, SMTT(60) DEF Init, Listed
  <2>2. enabled \in BOOLEAN /\ scheduled \in BOOLEAN
    BY SwitchesAssumption, Zenon DEF Init
  <2>3. /\ established \subseteq Paths /\ clearing \subseteq Paths
        /\ phase \in {"idle", "dmed", "inner", "select", "mpath", "end"}
        /\ todo \in Seq(Paths) /\ inner \in Seq(Paths)
        /\ new_latency \in Nat \cup {NULL} /\ new_select \in Paths \cup {NULL}
        /\ check \subseteq Paths /\ dmed \subseteq Paths /\ mp_list \subseteq Paths
    BY DEF Init
  <2>4. QED
    BY <1>2, <1>3, <1>5, <2>1, <2>2, <2>3, Zenon DEF TypeOK
<1>7. WalkInv
  BY <1>4, Zenon DEF Init, WalkInv, Idle, Listed
<1>8. QED
  BY <1>6, <1>7, Zenon DEF IInv

\* Every step keeps the types and the cursors.
LEMMA StepTyped == IInv /\ [Next]_vars => IInv'
<1> SUFFICES ASSUME IInv, [Next]_vars PROVE IInv'
  BY Zenon
<1>1. CASE bgp_best_selection
  BY <1>1, StartTyped, Zenon
<1>2. CASE \/ DmedOuter \/ DmedInner \/ DmedGroupEnd \/ DmedEnd
           \/ SelectEnd \/ MpathStep \/ MpathEnd
  <2>1. SameWalk
    BY <1>2, Zenon DEF DmedOuter, DmedInner, DmedGroupEnd, DmedEnd, SelectEnd, MpathStep, MpathEnd
  <2>2. QED
    BY <1>2, <2>1, ScanTyped, Zenon
<1>3. CASE SelectStep
  BY <1>3, SelectTyped, Zenon
<1>4. CASE bgp_process_main_one
  BY <1>4, EndTyped, Zenon
<1>5. CASE \E p \in Paths : \/ bgp_update(p) \/ vpn_leak_to_vrf_update(p) \/ bgp_withdraw(p)
                            \/ PeerDown(p) \/ bgp_clear_route_node(p) \/ PeerUp(p)
                            \/ evaluate_paths(p)
  BY <1>5, TableTyped, Zenon
<1>6. CASE \/ \E p \in Paths : Measure(p)
           \/ \E on \in BOOLEAN : check_latency(on)
  BY <1>6, ProberTyped, Zenon
<1>7. CASE \E p \in Paths : Elsewhere(p)
  BY <1>7, ElsewhereTyped, Zenon
<1>8. CASE UNCHANGED vars
  BY <1>8, StutterTyped, Zenon
<1>9. CASE LookUp
  BY <1>9, LookUpTyped, Zenon
<1>10. QED
  BY <1>1, <1>2, <1>3, <1>4, <1>5, <1>6, <1>7, <1>8, <1>9, Zenon DEF Next, Walk

\* In every state the types hold and the cursors of bgp_best_selection point at
\* distinct listed paths.
THEOREM WalkCorrect == Spec => []IInv
BY InitTyped, StepTyped, PTL DEF Spec

\* The list never holds a path twice, a removed path is never valid, and the
\* selected path is on the list.
THEOREM TypeCorrect == Spec => []TypeOK
<1>1. IInv => TypeOK
  BY Zenon DEF IInv
<1>2. QED
  BY <1>1, WalkCorrect, PTL


-----------------------------------------------------------------------------
(* The fastest path wins.                                                  *)

\* At the start each path holds an object of its own.
LEMMA InitDivided == Init => Divided
<1> SUFFICES ASSUME Init, NEW p \in Paths, NEW q \in Paths
             PROVE  q \in holders[p] <=> holders[q] = holders[p]
  BY Zenon DEF Divided
<1>1. holders[p] = {p} /\ holders[q] = {q}
  BY Zenon DEF Init
<1>2. QED
  BY <1>1, Zenon

\* Interning gives a path the object of others, or a new one.
LEMMA StepDivided == IInv /\ Divided /\ [Next]_vars => Divided'
<1> SUFFICES ASSUME IInv, Divided, [Next]_vars PROVE Divided'
  BY Zenon
<1>1. Listed \subseteq Paths
  BY UsableArePaths, Zenon DEF IInv
<1>2. ASSUME NEW p \in Paths, NEW a, bgp_path_info_store(p, a) PROVE Divided'
  <2>1. PICK t \in {{}} \cup {holders[q] : q \in {r \in Listed \ {p} : SameObject(r, p, a)}} :
            holders' = [q \in Paths |-> IF q \in t \cup {p} THEN t \cup {p}
                                                          ELSE holders[q] \ {p}]
    BY <1>2, Zenon DEF bgp_path_info_store, bgp_attr_intern
  <2>2. \A x, y \in Paths : x \in t => (y \in holders[x] <=> y \in t)
    <3>1. CASE t = {}
      BY <3>1, Zenon
    <3>2. CASE \E q \in Paths : t = holders[q]
      BY <3>2, Zenon DEF Divided
    <3>3. QED
      BY <1>1, <2>1, <3>1, <3>2, Zenon
  <2>3. SUFFICES ASSUME NEW x \in Paths, NEW y \in Paths
                 PROVE  y \in holders'[x] <=> holders'[y] = holders'[x]
    BY Zenon DEF Divided
  <2>4. /\ holders'[x] = IF x \in t \cup {p} THEN t \cup {p} ELSE holders[x] \ {p}
        /\ holders'[y] = IF y \in t \cup {p} THEN t \cup {p} ELSE holders[y] \ {p}
    BY <2>1, Zenon
  <2>5. x \in holders[x] /\ y \in holders[y] /\ (y \in holders[x] <=> holders[y] = holders[x])
    BY Zenon DEF Divided
  <2>6. CASE x \in t \cup {p} /\ y \in t \cup {p}
    BY <2>4, <2>6, Zenon
  <2>7. CASE x \in t \cup {p} /\ y \notin t \cup {p}
    <3>1. holders'[x] = t \cup {p} /\ holders'[y] = holders[y] \ {p}
      BY <2>4, <2>7, Zenon
    <3>2. p \in holders'[x] /\ p \notin holders'[y] /\ y \notin holders'[x]
      BY <2>7, <3>1, Zenon
    <3>3. QED
      BY <3>2, Zenon
  <2>8. CASE x \notin t \cup {p} /\ y \in t \cup {p}
    <3>1. holders'[x] = holders[x] \ {p} /\ holders'[y] = t \cup {p}
      BY <2>4, <2>8, Zenon
    <3>2. y \notin holders[x] \ {p}
      BY <2>2, <2>5, <2>8, Zenon
    <3>3. p \in holders'[y] /\ p \notin holders'[x] /\ y \notin holders'[x]
      BY <3>1, <3>2, Zenon
    <3>4. QED
      BY <3>3, Zenon
  <2>9. CASE x \notin t \cup {p} /\ y \notin t \cup {p}
    <3>1. holders'[x] = holders[x] \ {p} /\ holders'[y] = holders[y] \ {p}
      BY <2>4, <2>9, Zenon
    <3>2. y \in holders[y] \ {p}
      BY <2>5, <2>9, Zenon
    <3>3. y \in holders'[x] => y \in holders[x]
      BY <3>1, Zenon
    <3>4. y \in holders'[x] => holders'[y] = holders'[x]
      BY <2>5, <3>1, <3>3, Zenon
    <3>5. holders'[y] = holders'[x] => y \in holders'[x]
      BY <3>1, <3>2, Zenon
    <3>6. QED
      BY <3>4, <3>5, Zenon
  <2>10. QED
    BY <2>6, <2>7, <2>8, <2>9, Zenon
<1>3. CASE \E p \in Paths : bgp_update(p)
  BY <1>2, <1>3, Zenon DEF bgp_update
<1>4. CASE \E p \in Paths : vpn_leak_to_vrf_update(p)
  <2>1. \/ \E p \in Paths : \E a : bgp_path_info_store(p, a)
        \/ holders' = holders
    BY <1>4, Zenon DEF vpn_leak_to_vrf_update
  <2>2. QED
    BY <1>2, <2>1, Zenon DEF Divided
<1>5. CASE holders' = holders
  BY <1>5, Zenon DEF Divided
<1>6. QED
  <2>1. ASSUME NEW p \in Paths,
               \/ bgp_withdraw(p) \/ PeerDown(p) \/ bgp_clear_route_node(p) \/ PeerUp(p)
               \/ evaluate_paths(p) \/ Measure(p) \/ Elsewhere(p)
        PROVE  holders' = holders
    BY <2>1, Zenon DEF bgp_withdraw, PeerDown, PeerUp, bgp_clear_route_node, evaluate_paths,
                       Measure, Elsewhere, bgp_path_info_delete, table
  <2>2. ASSUME Walk \/ LookUp \/ (\E on \in BOOLEAN : check_latency(on)) \/ UNCHANGED vars
        PROVE  holders' = holders
    BY <2>2, Zenon DEF Walk, bgp_best_selection, DmedOuter, DmedInner, DmedGroupEnd, DmedEnd,
                SelectStep, SelectEnd, MpathStep, MpathEnd, bgp_process_main_one, SameWalk,
                LookUp, check_latency, vars, table
  <2>3. QED
    BY <1>3, <1>4, <1>5, <2>1, <2>2, Zenon DEF Next

\* A clear winner survives a comparison, whichever side it is on.
LEMMA WinnerSurvives ==
    ASSUME IInv, Divided, NEW f \in Paths, NEW l \in Latencies, ClearWinner(latency, f, l),
           NEW p \in EligiblePaths, Contend(p), f \in {p, new_select}, Looked(p, f, l)
    PROVE  new_select' = f
<1>1. /\ attr \in [Paths -> Attr] /\ latency \in [Paths -> Nat] /\ list \in Seq(Paths)
      /\ new_select # NULL => new_select \in EligiblePaths
      /\ NULL \notin Paths /\ new_latency \in Nat \cup {NULL}
  BY PathsAssumption, Zenon DEF IInv, TypeOK, WalkInv
<1>2. CASE new_select = NULL
  BY <1>1, <1>2, Zenon DEF Contend
<1>3. CASE new_select # NULL /\ p = new_select
  BY <1>3, Zenon DEF Contend
<1>4. CASE new_select # NULL /\ p # new_select /\ f = p
  <2>1. bgp_path_info_cmp(f, new_select)
    BY <1>1, <1>4, WinnerWins, Zenon
  <2>2. QED
    BY <1>4, <2>1, Zenon DEF Contend
<1>5. CASE new_select # NULL /\ p # new_select /\ f = new_select
  <2>1. ~bgp_path_info_cmp(p, f)
    BY <1>1, <1>5, WinnerWins, Zenon
  <2>2. QED
    BY <1>5, <2>1, Zenon DEF Contend
<1>6. QED
  BY <1>2, <1>3, <1>4, <1>5, Zenon

\* No step of a walk unseats a clear winner.
LEMMA WinnerKept ==
    ASSUME IInv, NEW f, NEW l, ClearWinner(latency, f, l),
           UNCHANGED <<prober, holders, valid, established>>,
           f \in Listed', Listed' \subseteq Listed,
           \A q \in Paths : attr'[q].llgr = attr[q].llgr
    PROVE  ClearWinner(latency, f, l)'
<1>1. \A q : Eligible(q)' = Eligible(q)
  BY Zenon DEF Eligible
<1>2. Listed \subseteq Paths
  BY UsableArePaths, Zenon DEF IInv
<1>3. enabled' = enabled /\ latency' = latency
  BY Zenon DEF prober
<1>4. QED
  BY <1>1, <1>2, <1>3, Zenon DEF ClearWinner

\* A clear winner is a usable path.
LEMMA WinnerUsable ==
    ASSUME IInv, NEW f, NEW l, ClearWinner(latency, f, l)
    PROVE  f \in Paths /\ f \in Listed /\ Eligible(f) /\ f \in EligiblePaths
BY UsableArePaths, Zenon DEF IInv, ClearWinner, EligiblePaths

\* The walk's steps that leave the list alone keep every clear winner in play.
LEMMA ScanFast ==
    ASSUME IInv, Divided, FastInv, SameWalk,
           \/ DmedOuter \/ DmedInner \/ DmedGroupEnd \/ DmedEnd
           \/ SelectEnd \/ MpathStep \/ MpathEnd
    PROVE  FastInv'
<1>1. /\ fastest' = fastest /\ list' = list /\ new_latency' = NULL
      /\ UNCHANGED <<prober, holders, valid, established>>
  BY Zenon DEF SameWalk, sessions
<1>2. Listed' = Listed
  BY <1>1, Zenon DEF Listed
<1>3. SUFFICES ASSUME NEW g \in fastest PROVE ClearWinner(latency, g[1], g[2])' /\ Ahead(g[1])'
  BY <1>1, Zenon DEF FastInv, Looked
<1>a. PICK f \in Paths, l \in Latencies : f = g[1] /\ l = g[2]
  <2>1. g \in Paths \X Latencies
    BY <1>3, Zenon DEF IInv, WalkInv
  <2>2. QED
    BY <2>1
<1>b. SUFFICES ClearWinner(latency, f, l)' /\ Ahead(f)'
  BY <1>a, Zenon
<1>4. /\ ClearWinner(latency, f, l) /\ Ahead(f)
      /\ phase \in {"inner", "select", "mpath"} /\ Rest # <<>> => Looked(Head(Rest), f, l)
  BY <1>3, <1>a, Zenon DEF FastInv
<1>5. f \in Paths /\ f \in Listed /\ Eligible(f) /\ f \in EligiblePaths
  BY <1>4, WinnerUsable, Zenon
<1>6. /\ attr \in [Paths -> Attr] /\ new_select \in Paths \cup {NULL}
      /\ todo \in Seq(Paths) /\ inner \in Seq(Paths)
      /\ Range(todo) \subseteq Listed /\ Range(inner) \subseteq Listed
      /\ new_select # NULL => new_select \in EligiblePaths
      /\ Listed \subseteq Paths
  BY UsableArePaths, Zenon DEF IInv, TypeOK, WalkInv
<1>7. todo # <<>> => /\ Range(todo) \subseteq {Head(todo)} \cup Range(Tail(todo))
                     /\ Head(todo) \in Listed
  BY <1>6, HeadTail, Zenon
<1>8. inner # <<>> => Head(inner) \in Listed
  BY <1>6, HeadTail, Zenon
<1>9. Range(<<>>) = {}
  BY SMTT(60) DEF Range
<1>10. ASSUME \A q \in Paths : attr'[q].llgr = attr[q].llgr PROVE ClearWinner(latency, f, l)'
  BY <1>1, <1>2, <1>4, <1>5, <1>10, WinnerKept, Zenon
<1>11. CASE DmedOuter
  <2>1. phase = "dmed" /\ todo # <<>> /\ UNCHANGED <<attr, check, dmed>>
    BY <1>11, Zenon DEF DmedOuter
  <2>2. f \in dmed \/ (f \in Range(todo) /\ f \notin check)
    BY <1>4, <2>1, Zenon DEF Ahead
  <2>3. CASE Head(todo) \in check \/ ~Eligible(Head(todo))
    <3>1. todo' = Tail(todo) /\ phase' = "dmed"
      BY <1>11, <2>1, <2>3, Zenon DEF DmedOuter
    <3>2. Ahead(f)'
      BY <1>5, <1>7, <2>1, <2>2, <2>3, <3>1, Zenon DEF Ahead
    <3>3. QED
      BY <1>10, <2>1, <3>2, Zenon
  <2>4. CASE ~(Head(todo) \in check \/ ~Eligible(Head(todo)))
    <3>1. new_select' = Head(todo) /\ todo' = todo /\ phase' = "inner"
      BY <1>11, <2>1, <2>4, Zenon DEF DmedOuter
    <3>2. Ahead(f)'
      BY <1>7, <2>1, <2>2, <3>1, Zenon DEF Ahead
    <3>3. QED
      BY <1>10, <2>1, <3>2, Zenon
  <2>5. QED
    BY <2>3, <2>4, Zenon
<1>12. CASE DmedInner
  <2>1. phase = "inner" /\ inner # <<>> /\ UNCHANGED <<phase, todo, dmed>>
    BY <1>12, Zenon DEF DmedInner
  <2>2. f \in dmed \/ f = new_select \/ (f \in Range(Tail(todo)) /\ f \notin check)
    BY <1>4, <2>1, Zenon DEF Ahead
  <2>3. CASE UNCHANGED <<attr, new_select, check>>
    <3>1. Ahead(f)'
      BY <2>1, <2>2, <2>3, Zenon DEF Ahead
    <3>2. QED
      BY <1>10, <2>3, <3>1, Zenon
  <2>4. CASE /\ Eligible(Head(inner)) /\ Contend(Head(inner))
             /\ check' = check \cup {Head(inner)}
    <3>1. Head(inner) \in EligiblePaths /\ Head(inner) \in Paths
      BY <1>6, <1>8, <2>1, <2>4, Zenon DEF EligiblePaths
    <3>2. \A q \in Paths : attr'[q].llgr = attr[q].llgr
      BY <1>6, <2>4, <3>1, ContendStep, Zenon
    <3>3. f \in {Head(inner), new_select} => new_select' = f
      <4>1. Looked(Head(inner), f, l)
        BY <1>4, <2>1, Zenon DEF Rest
      <4>2. QED
        BY <1>4, <1>5, <2>4, <3>1, <4>1, WinnerSurvives, Zenon
    <3>4. Ahead(f)'
      BY <2>1, <2>2, <2>4, <3>3, Zenon DEF Ahead
    <3>5. QED
      BY <1>10, <3>2, <3>4, Zenon
  <2>5. QED
    BY <1>12, <2>3, <2>4, Zenon DEF DmedInner
<1>13. CASE DmedGroupEnd
  <2>1. /\ phase = "inner" /\ phase' = "dmed" /\ todo' = Tail(todo) /\ attr' = attr
        /\ check' = check \cup {new_select} /\ dmed' = dmed \cup {new_select}
    BY <1>13, Zenon DEF DmedGroupEnd
  <2>2. Ahead(f)'
    BY <1>4, <2>1, Zenon DEF Ahead
  <2>3. QED
    BY <1>10, <2>1, <2>2, Zenon
<1>14. CASE DmedEnd
  <2>1. /\ phase = "dmed" /\ todo = <<>> /\ phase' = "select" /\ todo' = list
        /\ UNCHANGED <<attr, dmed>>
    BY <1>14, Zenon DEF DmedEnd
  <2>2. Ahead(f)'
    BY <1>4, <1>5, <1>9, <2>1, Zenon DEF Ahead, Listed
  <2>3. QED
    BY <1>10, <2>1, <2>2, Zenon
<1>15. CASE SelectEnd
  <2>1. /\ phase = "select" /\ todo = <<>> /\ phase' \in {"mpath", "end"}
        /\ UNCHANGED <<attr, new_select>>
    BY <1>15, Zenon DEF SelectEnd
  <2>2. Ahead(f)'
    BY <1>4, <1>9, <2>1, Zenon DEF Ahead
  <2>3. QED
    BY <1>10, <2>1, <2>2, Zenon
<1>16. CASE MpathStep
  <2>1. phase = "mpath" /\ todo # <<>> /\ UNCHANGED <<phase, new_select>> /\ new_select # NULL
    BY <1>16, Zenon DEF MpathStep, IInv, WalkInv
  <2>2. attr' = attr \/ attr' = AttrAfter(Head(todo), new_select)
    BY <1>16, Zenon DEF MpathStep
  <2>3. Head(todo) \in Paths /\ new_select \in Paths
    BY <1>6, <1>7, <2>1, Zenon
  <2>4. \A q \in Paths : attr'[q].llgr = attr[q].llgr
    BY <1>6, <2>2, <2>3, WeightsOnly, SMTT(60)
  <2>5. Ahead(f)'
    BY <1>4, <2>1, Zenon DEF Ahead
  <2>6. QED
    BY <1>10, <2>4, <2>5, Zenon
<1>17. CASE MpathEnd
  <2>1. phase = "mpath" /\ phase' = "end" /\ UNCHANGED <<attr, new_select>>
    BY <1>17, Zenon DEF MpathEnd
  <2>2. Ahead(f)'
    BY <1>4, <2>1, Zenon DEF Ahead
  <2>3. QED
    BY <1>10, <2>1, <2>2, Zenon
<1>18. QED
  BY <1>11, <1>12, <1>13, <1>14, <1>15, <1>16, <1>17, Zenon

\* A step of the selection: the path taken off the list is not the winner.
LEMMA SelectFast ==
    ASSUME IInv, Divided, FastInv, SelectStep
    PROVE  FastInv'
<1> DEFINE p == Head(todo)
           dead == IF p \in removed /\ p \notin valid /\ p # selected THEN p ELSE NULL
<1>1. /\ phase = "select" /\ todo # <<>> /\ todo' = Tail(todo)
      /\ bgp_path_info_reap(dead)
      /\ new_latency' = NULL
      /\ UNCHANGED <<prober, holders, valid, sessions, phase, dmed, fastest>>
  BY Zenon DEF SelectStep
<1>2. /\ dead \notin valid \/ dead = NULL
      /\ dead \in {p, NULL}
  BY Zenon
<1> HIDE DEF dead
<1>3. Listed' = Listed \ {dead} /\ NULL \notin Listed /\ Listed \subseteq Paths
  BY <1>1, ReapStep, UsableArePaths, Zenon DEF IInv, TypeOK
<1>4. SUFFICES ASSUME NEW g \in fastest PROVE ClearWinner(latency, g[1], g[2])' /\ Ahead(g[1])'
  BY <1>1, Zenon DEF FastInv, Looked
<1>a. PICK f \in Paths, l \in Latencies : f = g[1] /\ l = g[2]
  <2>1. g \in Paths \X Latencies
    BY <1>4, Zenon DEF IInv, WalkInv
  <2>2. QED
    BY <2>1
<1>b. SUFFICES ClearWinner(latency, f, l)' /\ Ahead(f)'
  BY <1>a, Zenon
<1>5. /\ ClearWinner(latency, f, l) /\ Ahead(f)
      /\ phase \in {"inner", "select", "mpath"} /\ Rest # <<>> => Looked(Head(Rest), f, l)
  BY <1>4, <1>a, Zenon DEF FastInv
<1>6. f \in Paths /\ f \in Listed /\ Eligible(f) /\ f \in EligiblePaths
  BY <1>5, WinnerUsable, Zenon
<1>7. f \in Listed' /\ Listed' \subseteq Listed
  BY <1>2, <1>3, <1>6, Zenon DEF Eligible
<1>8. p \in Listed /\ Range(todo) \subseteq {p} \cup Range(Tail(todo))
  BY <1>1, HeadTail, Zenon DEF IInv, TypeOK, WalkInv
<1>9. f = new_select \/ (f \in Range(todo) /\ (DETERMINISTIC_MED => f \in dmed))
  BY <1>1, <1>5, Zenon DEF Ahead
<1>10. ASSUME \A q \in Paths : attr'[q].llgr = attr[q].llgr PROVE ClearWinner(latency, f, l)'
  <2>1. UNCHANGED <<prober, holders, valid, established>>
    BY <1>1, Zenon DEF sessions
  <2>2. QED
    BY <1>5, <1>7, <1>10, <2>1, WinnerKept, Zenon
<1>11. CASE Eligible(p) /\ (DETERMINISTIC_MED => p \in dmed)
  <2>1. Contend(p)
    BY <1>11, Zenon DEF SelectStep
  <2>2. p \in EligiblePaths /\ p \in Paths
    BY <1>3, <1>8, <1>11, Zenon DEF EligiblePaths
  <2>l. Looked(p, f, l)
    BY <1>1, <1>5, Zenon DEF Rest
  <2> HIDE DEF p
  <2>3. \A q \in Paths : attr'[q].llgr = attr[q].llgr
    BY <2>1, <2>2, ContendStep, Zenon DEF IInv, TypeOK
  <2>4. f \in {p, new_select} => new_select' = f
    BY <1>5, <1>6, <2>1, <2>2, <2>l, WinnerSurvives, Zenon
  <2>5. Ahead(f)'
    BY <1>1, <1>8, <1>9, <2>4, Zenon DEF Ahead
  <2>6. QED
    BY <1>10, <2>3, <2>5, Zenon
<1>12. CASE ~(Eligible(p) /\ (DETERMINISTIC_MED => p \in dmed))
  <2>1. UNCHANGED <<attr, new_select>>
    BY <1>12, Zenon DEF SelectStep
  <2> HIDE DEF p
  <2>2. Ahead(f)'
    BY <1>1, <1>6, <1>8, <1>9, <1>12, <2>1, Zenon DEF Ahead
  <2>3. QED
    BY <1>10, <2>1, <2>2, Zenon
<1>13. QED
  BY <1>11, <1>12, Zenon

\* No path is a clear winner before the first walk.
LEMMA InitFast == Init => FastInv
BY Zenon DEF Init, FastInv

\* Every step keeps the clear winners in play.
LEMMA StepFast == IInv /\ Divided /\ FastInv /\ [Next]_vars => FastInv'
<1> SUFFICES ASSUME IInv, Divided, FastInv, [Next]_vars PROVE FastInv'
  BY Zenon
<1>1. CASE bgp_best_selection
  <2>1. /\ todo' = list /\ check' = {} /\ new_latency' = NULL
        /\ phase' = IF DETERMINISTIC_MED THEN "dmed" ELSE "select"
        /\ fastest' = {f \in Listed \X Latencies : ClearWinner(latency, f[1], f[2])}
        /\ UNCHANGED <<table, sessions, prober>>
    BY <1>1, Zenon DEF bgp_best_selection
  <2>2. SUFFICES ASSUME NEW f \in Listed, NEW l \in Latencies, ClearWinner(latency, f, l)
                 PROVE  ClearWinner(latency, f, l)' /\ Ahead(f)'
    <3>1. \A f \in fastest' :
              /\ f[1] \in Listed /\ f[2] \in Latencies
              /\ ClearWinner(latency, f[1], f[2])
      <4>1. \A f \in Listed \X Latencies : f[1] \in Listed /\ f[2] \in Latencies
        OBVIOUS
      <4>2. QED
        BY <2>1, <4>1, Zenon
    <3>2. QED
      BY <2>1, <3>1, Zenon DEF FastInv, Looked
  <2>3. Listed' = Listed
    BY <2>1, Zenon DEF table, Listed
  <2>4. ClearWinner(latency, f, l)'
    BY <2>1, <2>2, <2>3, WinnerKept, Zenon DEF table, sessions
  <2>5. Ahead(f)'
    BY <2>1, <2>2, SwitchesAssumption, Zenon DEF Ahead, Listed
  <2>6. QED
    BY <2>4, <2>5, Zenon
<1>2. CASE \/ DmedOuter \/ DmedInner \/ DmedGroupEnd \/ DmedEnd
           \/ SelectEnd \/ MpathStep \/ MpathEnd
  <2>1. SameWalk
    BY <1>2, Zenon DEF DmedOuter, DmedInner, DmedGroupEnd, DmedEnd, SelectEnd, MpathStep, MpathEnd
  <2>2. QED
    BY <1>2, <2>1, ScanFast, Zenon
<1>3. CASE SelectStep
  BY <1>3, SelectFast, Zenon
<1>4. CASE bgp_process_main_one
  <2>1. fastest' = {}
    BY <1>4, Zenon DEF bgp_process_main_one
  <2>2. QED
    BY <2>1, Zenon DEF FastInv
<1>5. CASE Idle /\ UNCHANGED walk
  <2>1. fastest' = {}
    BY <1>5, Zenon DEF IInv, WalkInv, walk
  <2>2. QED
    BY <2>1, Zenon DEF FastInv
<1>6. CASE \E p \in Paths : Measure(p)
  <2>1. /\ fastest' = {f \in fastest : ClearWinner(latency', f[1], f[2])}
        /\ UNCHANGED <<table, sessions, enabled, phase, todo, inner, new_latency, new_select,
                       check, dmed>>
    BY <1>6, Zenon DEF Measure
  <2>2. SUFFICES ASSUME NEW f \in fastest, ClearWinner(latency', f[1], f[2])
                 PROVE  /\ ClearWinner(latency, f[1], f[2])' /\ Ahead(f[1])'
                        /\ phase' \in {"inner", "select", "mpath"} /\ Rest' # <<>> =>
                               Looked(Head(Rest), f[1], f[2])'
    BY <2>1, Zenon DEF FastInv
  <2>3. /\ Ahead(f[1])
        /\ phase \in {"inner", "select", "mpath"} /\ Rest # <<>> =>
               Looked(Head(Rest), f[1], f[2])
    BY <2>2, Zenon DEF FastInv
  <2>4. Ahead(f[1])'
    BY <2>1, <2>3, Zenon DEF Ahead
  <2>5. ClearWinner(latency, f[1], f[2])'
    BY <2>1, <2>2, Zenon DEF ClearWinner, Listed, Eligible, table, sessions
  <2>6. phase' \in {"inner", "select", "mpath"} /\ Rest' # <<>> => Looked(Head(Rest), f[1], f[2])'
    BY <2>1, <2>3, Zenon DEF Looked, Rest
  <2>7. QED
    BY <2>4, <2>5, <2>6, Zenon
<1>7. CASE LookUp \/ UNCHANGED vars
  <2>1. UNCHANGED <<table, sessions, prober, phase, todo, inner, new_select, check, dmed, fastest>>
    BY <1>7, Zenon DEF LookUp, vars, walk
  <2>2. SUFFICES ASSUME NEW f \in fastest
                 PROVE  /\ ClearWinner(latency, f[1], f[2])' /\ Ahead(f[1])'
                        /\ phase' \in {"inner", "select", "mpath"} /\ Rest' # <<>> =>
                               Looked(Head(Rest), f[1], f[2])'
    BY <2>1, Zenon DEF FastInv
  <2>3. /\ ClearWinner(latency, f[1], f[2]) /\ Ahead(f[1])
        /\ phase \in {"inner", "select", "mpath"} /\ Rest # <<>> =>
               Looked(Head(Rest), f[1], f[2])
    BY <2>2, Zenon DEF FastInv
  <2>4. ClearWinner(latency, f[1], f[2])' /\ Ahead(f[1])'
    BY <2>1, <2>3, Zenon DEF ClearWinner, Ahead, Listed, Eligible, table, sessions, prober
  <2>5. Rest' = Rest
    BY <2>1, Zenon DEF Rest
  <2>6. CASE UNCHANGED vars
    <3>1. new_latency' = new_latency
      BY <2>6, Zenon DEF vars, walk
    <3>2. QED
      BY <2>1, <2>3, <2>4, <2>5, <3>1, Zenon DEF Looked
  <2>7. CASE LookUp
    <3>1. Eligible(Head(Rest)) /\ new_latency' = latency[Head(Rest)] /\ Rest # <<>>
      BY <2>7, Zenon DEF LookUp
    <3>2. Head(Rest) \in Listed
      <4>1. Rest \in Seq(Paths) /\ Range(Rest) \subseteq Listed
        BY Zenon DEF Rest, IInv, TypeOK, WalkInv
      <4>2. QED
        BY <3>1, <4>1, HeadTail, Zenon
    <3>3. IF Head(Rest) = f[1] THEN latency[Head(Rest)] <= f[2]
          ELSE /\ f[2] + damping_threshold < latency[Head(Rest)]
               /\ latency[Head(Rest)] # UINT32_MAX
      BY <2>3, <3>1, <3>2, Zenon DEF ClearWinner
    <3>4. Looked(Head(Rest), f[1], f[2])'
      BY <2>5, <3>1, <3>3, Zenon DEF Looked
    <3>5. QED
      BY <2>4, <3>4, Zenon
  <2>8. QED
    BY <1>7, <2>6, <2>7, Zenon
<1>8. QED
  <2>1. ASSUME NEW p \in Paths,
               \/ bgp_update(p) \/ vpn_leak_to_vrf_update(p) \/ bgp_withdraw(p)
               \/ PeerDown(p) \/ bgp_clear_route_node(p) \/ PeerUp(p)
               \/ evaluate_paths(p) \/ Elsewhere(p)
        PROVE  Idle /\ UNCHANGED walk
    BY <2>1, Zenon DEF Elsewhere, bgp_update, vpn_leak_to_vrf_update, bgp_withdraw, PeerDown, PeerUp,
                bgp_clear_route_node, evaluate_paths, bgp_path_info_store, bgp_path_info_delete
  <2>2. ASSUME NEW on \in BOOLEAN, check_latency(on)
        PROVE  Idle /\ UNCHANGED walk
    BY <2>2, Zenon DEF check_latency
  <2>3. QED
    BY <1>1, <1>2, <1>3, <1>4, <1>5, <1>6, <1>7, <2>1, <2>2, Zenon DEF Next, Walk

\* A path that stayed faster than every other usable one by more than the
\* threshold throughout the walk is the one bgp_best_selection ends with, although
\* bgp_path_info_cmp looks the two latencies up one after the other, unless it
\* shares its struct attr with one of them.
THEOREM FastestSelected == Spec => []FastestWins
<1>1. IInv /\ FastInv => FastestWins
  BY Zenon DEF FastInv, Ahead, FastestWins
<1>2. Spec => []FastInv
  BY InitDivided, StepDivided, InitFast, StepFast, WalkCorrect, PTL DEF Spec
<1>3. QED
  BY <1>1, <1>2, WalkCorrect, PTL

-----------------------------------------------------------------------------
(* What zebra has been told, and whether it can be used.                   *)

\* the paths the installed route goes over
Installed == {selected} \cup multipath

\* zebra's copy agrees with the table, but for paths flagged as changed
Told ==
    IF selected = NULL THEN fib = NULL
    ELSE IF Peer[selected].kind = "static" THEN fib = NULL
    ELSE /\ fib = [best |-> selected, attrs |-> fib.attrs]
         /\ fib.attrs = [p \in Installed |-> fib.attrs[p]]
         /\ \A p \in Installed \cap Listed :
                p \notin changed => fib.attrs[p] = Strip(attr[p])

\* Zebra's copy is right, and nothing it shows is flagged unless a walk is due.
FibInv ==
    /\ Idle => multipath \subseteq Listed
    /\ Told
    /\ ~scheduled => changed \cap Installed = {}

\* usable, or usable until its queued removal
Lingering == {p \in Listed : p \in valid /\ (HasSession(p) => p \in established \cup clearing)}

UsableInv ==
    /\ \A p \in Listed \ established : HasSession(p) => p \in clearing \cup removed
    /\ Idle /\ ~scheduled =>
           /\ selected = NULL => Lingering \subseteq clearing
           /\ selected # NULL => Installed \subseteq Lingering

\* No usable path is lost on the way to the end of the walk.
ScanInv ==
    /\ phase = "dmed" => dmed # {} \/ (check = {} /\ EligiblePaths \subseteq Range(todo))
    /\ phase = "select" /\ DETERMINISTIC_MED =>
           /\ EligiblePaths # {} => dmed # {}
           /\ new_select = NULL => dmed \subseteq Range(todo)
    /\ phase = "select" /\ ~DETERMINISTIC_MED /\ new_select = NULL =>
           EligiblePaths \subseteq Range(todo)
    /\ phase = "end" /\ new_select = NULL => EligiblePaths = {}

-----------------------------------------------------------------------------
(* No usable path is lost.                                                 *)

\* The scan has nothing to keep between two walks.
LEMMA InitScan == Init => ScanInv
BY Zenon DEF Init, ScanInv

\* Every step keeps the usable paths ahead of the walk until one is picked.
LEMMA StepScan == IInv /\ ScanInv /\ [Next]_vars => ScanInv'
<1> SUFFICES ASSUME IInv, ScanInv, [Next]_vars PROVE ScanInv'
  BY Zenon
<1>1. /\ todo \in Seq(Paths) /\ list \in Seq(Paths) /\ EligiblePaths \subseteq Range(list)
      /\ dmed \subseteq EligiblePaths /\ dmed \subseteq Range(list)
      /\ Listed \subseteq Paths /\ NULL \notin Listed
  BY UsableArePaths, Zenon DEF IInv, TypeOK, WalkInv, Listed
<1>2. todo # <<>> => /\ Range(todo) \subseteq {Head(todo)} \cup Range(Tail(todo))
                     /\ Head(todo) \in Listed
  BY <1>1, HeadTail, Zenon DEF IInv, WalkInv
<1>3. Range(<<>>) = {}
  BY DEF Range
<1>4. ASSUME SameWalk PROVE EligiblePaths' = EligiblePaths
  BY <1>4, SameEligible, Zenon DEF SameWalk, sessions
<1>5. CASE bgp_best_selection
  <2>1. /\ phase' = IF DETERMINISTIC_MED THEN "dmed" ELSE "select"
        /\ todo' = list /\ check' = {}
        /\ UNCHANGED <<table, sessions>>
    BY <1>5, Zenon DEF bgp_best_selection
  <2>2. EligiblePaths' = EligiblePaths
    BY <2>1, SameEligible, Zenon DEF table, sessions
  <2>3. QED
    BY <1>1, <2>1, <2>2, SwitchesAssumption, Zenon DEF ScanInv
<1>6. CASE DmedOuter
  <2>1. phase = "dmed" /\ todo # <<>> /\ UNCHANGED <<check, dmed>> /\ EligiblePaths' = EligiblePaths
    BY <1>4, <1>6, Zenon DEF DmedOuter
  <2>2. \/ phase' = "inner"
        \/ /\ phase' = "dmed" /\ todo' = Tail(todo)
           /\ Head(todo) \in check \/ ~Eligible(Head(todo))
    BY <1>6, <2>1, Zenon DEF DmedOuter
  <2>3. Head(todo) \in EligiblePaths => Eligible(Head(todo))
    BY Zenon DEF EligiblePaths
  <2>4. QED
    BY <1>2, <2>1, <2>2, <2>3, Zenon DEF ScanInv
<1>7. CASE DmedInner
  BY <1>7, Zenon DEF DmedInner, ScanInv
<1>8. CASE DmedGroupEnd
  BY <1>8, Zenon DEF DmedGroupEnd, ScanInv
<1>9. CASE DmedEnd
  <2>1. /\ phase = "dmed" /\ todo = <<>> /\ phase' = "select" /\ todo' = list
        /\ dmed' = dmed /\ EligiblePaths' = EligiblePaths
    BY <1>4, <1>9, Zenon DEF DmedEnd
  <2>2. EligiblePaths # {} => dmed # {}
    BY <1>3, <2>1, Zenon DEF ScanInv
  <2>3. QED
    BY <1>1, <2>1, <2>2, Zenon DEF ScanInv
<1>10. CASE SelectStep
  <2> DEFINE p == Head(todo)
             dead == IF p \in removed /\ p \notin valid /\ p # selected THEN p ELSE NULL
  <2>1. /\ phase = "select" /\ todo # <<>> /\ todo' = Tail(todo) /\ phase' = phase
        /\ dmed' = dmed /\ valid' = valid /\ established' = established
        /\ bgp_path_info_reap(dead)
    BY <1>10, Zenon DEF SelectStep, sessions
  <2>2. dead \notin valid \/ dead = NULL
    BY Zenon
  <2>3. IF Eligible(p) /\ (DETERMINISTIC_MED => p \in dmed)
        THEN Contend(p) ELSE new_select' = new_select
    BY <1>10, Zenon DEF SelectStep
  <2>4. p \in Paths /\ p \in Listed /\ Range(todo) \subseteq {p} \cup Range(Tail(todo))
    BY <1>1, <1>2, <2>1, Zenon
  <2> HIDE DEF dead, p
  <2>5. Listed' = Listed \ {dead}
    BY <2>1, ReapStep, Zenon DEF IInv, TypeOK
  <2>6. EligiblePaths' = EligiblePaths
    BY <1>1, <2>1, <2>2, <2>5, Zenon DEF EligiblePaths, Eligible
  <2>7. CASE Eligible(p) /\ (DETERMINISTIC_MED => p \in dmed)
    <3>1. new_select' # NULL
      BY <2>3, <2>4, <2>7, ContendStep, Zenon DEF IInv, TypeOK
    <3>2. QED
      BY <2>1, <2>6, <3>1, Zenon DEF ScanInv
  <2>8. CASE ~(Eligible(p) /\ (DETERMINISTIC_MED => p \in dmed))
    <3>1. new_select' = new_select
      BY <2>3, <2>8, Zenon
    <3>2. p \in EligiblePaths => Eligible(p)
      BY Zenon DEF EligiblePaths
    <3>3. QED
      BY <1>1, <2>1, <2>4, <2>6, <2>8, <3>1, <3>2, Zenon DEF ScanInv
  <2>9. QED
    BY <2>7, <2>8, Zenon
<1>11. CASE SelectEnd
  <2>1. /\ phase = "select" /\ todo = <<>> /\ EligiblePaths' = EligiblePaths
        /\ new_select' = new_select
        /\ phase' = "end" \/ phase' = "mpath"
    BY <1>4, <1>11, Zenon DEF SelectEnd
  <2>2. new_select = NULL => EligiblePaths = {}
    BY <1>3, <2>1, SwitchesAssumption, Zenon DEF ScanInv
  <2>3. QED
    BY <2>1, <2>2, Zenon DEF ScanInv
<1>12. CASE MpathStep \/ MpathEnd
  <2>1. /\ phase = "mpath" /\ new_select # NULL /\ new_select' = new_select
        /\ phase' \in {"mpath", "end"}
    BY <1>12, Zenon DEF MpathStep, MpathEnd, IInv, WalkInv
  <2>2. QED
    BY <2>1, Zenon DEF ScanInv
<1>13. CASE phase' = "idle"
  BY <1>13, Zenon DEF ScanInv
<1>14. CASE \E p \in Paths : Measure(p)
  <2>1. UNCHANGED <<table, sessions, phase, todo, new_select, check, dmed>>
    BY <1>14, Zenon DEF Measure
  <2>2. EligiblePaths' = EligiblePaths
    BY <2>1, SameEligible, Zenon DEF table, sessions
  <2>3. QED
    BY <2>1, <2>2, Zenon DEF ScanInv
<1>15. CASE LookUp \/ UNCHANGED vars
  <2>1. UNCHANGED <<table, sessions, phase, todo, new_select, check, dmed>>
    BY <1>15, Zenon DEF LookUp, vars, walk
  <2>2. EligiblePaths' = EligiblePaths
    BY <2>1, SameEligible, Zenon DEF table, sessions
  <2>3. QED
    BY <2>1, <2>2, Zenon DEF ScanInv
<1>16. QED
  <2>1. ASSUME NEW p \in Paths,
               \/ bgp_update(p) \/ vpn_leak_to_vrf_update(p) \/ bgp_withdraw(p)
               \/ PeerDown(p) \/ bgp_clear_route_node(p) \/ PeerUp(p)
               \/ evaluate_paths(p) \/ Elsewhere(p)
        PROVE  phase' = "idle"
    BY <2>1, Zenon DEF Elsewhere, bgp_update, vpn_leak_to_vrf_update, bgp_withdraw, PeerDown, PeerUp, Idle, walk,
                bgp_clear_route_node, evaluate_paths, bgp_path_info_store, bgp_path_info_delete
  <2>2. ASSUME NEW on \in BOOLEAN, check_latency(on)
        PROVE  phase' = "idle"
    BY <2>2, Zenon DEF check_latency, Idle, walk
  <2>3. bgp_process_main_one => phase' = "idle"
    BY Zenon DEF bgp_process_main_one
  <2>4. QED
    BY <1>5, <1>6, <1>7, <1>8, <1>9, <1>10, <1>11, <1>12, <1>13, <1>14, <1>15,
       <2>1, <2>2, <2>3, Zenon DEF Next, Walk

\* In every state some usable path is still ahead of the walk, or one has been
\* picked, or there is none.
THEOREM ScanComplete == Spec => []ScanInv
BY InitScan, StepScan, WalkCorrect, PTL DEF Spec


-----------------------------------------------------------------------------
(* The route in place can be used.                                         *)

\* Nothing is listed at the start.
LEMMA InitUsable == Init => UsableInv
<1> SUFFICES ASSUME Init PROVE UsableInv
  BY Zenon
<1>1. Listed = {}
  BY DEF Init, Listed, Range
<1>2. QED
  BY <1>1, Zenon DEF Init, UsableInv, Lingering

\* A path stored schedules the destination, and its session is up.
LEMMA StoreUsable ==
    ASSUME IInv, UsableInv, NEW p \in Paths, NEW a, bgp_path_info_store(p, a),
           HasSession(p) => p \in established
    PROVE  UsableInv'
<1>1. /\ removed' = removed \ {p} /\ scheduled' = TRUE
      /\ established' = established /\ clearing' = clearing
  BY Zenon DEF bgp_path_info_store, sessions
<1>2. Listed' \subseteq Listed \cup {p}
  <2>1. CASE p \in Listed
    BY <2>1, Zenon DEF bgp_path_info_store, Listed
  <2>2. CASE p \notin Listed
    <3>1. list' = <<p>> \o list
      BY <2>2, Zenon DEF bgp_path_info_store
    <3>2. QED
      BY <2>2, <3>1, AtHead DEF IInv, TypeOK, Listed
  <2>3. QED
    BY <2>1, <2>2, Zenon
<1>3. QED
  BY <1>1, <1>2, Zenon DEF UsableInv

\* So does a path deleted, which stays on the list until the walk.
LEMMA DeleteUsable ==
    ASSUME UsableInv, NEW p, bgp_path_info_delete(p),
           established' = established, clearing \ {p} \subseteq clearing'
    PROVE  UsableInv'
<1>1. removed' = removed \cup {p} /\ scheduled' = TRUE /\ list' = list
  BY Zenon DEF bgp_path_info_delete
<1>2. Listed' = Listed
  BY <1>1, Zenon DEF Listed
<1>3. QED
  BY <1>1, <1>2, Zenon DEF UsableInv

\* What happens between two walks leaves a usable route, or schedules a walk.
LEMMA TableUsable ==
    ASSUME IInv, UsableInv, NEW p \in Paths,
           \/ bgp_update(p) \/ vpn_leak_to_vrf_update(p) \/ bgp_withdraw(p)
           \/ PeerDown(p) \/ bgp_clear_route_node(p) \/ PeerUp(p)
           \/ evaluate_paths(p)
    PROVE  UsableInv'
<1>1. /\ \A q \in Listed \ established : HasSession(q) => q \in clearing \cup removed
      /\ removed \cap valid = {}
  BY Zenon DEF UsableInv, IInv, TypeOK
<1>2. CASE bgp_update(p)
  BY <1>2, StoreUsable, Zenon DEF bgp_update
<1>3. CASE vpn_leak_to_vrf_update(p)
  <2>1. ~HasSession(p)
    BY <1>3, Zenon DEF vpn_leak_to_vrf_update, HasSession
  <2>2. CASE \E a : bgp_path_info_store(p, a)
    BY <2>1, <2>2, StoreUsable, Zenon
  <2>3. CASE UNCHANGED <<list, removed, valid, scheduled, chosen, sessions, walk>>
    BY <2>3, Zenon DEF UsableInv, Lingering, Listed, Installed, Idle, chosen, sessions, walk
  <2>4. QED
    BY <1>3, <2>2, <2>3, Zenon DEF vpn_leak_to_vrf_update
<1>4. CASE bgp_withdraw(p)
  <2>1. bgp_path_info_delete(p) /\ established' = established /\ clearing' = clearing
    BY <1>4, Zenon DEF bgp_withdraw, sessions
  <2>2. QED
    BY <2>1, DeleteUsable, Zenon
<1>5. CASE PeerDown(p)
  <2>1. /\ UNCHANGED <<list, valid, removed, selected, multipath, scheduled, phase>>
        /\ established' = established \ {p}
        /\ clearing' = IF p \in Listed THEN clearing \cup {p} ELSE clearing
        /\ p \in established
    BY <1>5, Zenon DEF PeerDown, table, chosen, walk
  <2>2. Listed' = Listed /\ Installed' = Installed
    BY <2>1, Zenon DEF Listed, Installed
  <2>3. Lingering' = Lingering
    BY <2>1, <2>2, Zenon DEF Lingering
  <2>4. QED
    BY <2>1, <2>2, <2>3, Zenon DEF UsableInv, Idle
<1>6. CASE bgp_clear_route_node(p)
  <2>1. p \in clearing /\ clearing' = clearing \ {p} /\ established' = established
    BY <1>6, Zenon DEF bgp_clear_route_node
  <2>2. CASE p \in Listed
    <3>1. bgp_path_info_delete(p)
      BY <1>6, <2>2, Zenon DEF bgp_clear_route_node
    <3>2. QED
      BY <2>1, <3>1, DeleteUsable, Zenon
  <2>3. CASE p \notin Listed
    <3>1. UNCHANGED <<list, valid, removed, selected, multipath, scheduled, phase>>
      BY <1>6, <2>3, Zenon DEF bgp_clear_route_node, table, chosen, walk
    <3>2. Listed' = Listed /\ Installed' = Installed
      BY <3>1, Zenon DEF Listed, Installed
    <3>3. Lingering' = Lingering /\ p \notin Lingering
      BY <2>1, <2>3, <3>1, <3>2, Zenon DEF Lingering
    <3>4. QED
      BY <2>1, <2>3, <3>1, <3>2, <3>3, Zenon DEF UsableInv, Idle
  <2>4. QED
    BY <2>2, <2>3, Zenon
<1>7. CASE PeerUp(p)
  <2>1. /\ UNCHANGED <<list, valid, removed, selected, multipath, scheduled, phase, clearing>>
        /\ established' = established \cup {p}
        /\ p \notin established \cup clearing /\ HasSession(p)
    BY <1>7, Zenon DEF PeerUp, table, chosen, walk
  <2>2. Listed' = Listed /\ Installed' = Installed
    BY <2>1, Zenon DEF Listed, Installed
  <2>3. p \in Listed => p \notin valid
    BY <1>1, <2>1, Zenon
  <2>4. Lingering' = Lingering
    BY <2>1, <2>2, <2>3, Zenon DEF Lingering
  <2>5. QED
    BY <2>1, <2>2, <2>4, Zenon DEF UsableInv, Idle
<1>8. CASE evaluate_paths(p)
  <2>1. /\ UNCHANGED <<list, removed, established, clearing>> /\ scheduled' = TRUE
    BY <1>8, Zenon DEF evaluate_paths, sessions
  <2>2. QED
    BY <2>1, Zenon DEF UsableInv, Listed
<1>9. QED
  BY <1>2, <1>3, <1>4, <1>5, <1>6, <1>7, <1>8, Zenon

\* A step in the middle of a walk.
LEMMA WalkUsable ==
    ASSUME UsableInv, ~Idle', established' = established, clearing' = clearing,
           \/ list' = list /\ removed' = removed
           \/ IInv /\ \E p : bgp_path_info_reap(p)
    PROVE  UsableInv'
<1>1. CASE list' = list /\ removed' = removed
  BY <1>1, Zenon DEF UsableInv, Listed
<1>2. CASE IInv /\ \E p : bgp_path_info_reap(p)
  <2>1. PICK p : bgp_path_info_reap(p)
    BY <1>2, Zenon
  <2>2. Listed' = Listed \ {p} /\ removed' = removed \ {p}
    BY <1>2, <2>1, ReapStep, Zenon DEF IInv, TypeOK
  <2>3. QED
    BY <2>2, Zenon DEF UsableInv
<1>3. QED
  BY <1>1, <1>2, Zenon

\* The route a walk ends with.
LEMMA EndUsable ==
    ASSUME IInv, UsableInv, ScanInv, bgp_process_main_one
    PROVE  UsableInv'
<1>1. /\ phase = "end" /\ phase' = "idle" /\ scheduled' = FALSE /\ selected' = new_select
      /\ multipath' = bgp_path_info_mpath_update
      /\ valid' = valid /\ established' = established /\ clearing' = clearing
      /\ bgp_path_info_reap(OldRemoved)
  BY Zenon DEF bgp_process_main_one, Unschedule, sessions
<1>2. OldRemoved \in removed \cup {NULL}
  BY Zenon DEF OldRemoved
<1>3. Listed' = Listed \ {OldRemoved} /\ removed' = removed \ {OldRemoved}
  BY <1>1, ReapStep, Zenon DEF IInv, TypeOK
<1>4. /\ removed \cap valid = {} /\ NULL \notin Listed
      /\ new_select # NULL => new_select \in EligiblePaths
      /\ mp_list \subseteq EligiblePaths
  BY UsableArePaths, Zenon DEF IInv, TypeOK, WalkInv
<1>5. multipath' \subseteq mp_list /\ (new_select = NULL => multipath' = {})
  BY <1>1, Zenon DEF bgp_path_info_mpath_update, FirstOfNexthop
<1>6. EligiblePaths \subseteq Lingering'
  BY <1>1, <1>2, <1>3, <1>4, Zenon DEF EligiblePaths, Eligible, Lingering
<1>7. Lingering' \subseteq EligiblePaths \cup clearing
  BY <1>1, <1>3, Zenon DEF EligiblePaths, Eligible, Lingering
<1>8. new_select = NULL => EligiblePaths = {}
  BY <1>1, Zenon DEF ScanInv
<1>9. Installed' \subseteq {new_select} \cup mp_list
  BY <1>1, <1>5, Zenon DEF Installed
<1>10. \A p \in Listed' \ established' : HasSession(p) => p \in clearing' \cup removed'
  BY <1>1, <1>3, Zenon DEF UsableInv
<1>11. /\ selected' = NULL => Lingering' \subseteq clearing'
       /\ selected' # NULL => Installed' \subseteq Lingering'
  BY <1>1, <1>4, <1>6, <1>7, <1>8, <1>9, Zenon
<1>12. QED
  BY <1>10, <1>11, Zenon DEF UsableInv

\* Every step leaves a usable route, or a walk to come.
LEMMA StepUsable == IInv /\ ScanInv /\ UsableInv /\ [Next]_vars => UsableInv'
<1> SUFFICES ASSUME IInv, ScanInv, UsableInv, [Next]_vars PROVE UsableInv'
  BY Zenon
<1>1. CASE bgp_best_selection
  <2>1. /\ phase' = IF DETERMINISTIC_MED THEN "dmed" ELSE "select"
        /\ UNCHANGED <<table, sessions>>
    BY <1>1, Zenon DEF bgp_best_selection
  <2>2. QED
    BY <2>1, WalkUsable, Zenon DEF Idle, table, sessions
<1>2. CASE \/ DmedOuter \/ DmedInner \/ DmedGroupEnd \/ DmedEnd
           \/ SelectEnd \/ MpathStep \/ MpathEnd
  <2>1. SameWalk
    BY <1>2, Zenon DEF DmedOuter, DmedInner, DmedGroupEnd, DmedEnd, SelectEnd, MpathStep, MpathEnd
  <2>2. ~Idle'
    BY <1>2, Zenon DEF DmedOuter, DmedInner, DmedGroupEnd, DmedEnd, SelectEnd, MpathStep, MpathEnd, Idle
  <2>3. QED
    BY <2>1, <2>2, WalkUsable, Zenon DEF SameWalk, sessions
<1>3. CASE SelectStep
  <2>1. UNCHANGED <<sessions, phase>> /\ phase = "select" /\ \E p : bgp_path_info_reap(p)
    BY <1>3, Zenon DEF SelectStep
  <2>2. QED
    BY <2>1, WalkUsable, Zenon DEF Idle, sessions
<1>4. CASE bgp_process_main_one
  BY <1>4, EndUsable, Zenon
<1>5. CASE \E p \in Paths : \/ bgp_update(p) \/ vpn_leak_to_vrf_update(p) \/ bgp_withdraw(p)
                            \/ PeerDown(p) \/ bgp_clear_route_node(p) \/ PeerUp(p)
                            \/ evaluate_paths(p)
  BY <1>5, TableUsable, Zenon
<1>6. CASE UNCHANGED <<list, valid, removed, chosen, sessions, scheduled, phase>>
  BY <1>6, Zenon DEF UsableInv, Lingering, Listed, Installed, Idle, chosen, sessions
<1>7. QED
  <2>1. ASSUME NEW p \in Paths, Measure(p) \/ Elsewhere(p)
        PROVE  UNCHANGED <<list, valid, removed, chosen, sessions, scheduled, phase>>
    BY <2>1, Zenon DEF Measure, Elsewhere, table, walk
  <2>2. ASSUME NEW on \in BOOLEAN, check_latency(on)
        PROVE  UNCHANGED <<list, valid, removed, chosen, sessions, scheduled, phase>>
    BY <2>2, Zenon DEF check_latency, table, walk
  <2>3. LookUp \/ UNCHANGED vars =>
            UNCHANGED <<list, valid, removed, chosen, sessions, scheduled, phase>>
    BY Zenon DEF LookUp, vars, table, walk
  <2>4. QED
    BY <1>1, <1>2, <1>3, <1>4, <1>5, <1>6, <2>1, <2>2, <2>3, Zenon DEF Next, Walk

\* Whatever happens between two walks, what the walk left stays usable until
\* its queued removal.
LEMMA UsableHolds == Spec => []UsableInv
BY InitUsable, StepUsable, WalkCorrect, ScanComplete, PTL DEF Spec

\* Once every queued change is processed there is a selected path exactly if
\* some path is usable, and the route goes over usable paths only.
THEOREM RouteIsUsable == Spec => []RouteUsable
<1>1. ASSUME IInv, UsableInv, AtRest PROVE RouteUsable
  <2>1. Idle /\ ~scheduled /\ clearing = {}
    BY <1>1, Zenon DEF AtRest
  <2>2. Lingering = EligiblePaths
    BY <2>1, Zenon DEF Lingering, EligiblePaths, Eligible
  <2>3. /\ selected = NULL => EligiblePaths = {}
        /\ selected # NULL => {selected} \cup multipath \subseteq EligiblePaths
    BY <1>1, <2>1, <2>2, Zenon DEF UsableInv, Installed
  <2>4. QED
    BY <2>3, Zenon DEF RouteUsable
<1>2. IInv /\ UsableInv => RouteUsable
  BY <1>1, Zenon DEF RouteUsable
<1>3. QED
  BY <1>2, UsableHolds, WalkCorrect, PTL


-----------------------------------------------------------------------------
(* Zebra has been told of the route in place.                              *)

\* What zebra was told stays right while a path is either off the list,
\* flagged as changed, or changed in its weight only.
LEMMA StillTold ==
    ASSUME Told, UNCHANGED chosen,
           \A p \in Installed \cap Listed' :
               p \notin changed' => /\ p \in Listed /\ p \notin changed
                                    /\ Strip(attr'[p]) = Strip(attr[p])
    PROVE  Told' /\ Installed' = Installed
<1>1. fib' = fib /\ selected' = selected /\ multipath' = multipath /\ Installed' = Installed
  BY Zenon DEF chosen, Installed
<1>2. CASE selected = NULL
  BY <1>1, <1>2, Zenon DEF Told
<1>3. CASE selected # NULL /\ Peer[selected].kind = "static"
  BY <1>1, <1>3, Zenon DEF Told
<1>4. CASE selected # NULL /\ Peer[selected].kind # "static"
  <2>1. /\ fib = [best |-> selected, attrs |-> fib.attrs]
        /\ fib.attrs = [p \in Installed |-> fib.attrs[p]]
        /\ \A p \in Installed \cap Listed :
               p \notin changed => fib.attrs[p] = Strip(attr[p])
    BY <1>4, Zenon DEF Told
  <2>2. \A p \in Installed' \cap Listed' :
            p \notin changed' => fib'.attrs[p] = Strip(attr'[p])
    BY <1>1, <2>1, Zenon
  <2>3. QED
    BY <1>1, <1>4, <2>1, <2>2, Zenon DEF Told
<1>5. QED
  BY <1>2, <1>3, <1>4, Zenon

\* Nothing is installed at the start.
LEMMA InitFib == Init => FibInv
BY Zenon DEF Init, FibInv, Told

\* A path stored is flagged as changed, unless it is new.
LEMMA StoreFib ==
    ASSUME IInv, FibInv, Idle, NEW p \in Paths, NEW a, bgp_path_info_store(p, a)
    PROVE  FibInv'
<1>1. /\ attr' = [attr EXCEPT ![p] = a] /\ scheduled' = TRUE /\ UNCHANGED chosen
      /\ changed' = IF p \in Listed THEN changed \cup {p} ELSE changed \ {p}
  BY Zenon DEF bgp_path_info_store
<1>2. Listed' = Listed \cup {p}
  <2>1. CASE p \in Listed
    BY <2>1, Zenon DEF bgp_path_info_store, Listed
  <2>2. CASE p \notin Listed
    <3>1. list' = <<p>> \o list
      BY <2>2, Zenon DEF bgp_path_info_store
    <3>2. QED
      BY <2>2, <3>1, AtHead, SMTT(60) DEF IInv, TypeOK, Listed
  <2>3. QED
    BY <2>1, <2>2, Zenon
<1>3. /\ multipath \subseteq Listed /\ selected \in Listed \cup {NULL}
      /\ Listed \subseteq Paths /\ attr \in [Paths -> Attr] /\ p # NULL
  BY UsableArePaths, PathsAssumption, Zenon DEF FibInv, IInv, TypeOK
<1>4. ASSUME NEW q \in Installed \cap Listed', q \notin changed'
      PROVE  q \in Listed /\ q \notin changed /\ Strip(attr'[q]) = Strip(attr[q])
  <2>1. q # p
    BY <1>1, <1>3, <1>4, Zenon DEF Installed
  <2>2. attr'[q] = attr[q]
    BY <1>1, <1>2, <1>3, <1>4, <2>1, Zenon
  <2>3. QED
    BY <1>1, <1>2, <1>4, <2>1, <2>2, Zenon
<1>5. Told
  BY Zenon DEF FibInv
<1>6. Told'
  BY <1>1, <1>4, <1>5, StillTold, Zenon
<1>7. multipath' \subseteq Listed'
  BY <1>1, <1>2, <1>3, Zenon DEF chosen
<1>8. QED
  BY <1>1, <1>6, <1>7, Zenon DEF FibInv

\* The steps that touch neither the list nor the installed route.
LEMMA QuietFib ==
    ASSUME IInv, FibInv, list' = list, changed' = changed, UNCHANGED chosen,
           scheduled' \in {TRUE, scheduled}, Idle' => Idle,
           \A q \in Paths : Strip(attr'[q]) = Strip(attr[q])
    PROVE  FibInv'
<1>1. Listed' = Listed /\ Listed \subseteq Paths
  BY UsableArePaths, Zenon DEF Listed, IInv
<1>2. Told
  BY Zenon DEF FibInv
<1>3. Told' /\ Installed' = Installed
  BY <1>1, <1>2, StillTold, Zenon
<1>4. Idle' => multipath' \subseteq Listed'
  BY <1>1, Zenon DEF FibInv, chosen
<1>5. ~scheduled' => changed' \cap Installed' = {}
  BY <1>3, Zenon DEF FibInv
<1>6. QED
  BY <1>3, <1>4, <1>5, Zenon DEF FibInv

\* A step of the selection: a path taken off the list loses its flags.
LEMMA SelectFib ==
    ASSUME IInv, FibInv, SelectStep
    PROVE  FibInv'
<1> DEFINE p == Head(todo)
           dead == IF p \in removed /\ p \notin valid /\ p # selected THEN p ELSE NULL
<1>1. /\ phase = "select" /\ phase' = phase /\ todo # <<>>
      /\ bgp_path_info_reap(dead) /\ changed' = changed \ {dead}
      /\ UNCHANGED chosen /\ scheduled' = scheduled
      /\ Contend(p) \/ attr' = attr
  BY Zenon DEF SelectStep
<1>2. Listed \subseteq Paths /\ p \in Paths
  BY <1>1, HeadTail, UsableArePaths, Zenon DEF IInv, TypeOK
<1> HIDE DEF p, dead
<1>3. Listed' = Listed \ {dead}
  BY <1>1, ReapStep, Zenon DEF IInv, TypeOK
<1>4. \A q \in Paths : Strip(attr'[q]) = Strip(attr[q])
  <2>1. CASE attr' = attr
    BY <2>1, Zenon
  <2>2. CASE Contend(p)
    BY <1>2, <2>2, ContendStep, Zenon DEF IInv, TypeOK
  <2>3. QED
    BY <1>1, <2>1, <2>2, Zenon
<1>5. Told
  BY Zenon DEF FibInv
<1>6. Told' /\ Installed' = Installed
  BY <1>1, <1>2, <1>3, <1>4, <1>5, StillTold, Zenon
<1>7. ~Idle'
  BY <1>1, Zenon DEF Idle
<1>8. ~scheduled' => changed' \cap Installed' = {}
  BY <1>1, <1>6, Zenon DEF FibInv
<1>9. QED
  BY <1>6, <1>7, <1>8, Zenon DEF FibInv

\* The end of a walk: silence only if nothing zebra cares for has changed.
LEMMA EndFib ==
    ASSUME IInv, FibInv, bgp_process_main_one
    PROVE  FibInv'
<1> DEFINE others == bgp_path_info_mpath_update
           flagged == IF new_select # NULL /\ Aggregate(others) # mp_attr[new_select]
                      THEN changed \cup {new_select}
                      ELSE changed
           same == selected # NULL /\ selected = new_select /\ new_select \notin flagged
           tell == ~same \/ bgp_zebra_has_route_changed(others, flagged)
<1>1. /\ multipath' = others /\ selected' = new_select /\ attr' = attr /\ scheduled' = FALSE
      /\ fib' = IF tell THEN Route(new_select, others, attr) ELSE fib
      /\ changed' = flagged \ (valid \cup removed \cup {new_select})
      /\ bgp_path_info_reap(OldRemoved)
  BY Zenon DEF bgp_process_main_one, Unschedule
<1>2. changed \subseteq flagged
  BY Zenon
<1>3. ~tell => /\ selected # NULL /\ selected = new_select /\ new_select \notin flagged
               /\ others = multipath /\ others \cap flagged = {}
  BY Zenon DEF bgp_zebra_has_route_changed
<1>4. others \subseteq mp_list
  BY Zenon DEF bgp_path_info_mpath_update, FirstOfNexthop
<1> HIDE DEF others, flagged, tell
<1>5. /\ Listed' = Listed \ {OldRemoved} /\ Listed \subseteq Paths /\ NULL \notin Listed
      /\ OldRemoved \in removed \cup {NULL} /\ removed \cap valid = {}
      /\ mp_list \subseteq EligiblePaths
  BY <1>1, ReapStep, UsableArePaths, Zenon DEF IInv, TypeOK, WalkInv, OldRemoved
<1>6. EligiblePaths \subseteq Listed \cap valid
  BY Zenon DEF EligiblePaths, Eligible
<1>7. multipath' \subseteq Listed'
  BY <1>1, <1>4, <1>5, <1>6, Zenon
<1>8. Installed' = {new_select} \cup others
  BY <1>1, Zenon DEF Installed
<1>9. changed' \cap Installed' = {}
  BY <1>1, <1>4, <1>5, <1>6, <1>8, Zenon
<1>10. Told'
  <2>1. CASE tell /\ (new_select = NULL \/ Peer[new_select].kind = "static")
    BY <1>1, <2>1, Zenon DEF Told, Route
  <2>2. CASE tell /\ new_select # NULL /\ Peer[new_select].kind # "static"
    <3> DEFINE at == [p \in {new_select} \cup others |-> Strip(attr[p])]
    <3>1. fib' = [best |-> new_select, attrs |-> at]
      BY <1>1, <2>2, Zenon DEF Route, Strip
    <3>2. fib'.attrs = at
      BY <3>1, Zenon
    <3>3. \A p \in Installed' : fib'.attrs[p] = Strip(attr'[p])
      BY <1>1, <1>8, <3>2, Zenon
    <3>4. fib'.attrs = [p \in Installed' |-> fib'.attrs[p]]
      BY <1>8, <3>2, Zenon
    <3>5. fib' = [best |-> selected', attrs |-> fib'.attrs]
      BY <1>1, <3>1, <3>2, Zenon
    <3>6. selected' # NULL /\ Peer[selected'].kind # "static"
      BY <1>1, <2>2, Zenon
    <3>7. QED
      BY <3>3, <3>4, <3>5, <3>6, Zenon DEF Told
  <2>3. CASE ~tell
    <3>1. /\ fib' = fib /\ selected' = selected /\ multipath' = multipath
          /\ Installed' = Installed /\ Installed \cap flagged = {}
      BY <1>1, <1>3, <2>3, Zenon DEF Installed
    <3>2. \A p \in Installed : p \notin changed
      BY <1>2, <3>1, Zenon
    <3>3. Told
      BY Zenon DEF FibInv
    <3>4. selected # NULL
      BY <1>3, <2>3, Zenon
    <3>5. CASE Peer[selected].kind = "static"
      BY <3>1, <3>3, <3>4, <3>5, Zenon DEF Told
    <3>6. CASE Peer[selected].kind # "static"
      <4>1. /\ fib = [best |-> selected, attrs |-> fib.attrs]
            /\ fib.attrs = [p \in Installed |-> fib.attrs[p]]
            /\ \A p \in Installed \cap Listed :
                   p \notin changed => fib.attrs[p] = Strip(attr[p])
        BY <3>3, <3>4, <3>6, Zenon DEF Told
      <4>2. \A p \in Installed' \cap Listed' : fib'.attrs[p] = Strip(attr'[p])
        BY <1>1, <1>5, <3>1, <3>2, <4>1, Zenon
      <4>3. QED
        BY <3>1, <3>4, <3>6, <4>1, <4>2, Zenon DEF Told
    <3>7. QED
      BY <3>5, <3>6, Zenon
  <2>4. QED
    BY <2>1, <2>2, <2>3, Zenon
<1>11. QED
  BY <1>7, <1>9, <1>10, Zenon DEF FibInv

\* Every step keeps zebra's copy right, but for paths flagged as changed.
LEMMA StepFib == IInv /\ FibInv /\ [Next]_vars => FibInv'
<1> SUFFICES ASSUME IInv, FibInv, [Next]_vars PROVE FibInv'
  BY Zenon
<1>1. CASE bgp_best_selection
  <2>1. /\ phase' = IF DETERMINISTIC_MED THEN "dmed" ELSE "select"
        /\ UNCHANGED <<table, chosen, scheduled>>
    BY <1>1, Zenon DEF bgp_best_selection
  <2>2. QED
    BY <2>1, QuietFib, Zenon DEF Idle, table
<1>2. CASE \/ DmedOuter \/ DmedInner \/ DmedGroupEnd \/ DmedEnd
           \/ SelectEnd \/ MpathStep \/ MpathEnd
  <2>1. SameWalk
    BY <1>2, Zenon DEF DmedOuter, DmedInner, DmedGroupEnd, DmedEnd, SelectEnd, MpathStep, MpathEnd
  <2>2. ~Idle'
    <3>1. phase' \in {phase, "inner", "dmed", "select", "mpath", "end"}
      BY <1>2, Zenon DEF DmedOuter, DmedInner, DmedGroupEnd, DmedEnd, SelectEnd, MpathStep, MpathEnd
    <3>2. phase # "idle"
      BY <1>2, Zenon DEF DmedOuter, DmedInner, DmedGroupEnd, DmedEnd, SelectEnd, MpathStep, MpathEnd
    <3>3. QED
      BY <3>1, <3>2, Zenon DEF Idle
  <2>3. \A q \in Paths : Strip(attr'[q]) = Strip(attr[q])
    <3>1. CASE attr' = attr
      BY <3>1, Zenon
    <3>2. CASE DmedInner /\ Contend(Head(inner))
      <4>1. Head(inner) \in Paths
        BY <3>2, HeadTail, Zenon DEF DmedInner, IInv, TypeOK
      <4>2. QED
        BY <3>2, <4>1, ContendStep, Zenon DEF IInv, TypeOK
    <3>3. CASE MpathStep /\ attr' = AttrAfter(Head(todo), new_select)
      <4>1. Head(todo) \in Paths /\ new_select \in Paths
        BY <3>3, HeadTail, Zenon DEF MpathStep, IInv, TypeOK, WalkInv
      <4>2. QED
        BY <3>3, <4>1, WeightsOnly, Zenon DEF IInv, TypeOK
    <3>4. QED
      BY <1>2, <3>1, <3>2, <3>3, Zenon
         DEF DmedOuter, DmedInner, DmedGroupEnd, DmedEnd, SelectEnd, MpathStep, MpathEnd
  <2>4. QED
    BY <2>1, <2>2, <2>3, QuietFib, Zenon DEF SameWalk
<1>3. CASE SelectStep
  BY <1>3, SelectFib, Zenon
<1>4. CASE bgp_process_main_one
  BY <1>4, EndFib, Zenon
<1>5. CASE \E p \in Paths : \E a : Idle /\ bgp_path_info_store(p, a)
  BY <1>5, StoreFib, Zenon
<1>6. CASE /\ UNCHANGED <<list, attr, changed, chosen, phase>> /\ scheduled' \in {TRUE, scheduled}
  BY <1>6, QuietFib, Zenon DEF Idle
<1>7. CASE \E p \in Paths : Elsewhere(p)
  <2>1. /\ UNCHANGED <<list, changed, chosen, scheduled, walk>>
        /\ \A q \in Paths : Strip(attr'[q]) = Strip(attr[q])
    BY <1>7, ElsewhereStep, Zenon
  <2>2. QED
    BY <2>1, QuietFib, Zenon DEF Idle, walk
<1>8. QED
  <2>1. ASSUME NEW p \in Paths, bgp_update(p) \/ vpn_leak_to_vrf_update(p)
        PROVE  \/ \E a : Idle /\ bgp_path_info_store(p, a)
               \/ UNCHANGED <<list, attr, changed, chosen, phase>> /\ scheduled' = scheduled
    BY <2>1, Zenon DEF bgp_update, vpn_leak_to_vrf_update, walk
  <2>2. ASSUME NEW p \in Paths,
               \/ bgp_withdraw(p) \/ PeerDown(p) \/ bgp_clear_route_node(p) \/ PeerUp(p)
               \/ evaluate_paths(p) \/ Measure(p)
        PROVE  UNCHANGED <<list, attr, changed, chosen, phase>> /\ scheduled' \in {TRUE, scheduled}
    BY <2>2, Zenon DEF bgp_withdraw, PeerDown, bgp_clear_route_node, PeerUp, evaluate_paths, Measure,
                bgp_path_info_delete, table, walk
  <2>3. ASSUME NEW on \in BOOLEAN, check_latency(on)
        PROVE  UNCHANGED <<list, attr, changed, chosen, phase, scheduled>>
    BY <2>3, Zenon DEF check_latency, table, walk
  <2>4. LookUp \/ UNCHANGED vars => UNCHANGED <<list, attr, changed, chosen, phase, scheduled>>
    BY Zenon DEF LookUp, vars, table, walk
  <2>5. QED
    BY <1>1, <1>2, <1>3, <1>4, <1>5, <1>6, <1>7, <2>1, <2>2, <2>3, <2>4, Zenon DEF Next, Walk

\* When no change is pending, zebra's route is the selected path and its
\* multipaths with their present attributes.
THEOREM FibIsCurrent == Spec => []FibCurrent
<1>1. ASSUME IInv, FibInv, Idle, ~scheduled PROVE fib = Route(selected, multipath, attr)
  <2>1. Told
    BY <1>1, Zenon DEF FibInv
  <2>2. \A p \in Installed : p # NULL => p \in Listed /\ p \notin changed
    BY <1>1, Zenon DEF FibInv, IInv, TypeOK, Installed
  <2>3. NULL \notin Listed /\ multipath \subseteq Listed
    BY <1>1, UsableArePaths, Zenon DEF IInv, FibInv
  <2>4. CASE selected = NULL \/ Peer[selected].kind = "static"
    BY <2>1, <2>4, Zenon DEF Told, Route
  <2>5. CASE selected # NULL /\ Peer[selected].kind # "static"
    <3>1. /\ fib = [best |-> selected, attrs |-> fib.attrs]
          /\ fib.attrs = [p \in Installed |-> fib.attrs[p]]
          /\ \A p \in Installed : fib.attrs[p] = Strip(attr[p])
      BY <2>1, <2>2, <2>3, <2>5, Zenon DEF Told, Installed
    <3>2. fib.attrs = [p \in Installed |-> Strip(attr[p])]
      BY <3>1, Zenon
    <3>3. Route(selected, multipath, attr)
              = [best |-> selected, attrs |-> [p \in Installed |-> Strip(attr[p])]]
      BY <2>5, Zenon DEF Route, Installed, Strip
    <3>4. QED
      BY <3>1, <3>2, <3>3, Zenon
  <2>6. QED
    BY <2>4, <2>5, Zenon
<1>2. IInv /\ FibInv => FibCurrent
  BY <1>1, Zenon DEF FibCurrent
<1>3. Spec => []FibInv
  BY InitFib, StepFib, WalkCorrect, PTL DEF Spec
<1>4. QED
  BY <1>2, <1>3, WalkCorrect, PTL

-----------------------------------------------------------------------------
(* bgp_path_info_cmp orders the paths.                                     *)

Verdicts == {"wins", "loses", "ties"}

\* what x and y say of a against b and of b against c carries over to z
Carries(x, y, z) ==
    x # "loses" /\ y # "loses" => /\ z # "loses"
                                  /\ x = "wins" \/ y = "wins" => z = "wins"

\* x and y are the two sides of one comparison
Opposite(x, y) == (x = "wins" <=> y = "loses") /\ (x = "loses" <=> y = "wins")

\* the steps after the LLGR and latency checks
Verdict(n, e) == Then(UpToMetric(attr, n, e), TieBreak(attr, n, e))

\* A criterion that compares numbers is an order.
LEMMA NumbersOrder ==
    ASSUME NEW a \in Nat, NEW b \in Nat, NEW c \in Nat
    PROVE  /\ Lower(a, b) \in Verdicts
           /\ Lower(a, b) = "ties" <=> a = b
           /\ Carries(Lower(a, b), Lower(b, c), Lower(a, c))
           /\ Carries(Higher(a, b), Higher(b, c), Higher(a, c))
           /\ Opposite(Lower(a, b), Lower(b, a))
           /\ Opposite(Higher(a, b), Higher(b, a))
  BY DEF Lower, Higher, Carries, Opposite, Verdicts

\* Two criteria in turn are one if the second is where the first ties.
LEMMA ThenCarries ==
    ASSUME NEW x, NEW y, NEW z, NEW u, NEW v, NEW w,
           Carries(x, y, z), x = "ties" /\ y = "ties" => Carries(u, v, w),
           x \in Verdicts, y \in Verdicts, z \in Verdicts
    PROVE  Carries(Then(x, u), Then(y, v), Then(z, w))
  BY Zenon DEF Carries, Then, Verdicts

\* The same of the two sides.
LEMMA ThenOpposite ==
    ASSUME NEW x, NEW y, NEW u, NEW v,
           Opposite(x, y), x = "ties" /\ y = "ties" => Opposite(u, v),
           x \in Verdicts, y \in Verdicts
    PROVE  Opposite(Then(x, u), Then(y, v))
  BY Zenon DEF Opposite, Then, Verdicts

\* The result is a verdict.
LEMMA ThenVerdict ==
    ASSUME NEW x \in Verdicts, NEW u, x = "ties" => u \in Verdicts
    PROVE  Then(x, u) \in Verdicts
  BY Zenon DEF Then, Verdicts

\* the numbers the criteria compare
LEMMA Keys ==
    ASSUME attr \in [Paths -> Attr], parent \in [Paths -> Attr], NEW p \in Paths
    PROVE  /\ attr[p].weight \in Nat /\ attr[p].local_pref \in Nat
           /\ LocalRoute(p) \in Nat /\ PeerType(p) \in Nat /\ Peer[p].addr \in Nat
           /\ Len(Ultimate(attr, p).aspath) \in Nat
           /\ Ultimate(attr, p).origin \in Nat /\ Ultimate(attr, p).med \in Nat
           /\ Ultimate(attr, p).igpmetric \in Nat /\ Ultimate(attr, p).cluster \in Nat
           /\ Ultimate(attr, p).id \in Nat
<1>1. Ultimate(attr, p) \in Attr /\ attr[p] \in Attr
  BY Zenon DEF Ultimate
<1>2. LocalRoute(p) \in Nat /\ PeerType(p) \in Nat
  BY Zenon DEF LocalRoute, PeerType
<1>3. Peer[p].addr \in Nat
  BY PathsAssumption, Zenon
<1>4. \A a \in Attr : /\ a.weight \in Nat /\ a.local_pref \in Nat /\ a.origin \in Nat /\ a.med \in Nat
                       /\ a.igpmetric \in Nat /\ a.cluster \in Nat /\ a.id \in Nat
                       /\ a.aspath \in Seq(Nat)
  BY Zenon DEF Attr
<1>5. Len(Ultimate(attr, p).aspath) \in Nat
  BY <1>1, <1>4
<1>6. QED
  BY <1>1, <1>2, <1>3, <1>4, <1>5, Zenon

\* Paths that tie on being local and on the peer type have peers of one sort.
LEMMA SameSort ==
    ASSUME NEW p \in Paths, NEW q \in Paths,
           Lower(LocalRoute(p), LocalRoute(q)) = "ties", Lower(PeerType(p), PeerType(q)) = "ties"
    PROVE  Sort(p) = Sort(q)
<1>1. LocalRoute(p) = LocalRoute(q) /\ PeerType(p) = PeerType(q)
  BY DEF Lower, LocalRoute, PeerType
<1>2. Peer[p].kind \in Kinds /\ Peer[q].kind \in Kinds
  BY PathsAssumption, Zenon
<1>3. QED
  BY <1>1, <1>2 DEF LocalRoute, PeerType, Sort, Kinds


\* the criteria of UpToMetric in their order, and what remains from each on
K1(n, e) == Higher(attr[n].weight, attr[e].weight)
K2(n, e) == Higher(attr[n].local_pref, attr[e].local_pref)
K3(n, e) == Lower(LocalRoute(n), LocalRoute(e))
K4(n, e) == Lower(Len(Ultimate(attr, n).aspath), Len(Ultimate(attr, e).aspath))
K5(n, e) == Lower(Ultimate(attr, n).origin, Ultimate(attr, e).origin)
K6(n, e) == Lower(Ultimate(attr, n).med, Ultimate(attr, e).med)
K7(n, e) == Lower(PeerType(n), PeerType(e))
K8(n, e) == MetricCheck(n, e, Ultimate(attr, n), Ultimate(attr, e))
From7(n, e) == Then(K7(n, e), K8(n, e))
From6(n, e) == Then(K6(n, e), From7(n, e))
From5(n, e) == Then(K5(n, e), From6(n, e))
From4(n, e) == Then(K4(n, e), From5(n, e))
From3(n, e) == Then(K3(n, e), From4(n, e))
From2(n, e) == Then(K2(n, e), From3(n, e))

\* The steps up to the metric are these criteria in turn.
LEMMA InTurn ==
    ASSUME ALWAYS_COMPARE_MED, NEW n, NEW e
    PROVE  UpToMetric(attr, n, e) = Then(K1(n, e), From2(n, e))
<1>1. MedCheck(Ultimate(attr, n), Ultimate(attr, e)) = K6(n, e)
  BY Zenon DEF MedCheck, K6
<1>2. QED
  BY <1>1, Zenon DEF UpToMetric, K1, K2, K3, K4, K5, K7, K8, From2, From3, From4, From5, From6, From7

\* Each of the criteria but the last is an order.
LEMMA EachOrders ==
    ASSUME attr \in [Paths -> Attr], parent \in [Paths -> Attr],
           NEW a \in Paths, NEW b \in Paths, NEW c \in Paths
    PROVE  /\ Carries(K1(a, b), K1(b, c), K1(a, c)) /\ Opposite(K1(a, b), K1(b, a)) /\ K1(a, b) \in Verdicts
           /\ Carries(K2(a, b), K2(b, c), K2(a, c)) /\ Opposite(K2(a, b), K2(b, a)) /\ K2(a, b) \in Verdicts
           /\ Carries(K3(a, b), K3(b, c), K3(a, c)) /\ Opposite(K3(a, b), K3(b, a)) /\ K3(a, b) \in Verdicts
           /\ Carries(K4(a, b), K4(b, c), K4(a, c)) /\ Opposite(K4(a, b), K4(b, a)) /\ K4(a, b) \in Verdicts
           /\ Carries(K5(a, b), K5(b, c), K5(a, c)) /\ Opposite(K5(a, b), K5(b, a)) /\ K5(a, b) \in Verdicts
           /\ Carries(K6(a, b), K6(b, c), K6(a, c)) /\ Opposite(K6(a, b), K6(b, a)) /\ K6(a, b) \in Verdicts
           /\ Carries(K7(a, b), K7(b, c), K7(a, c)) /\ Opposite(K7(a, b), K7(b, a)) /\ K7(a, b) \in Verdicts
<1>1. Carries(K1(a, b), K1(b, c), K1(a, c)) /\ Opposite(K1(a, b), K1(b, a)) /\ K1(a, b) \in Verdicts
  BY Keys, NumbersOrder, Zenon DEF K1, Higher
<1>2. Carries(K2(a, b), K2(b, c), K2(a, c)) /\ Opposite(K2(a, b), K2(b, a)) /\ K2(a, b) \in Verdicts
  BY Keys, NumbersOrder, Zenon DEF K2, Higher
<1>3. Carries(K3(a, b), K3(b, c), K3(a, c)) /\ Opposite(K3(a, b), K3(b, a)) /\ K3(a, b) \in Verdicts
  BY Keys, NumbersOrder, Zenon DEF K3
<1>4. Carries(K4(a, b), K4(b, c), K4(a, c)) /\ Opposite(K4(a, b), K4(b, a)) /\ K4(a, b) \in Verdicts
  BY Keys, NumbersOrder, Zenon DEF K4
<1>5. Carries(K5(a, b), K5(b, c), K5(a, c)) /\ Opposite(K5(a, b), K5(b, a)) /\ K5(a, b) \in Verdicts
  BY Keys, NumbersOrder, Zenon DEF K5
<1>6. Carries(K6(a, b), K6(b, c), K6(a, c)) /\ Opposite(K6(a, b), K6(b, a)) /\ K6(a, b) \in Verdicts
  BY Keys, NumbersOrder, Zenon DEF K6
<1>7. Carries(K7(a, b), K7(b, c), K7(a, c)) /\ Opposite(K7(a, b), K7(b, a)) /\ K7(a, b) \in Verdicts
  BY Keys, NumbersOrder, Zenon DEF K7
<1>8. QED
  BY <1>1, <1>2, <1>3, <1>4, <1>5, <1>6, <1>7, Zenon

\* The metric and the cluster list order the paths whose peers are of one sort.
LEMMA MetricOrders ==
    ASSUME attr \in [Paths -> Attr], parent \in [Paths -> Attr],
           NEW a \in Paths, NEW b \in Paths, NEW c \in Paths
    PROVE  /\ K8(a, b) \in Verdicts
           /\ Sort(a) = Sort(b) => Opposite(K8(a, b), K8(b, a))
           /\ Sort(a) = Sort(b) /\ Sort(b) = Sort(c) => Carries(K8(a, b), K8(b, c), K8(a, c))
<1> DEFINE M(n, e) == Lower(Ultimate(attr, n).igpmetric, Ultimate(attr, e).igpmetric)
           L(n, e) == IF Sort(n) = "ibgp" /\ Sort(e) = "ibgp" /\ same_clusterlen
                      THEN Lower(Ultimate(attr, n).cluster, Ultimate(attr, e).cluster)
                      ELSE "ties"
<1>1. \A n, e : K8(n, e) = Then(M(n, e), L(n, e))
  BY Zenon DEF K8, MetricCheck
<1>2. \A n, e \in Paths : M(n, e) \in Verdicts /\ L(n, e) \in Verdicts
  <2> TAKE n, e \in Paths
  <2>1. Lower(Ultimate(attr, n).cluster, Ultimate(attr, e).cluster) \in Verdicts /\ "ties" \in Verdicts
    BY Keys, NumbersOrder, ZenonT(60) DEF Verdicts
  <2>2. QED
    BY <2>1, Keys, NumbersOrder, Zenon
<1>3. Carries(M(a, b), M(b, c), M(a, c)) /\ Opposite(M(a, b), M(b, a))
  BY Keys, NumbersOrder, Zenon
<1>4. /\ Carries("ties", "ties", "ties") /\ Opposite("ties", "ties")
      /\ Carries(Lower(Ultimate(attr, a).cluster, Ultimate(attr, b).cluster),
                 Lower(Ultimate(attr, b).cluster, Ultimate(attr, c).cluster),
                 Lower(Ultimate(attr, a).cluster, Ultimate(attr, c).cluster))
      /\ Opposite(Lower(Ultimate(attr, a).cluster, Ultimate(attr, b).cluster),
                  Lower(Ultimate(attr, b).cluster, Ultimate(attr, a).cluster))
  <2>1. Carries("ties", "ties", "ties") /\ Opposite("ties", "ties")
    BY Zenon DEF Carries, Opposite
  <2>2. QED
    BY <2>1, Keys, NumbersOrder, Zenon
<1>5. Sort(a) = Sort(b) => Opposite(L(a, b), L(b, a))
  BY <1>4, Zenon
<1>6. Sort(a) = Sort(b) /\ Sort(b) = Sort(c) => Carries(L(a, b), L(b, c), L(a, c))
  BY <1>4, Zenon
<1> HIDE DEF M, L
<1>7. K8(a, b) \in Verdicts
  BY <1>1, <1>2, ThenVerdict, Zenon
<1>8. Sort(a) = Sort(b) => Opposite(K8(a, b), K8(b, a))
  BY <1>1, <1>2, <1>3, <1>5, ThenOpposite, Zenon
<1>9. Sort(a) = Sort(b) /\ Sort(b) = Sort(c) => Carries(K8(a, b), K8(b, c), K8(a, c))
  BY <1>1, <1>2, <1>3, <1>6, ThenCarries, Zenon
<1>10. QED
  BY <1>7, <1>8, <1>9, Zenon


\* The criteria from the AS path on order the paths that tie on being local.
LEMMA FromAspath ==
    ASSUME attr \in [Paths -> Attr], parent \in [Paths -> Attr],
           NEW a \in Paths, NEW b \in Paths, NEW c \in Paths
    PROVE  /\ From4(a, b) \in Verdicts
           /\ K3(a, b) = "ties" => Opposite(From4(a, b), From4(b, a))
           /\ K3(a, b) = "ties" /\ K3(b, c) = "ties" =>
                  Carries(From4(a, b), From4(b, c), From4(a, c))
           /\ K3(a, b) = "ties" /\ From4(a, b) = "ties" => Sort(a) = Sort(b)
<1>0. \A n, e \in Paths : K3(n, e) = "ties" /\ K7(n, e) = "ties" => Sort(n) = Sort(e)
  BY SameSort, Zenon DEF K3, K7
<1>1. \A n, e \in Paths : /\ K4(n, e) \in Verdicts /\ K5(n, e) \in Verdicts
                          /\ K6(n, e) \in Verdicts /\ K7(n, e) \in Verdicts /\ K8(n, e) \in Verdicts
  BY EachOrders, MetricOrders, Zenon
<1>2. \A n, e \in Paths : From7(n, e) \in Verdicts
  BY <1>1, ThenVerdict, Zenon DEF From7
<1>3. \A n, e \in Paths : From6(n, e) \in Verdicts
  BY <1>1, <1>2, ThenVerdict, Zenon DEF From6
<1>4. \A n, e \in Paths : From5(n, e) \in Verdicts
  BY <1>1, <1>3, ThenVerdict, Zenon DEF From5
<1>5. \A n, e \in Paths : From4(n, e) \in Verdicts
  BY <1>1, <1>4, ThenVerdict, Zenon DEF From4
<1>6. ASSUME K3(a, b) = "ties" PROVE Opposite(From4(a, b), From4(b, a))
  <2>1. Opposite(From7(a, b), From7(b, a))
    BY <1>0, <1>1, <1>6, EachOrders, MetricOrders, ThenOpposite, Zenon DEF From7
  <2>2. Opposite(From6(a, b), From6(b, a))
    BY <1>1, <2>1, EachOrders, ThenOpposite, Zenon DEF From6
  <2>3. Opposite(From5(a, b), From5(b, a))
    BY <1>1, <2>2, EachOrders, ThenOpposite, Zenon DEF From5
  <2>4. QED
    BY <1>1, <2>3, EachOrders, ThenOpposite, Zenon DEF From4
<1>7. ASSUME K3(a, b) = "ties", K3(b, c) = "ties"
      PROVE  Carries(From4(a, b), From4(b, c), From4(a, c))
  <2>1. Carries(From7(a, b), From7(b, c), From7(a, c))
    <3>1. K7(a, b) = "ties" /\ K7(b, c) = "ties" => Carries(K8(a, b), K8(b, c), K8(a, c))
      BY <1>0, <1>7, MetricOrders, Zenon
    <3>2. QED
      BY <1>1, <3>1, EachOrders, ThenCarries, Zenon DEF From7
  <2>2. Carries(From6(a, b), From6(b, c), From6(a, c))
    BY <1>1, <2>1, EachOrders, ThenCarries, Zenon DEF From6
  <2>3. Carries(From5(a, b), From5(b, c), From5(a, c))
    BY <1>1, <2>2, EachOrders, ThenCarries, Zenon DEF From5
  <2>4. QED
    BY <1>1, <2>3, EachOrders, ThenCarries, Zenon DEF From4
<1>8. ASSUME K3(a, b) = "ties", From4(a, b) = "ties" PROVE Sort(a) = Sort(b)
  <2>1. K7(a, b) = "ties"
    BY <1>8, Zenon DEF From4, From5, From6, From7, Then
  <2>2. QED
    BY <1>0, <1>8, <2>1, Zenon
<1>9. QED
  BY <1>5, <1>6, <1>7, <1>8, Zenon

\* The steps up to the metric order the paths, and tie only peers of one sort.
LEMMA MetricStepsOrder ==
    ASSUME attr \in [Paths -> Attr], parent \in [Paths -> Attr], ALWAYS_COMPARE_MED,
           NEW a \in Paths, NEW b \in Paths, NEW c \in Paths
    PROVE  /\ UpToMetric(attr, a, b) \in Verdicts
           /\ Opposite(UpToMetric(attr, a, b), UpToMetric(attr, b, a))
           /\ Carries(UpToMetric(attr, a, b), UpToMetric(attr, b, c), UpToMetric(attr, a, c))
           /\ UpToMetric(attr, a, b) = "ties" => Sort(a) = Sort(b)
<1>1. \A n, e \in Paths : K1(n, e) \in Verdicts /\ K2(n, e) \in Verdicts /\ K3(n, e) \in Verdicts
  BY EachOrders, Zenon
<1>2. \A n, e \in Paths : From3(n, e) \in Verdicts
  BY <1>1, FromAspath, ThenVerdict, Zenon DEF From3
<1>3. \A n, e \in Paths : From2(n, e) \in Verdicts
  BY <1>1, <1>2, ThenVerdict, Zenon DEF From2
<1>4. UpToMetric(attr, a, b) \in Verdicts
  BY <1>1, <1>3, InTurn, ThenVerdict, Zenon
<1>5. Opposite(From3(a, b), From3(b, a))
  BY <1>1, EachOrders, FromAspath, ThenOpposite, Zenon DEF From3
<1>6. Opposite(From2(a, b), From2(b, a))
  BY <1>1, <1>5, EachOrders, ThenOpposite, Zenon DEF From2
<1>7. Opposite(UpToMetric(attr, a, b), UpToMetric(attr, b, a))
  BY <1>1, <1>6, EachOrders, InTurn, ThenOpposite, Zenon
<1>8. Carries(From3(a, b), From3(b, c), From3(a, c))
  BY <1>1, EachOrders, FromAspath, ThenCarries, Zenon DEF From3
<1>9. Carries(From2(a, b), From2(b, c), From2(a, c))
  BY <1>1, <1>8, EachOrders, ThenCarries, Zenon DEF From2
<1>10. Carries(UpToMetric(attr, a, b), UpToMetric(attr, b, c), UpToMetric(attr, a, c))
  BY <1>1, <1>9, EachOrders, InTurn, ThenCarries, ZenonT(60)
<1>11. ASSUME UpToMetric(attr, a, b) = "ties" PROVE Sort(a) = Sort(b)
  <2>1. Then(K1(a, b), From2(a, b)) = "ties"
    BY <1>11, InTurn, Zenon
  <2>2. K3(a, b) = "ties" /\ From4(a, b) = "ties"
    BY <2>1, Zenon DEF From2, From3, Then
  <2>3. QED
    BY <2>2, FromAspath, Zenon
<1>12. QED
  BY <1>4, <1>7, <1>10, <1>11, Zenon

\* the tie breaks after the oldest path
ById(n, e) == Then(Lower(Ultimate(attr, n).id, Ultimate(attr, e).id),
              Then(Lower(Ultimate(attr, n).cluster, Ultimate(attr, e).cluster),
              Then(Lower(Peer[n].addr, Peer[e].addr), "wins")))

\* The router identifier, the cluster list and the peer's address order the
\* paths, and never tie.
LEMMA IdOrders ==
    ASSUME attr \in [Paths -> Attr], parent \in [Paths -> Attr],
           NEW a \in Paths, NEW b \in Paths, NEW c \in Paths
    PROVE  /\ ById(a, b) \in {"wins", "loses"}
           /\ a # b => Opposite(ById(a, b), ById(b, a))
           /\ Carries(ById(a, b), ById(b, c), ById(a, c))
<1> DEFINE I(n, e) == Lower(Ultimate(attr, n).id, Ultimate(attr, e).id)
           L(n, e) == Lower(Ultimate(attr, n).cluster, Ultimate(attr, e).cluster)
           A(n, e) == Lower(Peer[n].addr, Peer[e].addr)
           W(n, e) == Then(A(n, e), "wins")
           R(n, e) == Then(L(n, e), W(n, e))
<1>1. \A n, e \in Paths : I(n, e) \in Verdicts /\ L(n, e) \in Verdicts /\ A(n, e) \in Verdicts
  BY Keys, NumbersOrder, Zenon
<1>2. /\ Carries(I(a, b), I(b, c), I(a, c)) /\ Opposite(I(a, b), I(b, a))
      /\ Carries(L(a, b), L(b, c), L(a, c)) /\ Opposite(L(a, b), L(b, a))
      /\ Carries(A(a, b), A(b, c), A(a, c)) /\ Opposite(A(a, b), A(b, a))
  BY Keys, NumbersOrder, Zenon
<1>3. a # b => A(a, b) # "ties"
  <2>1. a # b => Peer[a].addr # Peer[b].addr
    BY PathsAssumption, Zenon
  <2>2. Peer[a].addr \in Nat /\ Peer[b].addr \in Nat
    BY Keys, Zenon
  <2>3. QED
    BY <2>1, <2>2 DEF Lower
<1>4. \A n, e : ById(n, e) = Then(I(n, e), R(n, e))
  BY Zenon DEF ById
<1> HIDE DEF I, L, A
<1>5. W(a, b) \in {"wins", "loses"}
  BY <1>1, Zenon DEF Then, Verdicts
<1>6. R(a, b) \in {"wins", "loses"}
  BY <1>1, <1>5, Zenon DEF Then, Verdicts
<1>7. ById(a, b) \in {"wins", "loses"}
  BY <1>1, <1>4, <1>6, Zenon DEF Then, Verdicts
<1>8. ASSUME a # b PROVE Opposite(ById(a, b), ById(b, a))
  <2>1. Opposite(W(a, b), W(b, a))
    BY <1>1, <1>2, <1>3, <1>8, ThenOpposite, Zenon
  <2>2. Opposite(R(a, b), R(b, a))
    BY <1>1, <1>2, <2>1, ThenOpposite, Zenon
  <2>3. QED
    BY <1>1, <1>2, <1>4, <2>2, ThenOpposite, Zenon
<1>9. Carries(ById(a, b), ById(b, c), ById(a, c))
  <2>1. Carries("wins", "wins", "wins")
    BY Zenon DEF Carries
  <2>2. Carries(W(a, b), W(b, c), W(a, c))
    BY <1>1, <1>2, <2>1, ThenCarries, Zenon
  <2>3. Carries(R(a, b), R(b, c), R(a, c))
    BY <1>1, <1>2, <2>2, ThenCarries, Zenon
  <2>4. QED
    BY <1>1, <1>2, <1>4, <2>3, ThenCarries, Zenon
<1>10. QED
  BY <1>7, <1>8, <1>9, Zenon

\* The path already selected comes before the others of eBGP peers.
LEMMA OldestOrders ==
    ASSUME NEW a \in Paths, NEW b \in Paths, NEW c \in Paths, Sort(a) = Sort(b)
    PROVE  /\ OldestCheck(a, b) \in Verdicts
           /\ a # b => Opposite(OldestCheck(a, b), OldestCheck(b, a))
           /\ Sort(b) = Sort(c) => Carries(OldestCheck(a, b), OldestCheck(b, c), OldestCheck(a, c))
<1>1. OldestCheck(a, b) \in Verdicts
  BY Zenon DEF OldestCheck, Verdicts
<1>2. a # b => Opposite(OldestCheck(a, b), OldestCheck(b, a))
  BY Zenon DEF OldestCheck, Opposite
<1>3. Sort(b) = Sort(c) => Carries(OldestCheck(a, b), OldestCheck(b, c), OldestCheck(a, c))
  BY Zenon DEF OldestCheck, Carries
<1>4. QED
  BY <1>1, <1>2, <1>3, Zenon

\* With always-compare-med the comparison is a strict total order of the paths.
LEMMA VerdictOrders ==
    ASSUME attr \in [Paths -> Attr], parent \in [Paths -> Attr], ALWAYS_COMPARE_MED,
           NEW a \in Paths, NEW b \in Paths, NEW c \in Paths
    PROVE  /\ Verdict(a, b) \in {"wins", "loses"}
           /\ a # b /\ Verdict(a, b) # "wins" => Verdict(b, a) = "wins"
           /\ Verdict(a, b) = "wins" /\ Verdict(b, c) = "wins" => Verdict(a, c) = "wins"
<1> DEFINE U(n, e) == UpToMetric(attr, n, e)
           B(n, e) == TieBreak(attr, n, e)
<1>1. \A n, e : Verdict(n, e) = Then(U(n, e), B(n, e)) /\ B(n, e) = Then(OldestCheck(n, e), ById(n, e))
  BY Zenon DEF Verdict, TieBreak, ById
<1>2. \A n, e \in Paths : U(n, e) \in Verdicts /\ (U(n, e) = "ties" => Sort(n) = Sort(e))
  BY MetricStepsOrder, Zenon
<1>3. Opposite(U(a, b), U(b, a)) /\ Carries(U(a, b), U(b, c), U(a, c))
  BY MetricStepsOrder, Zenon
<1>4. \A n, e \in Paths : OldestCheck(n, e) \in Verdicts
  BY Zenon DEF OldestCheck, Verdicts
<1>5. B(a, b) \in {"wins", "loses"}
  BY <1>1, <1>4, IdOrders DEF Then, Verdicts
<1>6. ASSUME Sort(a) = Sort(b), a # b PROVE Opposite(B(a, b), B(b, a))
  <2>1. Opposite(OldestCheck(a, b), OldestCheck(b, a)) /\ Opposite(ById(a, b), ById(b, a))
    BY <1>6, OldestOrders, IdOrders, Zenon
  <2>2. Opposite(Then(OldestCheck(a, b), ById(a, b)), Then(OldestCheck(b, a), ById(b, a)))
    BY <1>4, <2>1, ThenOpposite, Zenon
  <2>3. QED
    BY <1>1, <2>2, Zenon
<1>7. ASSUME Sort(a) = Sort(b), Sort(b) = Sort(c) PROVE Carries(B(a, b), B(b, c), B(a, c))
  <2>1. /\ Carries(OldestCheck(a, b), OldestCheck(b, c), OldestCheck(a, c))
        /\ Carries(ById(a, b), ById(b, c), ById(a, c))
    BY <1>7, OldestOrders, IdOrders, Zenon
  <2>2. Carries(Then(OldestCheck(a, b), ById(a, b)), Then(OldestCheck(b, c), ById(b, c)),
                Then(OldestCheck(a, c), ById(a, c)))
    BY <1>4, <2>1, ThenCarries, Zenon
  <2>3. QED
    BY <1>1, <2>2, Zenon
<1> HIDE DEF U, B
<1>8. Verdict(a, b) \in {"wins", "loses"}
  BY <1>1, <1>2, <1>5, Zenon DEF Then, Verdicts
<1>9. a # b => Opposite(Verdict(a, b), Verdict(b, a))
  BY <1>1, <1>2, <1>3, <1>6, ThenOpposite, Zenon
<1>10. Carries(Verdict(a, b), Verdict(b, c), Verdict(a, c))
  <2>1. U(a, b) = "ties" /\ U(b, c) = "ties" => Carries(B(a, b), B(b, c), B(a, c))
    BY <1>2, <1>7, Zenon
  <2>2. QED
    BY <1>1, <1>2, <1>3, <2>1, ThenCarries, Zenon
<1>11. QED
  BY <1>8, <1>9, <1>10, Zenon DEF Opposite, Carries

-----------------------------------------------------------------------------
(* The latency check never switched on.                                    *)

\* the paths that are no imports
Own == {p \in Paths : Peer[p].kind # "imported"}

\* With the latency check off nothing is imported, and no weight is rewritten.
OffInv == ~enabled /\ Listed \subseteq Own

\* the pairs of paths whose first is the second, or is preferred to it
Preferred ==
    {pr \in Own \X Own :
         \/ pr[1] = pr[2]
         \/ attr[pr[2]].llgr
         \/ ~attr[pr[1]].llgr /\ Verdict(pr[1], pr[2]) = "wins"}

\* the pairs of paths that may share the traffic, as far as the second is the best
Sharing ==
    {pr \in Own \X Own :
         /\ pr[1] # pr[2]
         /\ Peer[pr[1]].nexthop # Peer[pr[2]].nexthop
         /\ paths_eq(pr[1], pr[2])}

\* A comparison without the latency check.
LEMMA Unweighed ==
    ASSUME ~enabled, NEW n, NEW e
    PROVE  /\ AttrAfter(n, e) = attr
           /\ bgp_path_info_cmp(n, e) <=> Then(LlgrCheck(n, e), Verdict(n, e)) = "wins"
<1>1. AttrAfter(n, e) = attr
  BY Zenon DEF AttrAfter, LatencyWeights
<1>2. QED
  BY <1>1, Zenon DEF bgp_path_info_cmp, Verdict

\* Where the attributes stay, so does what they are compared by.
LEMMA SameUltimate ==
    ASSUME attr' = attr, NEW p \in Own
    PROVE  Ultimate(attr, p)' = Ultimate(attr, p)
  BY Zenon DEF Ultimate, Own

\* So do the steps up to the metric.
LEMMA SameUpToMetric ==
    ASSUME attr' = attr, NEW n \in Own, NEW e \in Own
    PROVE  UpToMetric(attr, n, e)' = UpToMetric(attr, n, e)
  BY SameUltimate, Zenon DEF UpToMetric

\* So does the preference, until another path is selected.
LEMMA SamePreferred ==
    ASSUME attr' = attr, selected' = selected
    PROVE  Preferred' = Preferred
<1>1. \A n, e \in Own : TieBreak(attr, n, e)' = TieBreak(attr, n, e)
  BY SameUltimate, Zenon DEF TieBreak, OldestCheck
<1>2. \A n, e \in Own : Verdict(n, e)' = Verdict(n, e)
  BY <1>1, SameUpToMetric, Zenon DEF Verdict
<1>3. QED
  BY <1>2, Zenon DEF Preferred

\* So does what may share the traffic.
LEMMA SameSharing ==
    ASSUME attr' = attr, ~enabled, ~enabled'
    PROVE  Sharing' = Sharing
<1>1. ASSUME NEW n \in Own, NEW e \in Own PROVE paths_eq(n, e)' <=> paths_eq(n, e)
  <2>1. AttrAfter(n, e) = attr /\ AttrAfter(n, e)' = attr
    BY Zenon DEF AttrAfter, LatencyWeights
  <2>2. LlgrCheck(n, e)' = LlgrCheck(n, e)
    BY Zenon DEF LlgrCheck
  <2>3. QED
    BY <1>1, <2>1, <2>2, SameUpToMetric, SameUltimate, Zenon DEF paths_eq
<1>2. QED
  BY <1>1, Zenon DEF Sharing

\* The preference is transitive.
LEMMA PreferredTransitive ==
    ASSUME attr \in [Paths -> Attr], parent \in [Paths -> Attr], ALWAYS_COMPARE_MED,
           NEW a, NEW b, NEW c, <<a, b>> \in Preferred, <<b, c>> \in Preferred
    PROVE  <<a, c>> \in Preferred
<1>1. a \in Own /\ b \in Own /\ c \in Own
  BY Zenon DEF Preferred
<1>2. a \in Paths /\ b \in Paths /\ c \in Paths
  BY <1>1, Zenon DEF Own
<1>3. Verdict(a, b) = "wins" /\ Verdict(b, c) = "wins" => Verdict(a, c) = "wins"
  BY <1>2, VerdictOrders, Zenon
<1>4. /\ a = b \/ attr[b].llgr \/ (~attr[a].llgr /\ Verdict(a, b) = "wins")
      /\ b = c \/ attr[c].llgr \/ (~attr[b].llgr /\ Verdict(b, c) = "wins")
  BY Zenon DEF Preferred
<1>5. a = c \/ attr[c].llgr \/ (~attr[a].llgr /\ Verdict(a, c) = "wins")
  BY <1>3, <1>4
<1>6. QED
  BY <1>1, <1>5, Zenon DEF Preferred

\* Of two paths compared, the one that goes on is preferred to both.
LEMMA ContendPrefers ==
    ASSUME attr \in [Paths -> Attr], parent \in [Paths -> Attr], ALWAYS_COMPARE_MED, ~enabled,
           NEW p \in Own, new_select \in Own \cup {NULL}, Contend(p)
    PROVE  /\ attr' = attr
           /\ new_select' \in {p, new_select} \ {NULL}
           /\ <<new_select', p>> \in Preferred
           /\ new_select # NULL => <<new_select', new_select>> \in Preferred
<1>1. p # NULL /\ <<p, p>> \in Preferred /\ p \in Paths
  BY PathsAssumption, Zenon DEF Own, Preferred
<1>2. CASE new_select = NULL
  BY <1>1, <1>2 DEF Contend
<1>3. CASE new_select # NULL
  <2>1. new_select \in Own /\ new_select \in Paths /\ <<new_select, new_select>> \in Preferred
    BY <1>3, Zenon DEF Own, Preferred
  <2>2. /\ attr' = attr
        /\ new_select' = IF bgp_path_info_cmp(p, new_select) THEN p ELSE new_select
    BY <1>3, Unweighed, Zenon DEF Contend
  <2>3. /\ Verdict(p, new_select) \in {"wins", "loses"}
        /\ p # new_select /\ Verdict(p, new_select) # "wins" => Verdict(new_select, p) = "wins"
    BY <1>1, <2>1, VerdictOrders, Zenon
  <2>4. bgp_path_info_cmp(p, new_select) <=> Then(LlgrCheck(p, new_select), Verdict(p, new_select)) = "wins"
    BY Unweighed, Zenon
  <2>5. CASE bgp_path_info_cmp(p, new_select)
    <3>1. ~attr[p].llgr /\ (attr[new_select].llgr \/ Verdict(p, new_select) = "wins")
      BY <2>4, <2>5, Zenon DEF LlgrCheck, Then
    <3>2. <<p, new_select>> \in Preferred
      BY <2>1, <3>1, Zenon DEF Preferred
    <3>3. QED
      BY <1>1, <2>2, <2>5, <3>2, Zenon
  <2>6. CASE ~bgp_path_info_cmp(p, new_select)
    <3>1. attr[p].llgr \/ (~attr[new_select].llgr /\ Verdict(p, new_select) # "wins")
      BY <2>4, <2>6, Zenon DEF LlgrCheck, Then
    <3>2. <<new_select, p>> \in Preferred
      BY <2>1, <2>3, <3>1, Zenon DEF Preferred
    <3>3. QED
      BY <1>3, <2>1, <2>2, <2>6, <3>2, Zenon
  <2>7. QED
    BY <2>5, <2>6, Zenon
<1>4. QED
  BY <1>2, <1>3, Zenon

\* Being selected makes a path no worse.
LEMMA SelectedStaysPreferred ==
    ASSUME attr' = attr, selected' = new_select, NEW q, <<new_select, q>> \in Preferred
    PROVE  <<new_select, q>> \in Preferred'
<1> DEFINE n == new_select
<1>1. n \in Own /\ q \in Own
  BY Zenon DEF Preferred
<1>2. n = q \/ attr[q].llgr \/ (~attr[n].llgr /\ Verdict(n, q) = "wins")
  BY Zenon DEF Preferred
<1>3. PICK m : m = new_select
  BY Zenon
<1>4. ById(m, q)' = ById(m, q)
  BY <1>1, <1>3, SameUltimate, Zenon DEF ById
<1>5. UpToMetric(attr, m, q)' = UpToMetric(attr, m, q)
  BY <1>1, <1>3, SameUpToMetric, Zenon
<1>6. /\ Verdict(m, q) = Then(UpToMetric(attr, m, q), Then(OldestCheck(m, q), ById(m, q)))
      /\ Verdict(m, q)' = Then(UpToMetric(attr, m, q)', Then(OldestCheck(m, q)', ById(m, q)'))
  BY Zenon DEF Verdict, TieBreak, ById
<1>7. OldestCheck(m, q)' = "wins" \/ (OldestCheck(m, q)' = "ties" /\ OldestCheck(m, q) = "ties")
  BY <1>3, Zenon DEF OldestCheck
<1>8. Verdict(m, q) = "wins" => Verdict(m, q)' = "wins"
  BY <1>4, <1>5, <1>6, <1>7, Zenon DEF Then
<1>9. QED
  BY <1>1, <1>2, <1>3, <1>8, Zenon DEF Preferred

\* the walk's own variables
cursor == <<phase, todo, inner, new_select, check, dmed, mp_list>>

\* nothing the preference rests on has changed, and no path has become usable
Quiet ==
    /\ UNCHANGED <<attr, selected, multipath, scheduled, cursor>>
    /\ EligiblePaths' \subseteq EligiblePaths

\* the destination has been changed, and scheduled
Rescheduled == phase' = "idle" /\ scheduled' /\ mp_list' = {}

\* Outside a walk, what could change the best path schedules the destination.
LEMMA TableOff ==
    ASSUME IInv, UsableInv, OffInv, NEW p \in Paths,
           \/ bgp_update(p) \/ vpn_leak_to_vrf_update(p) \/ bgp_withdraw(p)
           \/ PeerDown(p) \/ bgp_clear_route_node(p) \/ PeerUp(p)
           \/ evaluate_paths(p)
    PROVE  OffInv' /\ (Quiet \/ Rescheduled)
<1>0. /\ Idle => phase = "idle" /\ mp_list = {}
      /\ ~enabled /\ Listed \subseteq Own /\ removed \cap valid = {}
      /\ list \in Seq(Paths) /\ IsInjective(list)
      /\ \A q \in Listed \ established : HasSession(q) => q \in clearing \cup removed
  BY Zenon DEF IInv, TypeOK, WalkInv, OffInv, UsableInv, Idle
<1>1. CASE bgp_update(p)
  <2>1. PICK a \in Attrs[p] : bgp_path_info_store(p, a)
    BY <1>1, Zenon DEF bgp_update
  <2>2. Idle /\ p \in Own
    BY <1>1, Zenon DEF bgp_update, Own
  <2>3. Listed' \subseteq Listed \cup {p}
    <3>1. CASE p \in Listed
      BY <2>1, <3>1, Zenon DEF bgp_path_info_store, Listed
    <3>2. CASE p \notin Listed
      <4>1. list' = <<p>> \o list
        BY <2>1, <3>2, Zenon DEF bgp_path_info_store
      <4>2. QED
        BY <1>0, <3>2, <4>1, AtHead, ZenonT(60) DEF Listed
    <3>3. QED
      BY <3>1, <3>2, Zenon
  <2>4. UNCHANGED <<prober, walk>> /\ scheduled' = TRUE
    BY <2>1, Zenon DEF bgp_path_info_store
  <2>5. OffInv'
    BY <1>0, <2>2, <2>3, <2>4, Zenon DEF OffInv, prober
  <2>6. Rescheduled
    BY <1>0, <2>2, <2>4, Zenon DEF Rescheduled, walk
  <2>7. QED
    BY <2>5, <2>6, Zenon
<1>2. CASE vpn_leak_to_vrf_update(p)
  <2>1. UNCHANGED <<list, attr, valid, scheduled, chosen, sessions, prober, walk>>
    BY <1>0, <1>2, Zenon DEF vpn_leak_to_vrf_update
  <2>2. Listed' = Listed /\ EligiblePaths' = EligiblePaths
    BY <2>1, SameEligible, Zenon DEF sessions
  <2>3. OffInv'
    BY <1>0, <2>1, <2>2, Zenon DEF OffInv, prober
  <2>4. QED
    BY <2>1, <2>2, <2>3, Zenon DEF Quiet, chosen, walk, cursor
<1>3. CASE bgp_withdraw(p) \/ (bgp_clear_route_node(p) /\ p \in Listed)
  <2>1. Idle /\ bgp_path_info_delete(p)
    BY <1>3, Zenon DEF bgp_withdraw, bgp_clear_route_node
  <2>2. UNCHANGED <<list, prober, walk>> /\ scheduled' = TRUE
    BY <2>1, Zenon DEF bgp_path_info_delete
  <2>3. QED
    BY <1>0, <2>1, <2>2, Zenon DEF OffInv, Rescheduled, Listed, prober, walk
<1>4. CASE \/ PeerDown(p) \/ PeerUp(p)
           \/ bgp_clear_route_node(p) /\ p \notin Listed
  <2>1. UNCHANGED <<table, chosen, prober, scheduled, walk>>
    BY <1>4, Zenon DEF PeerDown, PeerUp, bgp_clear_route_node
  <2>2. Listed' = Listed /\ valid' = valid
    BY <2>1, Zenon DEF Listed, table
  <2>3. \/ established' \subseteq established
        \/ established' = established \cup {p} /\ p \notin established \cup clearing /\ HasSession(p)
    BY <1>4, Zenon DEF PeerDown, PeerUp, bgp_clear_route_node
  <2>4. EligiblePaths' \subseteq EligiblePaths
    BY <1>0, <2>2, <2>3, Zenon DEF EligiblePaths, Eligible
  <2>5. OffInv'
    BY <1>0, <2>1, <2>2, Zenon DEF OffInv, prober
  <2>6. QED
    BY <2>1, <2>4, <2>5, Zenon DEF Quiet, table, chosen, walk, cursor
<1>5. CASE evaluate_paths(p)
  <2>1. Idle /\ UNCHANGED <<list, prober, walk>> /\ scheduled' = TRUE
    BY <1>5, Zenon DEF evaluate_paths
  <2>2. QED
    BY <1>0, <2>1, Zenon DEF OffInv, Rescheduled, Listed, prober, walk
<1>6. QED
  BY <1>1, <1>2, <1>3, <1>4, <1>5, Zenon

\* The same of every step that is none of a walk.
LEMMA AwayOff ==
    ASSUME IInv, UsableInv, OffInv, Modes \subseteq {FALSE}, [Next]_vars, ~Walk
    PROVE  OffInv' /\ (Quiet \/ Rescheduled)
<1>1. CASE LookUp \/ UNCHANGED vars
  <2>1. UNCHANGED <<table, chosen, sessions, prober, scheduled, cursor>>
    BY <1>1, Zenon DEF LookUp, vars, walk, cursor
  <2>2. Listed' = Listed /\ EligiblePaths' = EligiblePaths
    BY <2>1, SameEligible, Zenon DEF table, sessions
  <2>3. QED
    BY <2>1, <2>2, Zenon DEF OffInv, Quiet, table, chosen, prober, walk, cursor
<1>2. CASE \E p \in Paths : Measure(p)
  <2>1. UNCHANGED <<table, chosen, sessions, enabled, scheduled, cursor>>
    BY <1>2, Zenon DEF Measure, cursor
  <2>2. Listed' = Listed /\ EligiblePaths' = EligiblePaths
    BY <2>1, SameEligible, Zenon DEF table, sessions
  <2>3. QED
    BY <2>1, <2>2, Zenon DEF OffInv, Quiet, table, chosen
<1>3. ASSUME NEW p \in Paths PROVE ~Elsewhere(p)
  BY Zenon DEF Elsewhere, OffInv
<1>4. ASSUME NEW on \in BOOLEAN PROVE ~check_latency(on)
  BY SwitchesAssumption, Zenon DEF check_latency, OffInv, IInv, TypeOK
<1>5. QED
  BY <1>1, <1>2, <1>3, <1>4, TableOff, Zenon DEF Next

\* A step of a walk leaves the latency check off and the paths usable.
LEMMA WalkOff ==
    ASSUME IInv, OffInv, Walk
    PROVE  OffInv'
<1>1. enabled' = enabled
  BY Zenon DEF Walk, bgp_best_selection, DmedOuter, DmedInner, DmedGroupEnd, DmedEnd, SelectStep, SelectEnd,
         MpathStep, MpathEnd, bgp_process_main_one, SameWalk, prober
<1>2. \/ list' = list
      \/ \E p : bgp_path_info_reap(p)
  BY Zenon DEF Walk, bgp_best_selection, DmedOuter, DmedInner, DmedGroupEnd, DmedEnd, SelectStep, SelectEnd,
         MpathStep, MpathEnd, bgp_process_main_one, SameWalk, table
<1>3. Listed' \subseteq Listed
  <2>1. CASE list' = list
    BY <2>1, Zenon DEF Listed
  <2>2. CASE \E p : bgp_path_info_reap(p)
    BY <2>2, ReapStep, Zenon DEF IInv, TypeOK
  <2>3. QED
    BY <1>2, <2>1, <2>2, Zenon
<1>4. QED
  BY <1>1, <1>3, Zenon DEF OffInv

\* Every usable path the walk has passed is the best so far of some group, or
\* has lost to one; the best path has won over all that are usable.
PickInv ==
    /\ phase = "dmed" =>
           \A q \in EligiblePaths :
               q \in Range(todo) \ check \/ \E d \in dmed : <<d, q>> \in Preferred
    /\ phase = "inner" =>
           \A q \in EligiblePaths :
               \/ q \in Range(Tail(todo)) \ check
               \/ \E d \in dmed \cup {new_select} : <<d, q>> \in Preferred
    /\ phase = "select" =>
           /\ DETERMINISTIC_MED => \A q \in EligiblePaths : \E d \in dmed : <<d, q>> \in Preferred
           /\ \A q \in EligiblePaths \ Range(todo) :
                  (DETERMINISTIC_MED => q \in dmed) => <<new_select, q>> \in Preferred
    /\ phase \in {"mpath", "end"} =>
           \A q \in EligiblePaths : <<new_select, q>> \in Preferred
    /\ Idle /\ ~scheduled /\ selected # NULL =>
           \A q \in EligiblePaths : <<selected, q>> \in Preferred

\* A path is as good as itself.
LEMMA PreferredReflexive ==
    ASSUME NEW p \in Own
    PROVE  <<p, p>> \in Preferred
  BY Zenon DEF Preferred

\* What a walk compares are own paths.
LEMMA WalksOwn ==
    ASSUME IInv, OffInv
    PROVE  /\ EligiblePaths \subseteq Own /\ dmed \subseteq Own /\ new_select \in Own \cup {NULL}
           /\ attr \in [Paths -> Attr] /\ parent \in [Paths -> Attr] /\ ~enabled
           /\ todo \in Seq(Paths) /\ inner \in Seq(Paths) /\ list \in Seq(Paths) /\ IsInjective(list)
<1>1. EligiblePaths \subseteq Own
  BY UsableArePaths, Zenon DEF IInv, OffInv
<1>2. dmed \subseteq EligiblePaths /\ (new_select # NULL => new_select \in EligiblePaths)
  BY Zenon DEF IInv, WalkInv
<1>3. QED
  BY <1>1, <1>2, Zenon DEF IInv, TypeOK, OffInv

\* Nothing a walk relies on changes outside of it.
LEMMA AwayPick ==
    ASSUME PickInv, Quiet \/ Rescheduled
    PROVE  PickInv'
<1>1. CASE Rescheduled
  BY <1>1, Zenon DEF Rescheduled, PickInv, Idle
<1>2. CASE Quiet
  <2>1. /\ UNCHANGED <<selected, scheduled, phase, todo, new_select, check, dmed>>
        /\ EligiblePaths' \subseteq EligiblePaths
        /\ Preferred' = Preferred
    BY <1>2, SamePreferred, Zenon DEF Quiet, cursor
  <2>2. QED
    BY <2>1, Zenon DEF PickInv, Idle
<1>3. QED
  BY <1>1, <1>2, Zenon

\* The steps of deterministic-med.
LEMMA DmedPick ==
    ASSUME IInv, OffInv, PickInv, ALWAYS_COMPARE_MED,
           \/ bgp_best_selection \/ DmedOuter \/ DmedInner \/ DmedGroupEnd \/ DmedEnd
    PROVE  PickInv'
<1>0. /\ EligiblePaths \subseteq Own /\ dmed \subseteq Own /\ new_select \in Own \cup {NULL}
      /\ attr \in [Paths -> Attr] /\ parent \in [Paths -> Attr] /\ ~enabled
      /\ todo \in Seq(Paths) /\ inner \in Seq(Paths) /\ list \in Seq(Paths) /\ IsInjective(list)
  BY WalksOwn, Zenon
<1>1. EligiblePaths \subseteq Range(list)
  BY Zenon DEF EligiblePaths, Listed
<1>2. todo # <<>> => Range(todo) \subseteq {Head(todo)} \cup Range(Tail(todo))
  BY <1>0, HeadTail, Zenon
<1>3. Range(<<>>) = {}
  BY DEF Range
<1>4. ASSUME SameWalk PROVE EligiblePaths' = EligiblePaths /\ selected' = selected
  BY <1>4, SameEligible, Zenon DEF SameWalk, sessions, chosen
<1>5. CASE bgp_best_selection
  <2>1. /\ phase' = IF DETERMINISTIC_MED THEN "dmed" ELSE "select"
        /\ todo' = list /\ check' = {}
        /\ UNCHANGED <<table, sessions>>
    BY <1>5, Zenon DEF bgp_best_selection
  <2>2. EligiblePaths' = EligiblePaths
    BY <2>1, SameEligible, Zenon DEF table, sessions
  <2>3. QED
    BY <1>1, <2>1, <2>2, SwitchesAssumption, Zenon DEF PickInv, Idle
<1>6. CASE DmedOuter
  <2>1. /\ phase = "dmed" /\ todo # <<>> /\ UNCHANGED <<attr, check, dmed>>
        /\ EligiblePaths' = EligiblePaths /\ selected' = selected
    BY <1>4, <1>6, Zenon DEF DmedOuter
  <2>2. Preferred' = Preferred
    BY <2>1, SamePreferred, Zenon
  <2>3. \/ /\ phase' = "inner" /\ new_select' = Head(todo) /\ todo' = todo /\ Eligible(Head(todo))
        \/ /\ phase' = "dmed" /\ todo' = Tail(todo)
           /\ Head(todo) \in check \/ ~Eligible(Head(todo))
    BY <1>6, <2>1, Zenon DEF DmedOuter
  <2>4. Head(todo) \in EligiblePaths => Eligible(Head(todo)) /\ <<Head(todo), Head(todo)>> \in Preferred
    BY <1>0, PreferredReflexive, Zenon DEF EligiblePaths
  <2>5. \A q \in EligiblePaths : q \in Range(todo) \ check \/ \E d \in dmed : <<d, q>> \in Preferred
    BY <2>1, Zenon DEF PickInv
  <2>6. CASE phase' = "inner" /\ new_select' = Head(todo) /\ todo' = todo
    BY <1>2, <2>1, <2>2, <2>4, <2>5, <2>6, Zenon DEF PickInv, Idle
  <2>7. CASE phase' = "dmed" /\ todo' = Tail(todo) /\ (Head(todo) \in check \/ ~Eligible(Head(todo)))
    BY <1>2, <2>1, <2>2, <2>4, <2>5, <2>7, Zenon DEF PickInv, Idle
  <2>8. QED
    BY <2>3, <2>6, <2>7, Zenon
<1>7. CASE DmedInner
  <2> DEFINE p == Head(inner)
  <2>1. /\ phase = "inner" /\ inner # <<>> /\ phase' = phase /\ todo' = todo /\ dmed' = dmed
        /\ EligiblePaths' = EligiblePaths /\ selected' = selected
    BY <1>4, <1>7, Zenon DEF DmedInner
  <2>2. \A q \in EligiblePaths : \/ q \in Range(Tail(todo)) \ check
                                 \/ \E d \in dmed \cup {new_select} : <<d, q>> \in Preferred
    BY <2>1, Zenon DEF PickInv
  <2>3. \/ UNCHANGED <<attr, new_select, check>>
        \/ Eligible(p) /\ Contend(p) /\ check' = check \cup {p}
    BY <1>7, Zenon DEF DmedInner
  <2>4. CASE UNCHANGED <<attr, new_select, check>>
    BY <2>1, <2>2, <2>4, SamePreferred, Zenon DEF PickInv, Idle
  <2>5. CASE Eligible(p) /\ Contend(p) /\ check' = check \cup {p}
    <3>1. p \in Own
      <4>1. p \in Listed
        BY <1>0, <2>1, HeadTail, Zenon DEF IInv, WalkInv
      <4>2. QED
        BY <4>1, Zenon DEF OffInv
    <3>2. new_select # NULL
      BY <2>1, Zenon DEF IInv, WalkInv
    <3> HIDE DEF p
    <3>3. /\ attr' = attr /\ <<new_select', p>> \in Preferred
          /\ <<new_select', new_select>> \in Preferred
      BY <1>0, <2>5, <3>1, <3>2, ContendPrefers, Zenon
    <3>4. Preferred' = Preferred
      BY <2>1, <3>3, SamePreferred, Zenon
    <3>5. \A q : <<new_select, q>> \in Preferred => <<new_select', q>> \in Preferred
      BY <1>0, <3>3, PreferredTransitive, Zenon
    <3>6. \A q \in EligiblePaths : \/ q \in Range(Tail(todo)) \ check'
                                   \/ \E d \in dmed \cup {new_select'} : <<d, q>> \in Preferred
      <4> TAKE q \in EligiblePaths
      <4>1. CASE q = p
        BY <3>3, <4>1, Zenon
      <4>2. CASE q # p /\ q \in Range(Tail(todo)) \ check
        BY <2>5, <4>2, Zenon
      <4>3. CASE \E d \in dmed \cup {new_select} : <<d, q>> \in Preferred
        BY <3>5, <4>3, Zenon
      <4>4. QED
        BY <2>2, <4>1, <4>2, <4>3, Zenon
    <3>7. QED
      BY <2>1, <3>4, <3>6, Zenon DEF PickInv, Idle
  <2>6. QED
    BY <2>3, <2>4, <2>5, Zenon
<1>8. CASE DmedGroupEnd
  <2>1. /\ phase = "inner" /\ phase' = "dmed" /\ todo' = Tail(todo) /\ attr' = attr
        /\ check' = check \cup {new_select} /\ dmed' = dmed \cup {new_select}
        /\ EligiblePaths' = EligiblePaths /\ selected' = selected
    BY <1>4, <1>8, Zenon DEF DmedGroupEnd
  <2>2. new_select \in Own /\ <<new_select, new_select>> \in Preferred
    BY <1>0, <2>1, PreferredReflexive, Zenon DEF IInv, WalkInv
  <2>3. \A q \in EligiblePaths : \/ q \in Range(Tail(todo)) \ check
                                 \/ \E d \in dmed \cup {new_select} : <<d, q>> \in Preferred
    BY <2>1, Zenon DEF PickInv
  <2>4. \A q \in EligiblePaths : q \in Range(Tail(todo)) \ check'
                                 \/ \E d \in dmed' : <<d, q>> \in Preferred
    BY <2>1, <2>2, <2>3, Zenon
  <2>5. QED
    BY <2>1, <2>4, SamePreferred, Zenon DEF PickInv, Idle
<1>9. CASE DmedEnd
  <2>1. /\ phase = "dmed" /\ todo = <<>> /\ phase' = "select" /\ todo' = list
        /\ UNCHANGED <<attr, check, dmed>> /\ EligiblePaths' = EligiblePaths /\ selected' = selected
    BY <1>4, <1>9, Zenon DEF DmedEnd
  <2>2. \A q \in EligiblePaths : \E d \in dmed : <<d, q>> \in Preferred
    BY <1>3, <2>1, Zenon DEF PickInv
  <2>3. QED
    BY <1>1, <2>1, <2>2, SamePreferred, Zenon DEF PickInv, Idle
<1>10. QED
  BY <1>5, <1>6, <1>7, <1>8, <1>9, Zenon

\* The selection proper, and the search for multipaths.
LEMMA SelectPick ==
    ASSUME IInv, OffInv, PickInv, ALWAYS_COMPARE_MED,
           SelectStep \/ SelectEnd \/ MpathStep \/ MpathEnd
    PROVE  PickInv'
<1>0. /\ EligiblePaths \subseteq Own /\ dmed \subseteq Own /\ new_select \in Own \cup {NULL}
      /\ attr \in [Paths -> Attr] /\ parent \in [Paths -> Attr] /\ ~enabled
      /\ todo \in Seq(Paths) /\ inner \in Seq(Paths) /\ list \in Seq(Paths) /\ IsInjective(list)
  BY WalksOwn, Zenon
<1>1. todo # <<>> => Range(todo) \subseteq {Head(todo)} \cup Range(Tail(todo)) /\ Head(todo) \in Listed
  BY <1>0, HeadTail, Zenon DEF IInv, WalkInv
<1>2. Range(<<>>) = {}
  BY DEF Range
<1>3. ASSUME SameWalk PROVE EligiblePaths' = EligiblePaths /\ selected' = selected
  BY <1>3, SameEligible, Zenon DEF SameWalk, sessions, chosen
<1>4. CASE SelectStep
  <2> DEFINE p == Head(todo)
             dead == IF p \in removed /\ p \notin valid /\ p # selected THEN p ELSE NULL
  <2>1. /\ phase = "select" /\ todo # <<>> /\ todo' = Tail(todo) /\ phase' = phase
        /\ dmed' = dmed /\ valid' = valid /\ established' = established /\ selected' = selected
        /\ bgp_path_info_reap(dead)
    BY <1>4, Zenon DEF SelectStep, sessions, chosen
  <2>2. dead \notin valid \/ dead = NULL
    BY Zenon
  <2>3. IF Eligible(p) /\ (DETERMINISTIC_MED => p \in dmed)
        THEN Contend(p) ELSE attr' = attr /\ new_select' = new_select
    BY <1>4, Zenon DEF SelectStep
  <2>4. p \in Own /\ Range(todo) \subseteq {p} \cup Range(Tail(todo))
    BY <1>1, <2>1, Zenon DEF OffInv
  <2> HIDE DEF dead, p
  <2>5. Listed' = Listed \ {dead}
    BY <2>1, ReapStep, Zenon DEF IInv, TypeOK
  <2>6. EligiblePaths' = EligiblePaths
    <3>1. NULL \notin Listed
      BY UsableArePaths, Zenon DEF IInv
    <3>2. QED
      BY <2>1, <2>2, <2>5, <3>1, Zenon DEF EligiblePaths, Eligible
  <2>7. /\ DETERMINISTIC_MED => \A q \in EligiblePaths : \E d \in dmed : <<d, q>> \in Preferred
        /\ \A q \in EligiblePaths \ Range(todo) :
               (DETERMINISTIC_MED => q \in dmed) => <<new_select, q>> \in Preferred
    BY <2>1, Zenon DEF PickInv
  <2>8. CASE Eligible(p) /\ (DETERMINISTIC_MED => p \in dmed)
    <3>1. /\ attr' = attr /\ <<new_select', p>> \in Preferred
          /\ new_select # NULL => <<new_select', new_select>> \in Preferred
      BY <1>0, <2>3, <2>4, <2>8, ContendPrefers, Zenon
    <3>2. \A q : <<new_select, q>> \in Preferred => new_select # NULL
      BY PathsAssumption, Zenon DEF Preferred, Own
    <3>3. \A q : <<new_select, q>> \in Preferred => <<new_select', q>> \in Preferred
      BY <1>0, <3>1, <3>2, PreferredTransitive, Zenon
    <3>4. \A q \in EligiblePaths \ Range(Tail(todo)) :
               (DETERMINISTIC_MED => q \in dmed) => <<new_select', q>> \in Preferred
      BY <2>4, <2>7, <3>1, <3>3, Zenon
    <3>5. QED
      BY <2>1, <2>6, <2>7, <3>1, <3>4, SamePreferred, Zenon DEF PickInv, Idle
  <2>9. CASE ~(Eligible(p) /\ (DETERMINISTIC_MED => p \in dmed))
    <3>1. attr' = attr /\ new_select' = new_select
      BY <2>3, <2>9, Zenon
    <3>2. p \in EligiblePaths => Eligible(p)
      BY Zenon DEF EligiblePaths
    <3>3. \A q \in EligiblePaths \ Range(Tail(todo)) :
               (DETERMINISTIC_MED => q \in dmed) => <<new_select, q>> \in Preferred
      BY <2>4, <2>7, <2>9, <3>2, Zenon
    <3>4. QED
      BY <2>1, <2>6, <2>7, <3>1, <3>3, SamePreferred, Zenon DEF PickInv, Idle
  <2>10. QED
    BY <2>8, <2>9, Zenon
<1>5. CASE SelectEnd
  <2>1. /\ phase = "select" /\ todo = <<>> /\ attr' = attr /\ new_select' = new_select
        /\ phase' \in {"mpath", "end"} /\ EligiblePaths' = EligiblePaths /\ selected' = selected
    BY <1>3, <1>5, Zenon DEF SelectEnd
  <2>2. /\ DETERMINISTIC_MED => \A q \in EligiblePaths : \E d \in dmed : <<d, q>> \in Preferred
        /\ \A q \in EligiblePaths : (DETERMINISTIC_MED => q \in dmed) => <<new_select, q>> \in Preferred
    BY <1>2, <2>1, Zenon DEF PickInv
  <2>3. \A q \in EligiblePaths : <<new_select, q>> \in Preferred
    <3> TAKE q \in EligiblePaths
    <3>1. CASE ~DETERMINISTIC_MED
      BY <2>2, <3>1, Zenon
    <3>2. CASE DETERMINISTIC_MED
      <4>1. PICK d \in dmed : <<d, q>> \in Preferred
        BY <2>2, <3>2, Zenon
      <4>2. d \in EligiblePaths
        BY Zenon DEF IInv, WalkInv
      <4>3. <<new_select, d>> \in Preferred
        BY <2>2, <4>2, Zenon
      <4>4. QED
        BY <1>0, <4>1, <4>3, PreferredTransitive, Zenon
    <3>3. QED
      BY <3>1, <3>2, Zenon
  <2>4. QED
    BY <2>1, <2>3, SamePreferred, Zenon DEF PickInv, Idle
<1>6. CASE MpathStep \/ MpathEnd
  <2>1. /\ phase = "mpath" /\ phase' \in {"mpath", "end"} /\ new_select' = new_select
        /\ EligiblePaths' = EligiblePaths /\ selected' = selected
    BY <1>3, <1>6, Zenon DEF MpathStep, MpathEnd
  <2>2. attr' = attr
    BY <1>0, <1>6, Unweighed, Zenon DEF MpathStep, MpathEnd
  <2>3. QED
    BY <2>1, <2>2, SamePreferred, Zenon DEF PickInv, Idle
<1>7. QED
  BY <1>4, <1>5, <1>6, Zenon

\* The path the walk ends with is preferred to every usable one.
LEMMA EndPick ==
    ASSUME IInv, OffInv, PickInv, bgp_process_main_one
    PROVE  PickInv'
<1>1. /\ phase = "end" /\ phase' = "idle" /\ selected' = new_select
      /\ UNCHANGED <<attr, valid, sessions>>
      /\ bgp_path_info_reap(OldRemoved)
  BY Zenon DEF bgp_process_main_one
<1>2. Listed' \subseteq Listed
  BY <1>1, ReapStep, Zenon DEF IInv, TypeOK
<1>3. EligiblePaths' \subseteq EligiblePaths
  BY <1>1, <1>2, Zenon DEF EligiblePaths, Eligible, sessions
<1>4. \A q \in EligiblePaths : <<new_select, q>> \in Preferred'
  BY <1>1, SelectedStaysPreferred, Zenon DEF PickInv
<1>5. QED
  BY <1>1, <1>3, <1>4, Zenon DEF PickInv, Idle

\* Every step keeps the latency check off and the preference of the walk.
LEMMA StepPick ==
    ASSUME Modes \subseteq {FALSE}, ALWAYS_COMPARE_MED
    PROVE  IInv /\ UsableInv /\ OffInv /\ PickInv /\ [Next]_vars => OffInv' /\ PickInv'
<1> SUFFICES ASSUME IInv, UsableInv, OffInv, PickInv, [Next]_vars PROVE OffInv' /\ PickInv'
  BY Zenon
<1>1. CASE Walk
  <2>1. PickInv'
    BY <1>1, DmedPick, SelectPick, EndPick, Zenon DEF Walk
  <2>2. QED
    BY <1>1, <2>1, WalkOff, Zenon
<1>2. CASE ~Walk
  BY <1>2, AwayOff, AwayPick, Zenon
<1>3. QED
  BY <1>1, <1>2, Zenon

\* At the start there is nothing to prefer.
LEMMA InitPick == Modes \subseteq {FALSE} /\ Init => OffInv /\ PickInv
<1> SUFFICES ASSUME Modes \subseteq {FALSE}, Init PROVE OffInv /\ PickInv
  BY Zenon
<1>1. Listed = {}
  BY DEF Init, Listed, Range
<1>2. OffInv
  BY <1>1, Zenon DEF Init, OffInv
<1>3. PickInv
  BY Zenon DEF Init, PickInv
<1>4. QED
  BY <1>2, <1>3, Zenon

\* While the latency check is not used the selected path is, once every queued
\* change is processed, preferred to every other usable path by
\* bgp_path_info_cmp.
THEOREM BestPreferred ==
    ASSUME Modes \subseteq {FALSE}
    PROVE  Spec => []BestIsPreferred
<1>1. CASE ~ALWAYS_COMPARE_MED
  <2>1. BestIsPreferred
    BY <1>1, Zenon DEF BestIsPreferred
  <2>2. QED
    BY <2>1, PTL
<1>2. CASE ALWAYS_COMPARE_MED
  <2>1. Init => OffInv /\ PickInv
    BY InitPick, Zenon
  <2>2. IInv /\ UsableInv /\ OffInv /\ PickInv /\ [Next]_vars => OffInv' /\ PickInv'
    BY <1>2, StepPick, Zenon
  <2>3. IInv /\ OffInv /\ PickInv => BestIsPreferred
    <3> SUFFICES ASSUME IInv, OffInv, PickInv, AtRest, selected # NULL, NEW q \in EligiblePaths \ {selected}
                 PROVE  \/ attr[q].llgr
                        \/ ~attr[selected].llgr /\ bgp_path_info_cmp(selected, q)
      BY Zenon DEF BestIsPreferred
    <3>1. <<selected, q>> \in Preferred
      BY Zenon DEF AtRest, PickInv
    <3>2. CASE attr[q].llgr
      BY <3>2, Zenon
    <3>3. CASE ~attr[q].llgr
      <4>1. ~attr[selected].llgr /\ Verdict(selected, q) = "wins"
        BY <3>1, <3>3, Zenon DEF Preferred
      <4>2. LlgrCheck(selected, q) = "ties"
        BY <3>3, <4>1, Zenon DEF LlgrCheck
      <4>3. Then(LlgrCheck(selected, q), Verdict(selected, q)) = "wins"
        BY <4>1, <4>2, Zenon DEF Then
      <4>4. QED
        BY <4>1, <4>3, Unweighed, Zenon DEF OffInv
    <3>4. QED
      BY <3>2, <3>3, Zenon
  <2>4. QED
    BY <2>1, <2>2, <2>3, WalkCorrect, UsableHolds, PTL DEF Spec
<1>3. QED
  BY <1>1, <1>2, Zenon

-----------------------------------------------------------------------------
(* The multipaths.                                                         *)

\* A set of numbers that is not empty has a least element.
LEMMA Least == ASSUME NEW T \in SUBSET Nat, T # {} PROVE \E m \in T : \A n \in T : m <= n
<1>1. IsWellFoundedOn(OpToRel(<, Nat), Nat)
  BY NatLessThanWellFounded, Zenon
<1>2. PICK m \in T : \A y \in T : ~ (<<y, m>> \in OpToRel(<, Nat))
  BY <1>1, WFMin, Zenon
<1>3. \A y \in T : ~(y < m)
  BY <1>2, Zenon DEF OpToRel
<1>4. QED
  BY <1>3

\* what an order of the candidates by nexthop counts
Before(F, p) == {q \in F : Peer[q].nexthop < Peer[p].nexthop}

\* The candidates kept have distinct nexthops, and there is one for the nexthop
\* of every candidate.
LEMMA OneForEachNexthop ==
    ASSUME mp_list \subseteq Paths
    PROVE  /\ FirstOfNexthop \subseteq mp_list
           /\ \A p, q \in FirstOfNexthop : Peer[p].nexthop = Peer[q].nexthop => p = q
           /\ \A x \in mp_list : \E f \in FirstOfNexthop : Peer[f].nexthop = Peer[x].nexthop
<1>1. FirstOfNexthop \subseteq mp_list
  BY Zenon DEF FirstOfNexthop
<1>2. \A p \in Paths : Peer[p].addr \in Nat /\ Peer[p].nexthop \in Nat
  BY PathsAssumption, Zenon
<1>3. ASSUME NEW p \in FirstOfNexthop, NEW q \in FirstOfNexthop, Peer[p].nexthop = Peer[q].nexthop
      PROVE  p = q
  <2>1. Peer[p].addr <= Peer[q].addr /\ Peer[q].addr <= Peer[p].addr
    BY <1>3, Zenon DEF FirstOfNexthop
  <2>2. p \in Paths /\ q \in Paths
    BY <1>1, Zenon
  <2>3. Peer[p].addr = Peer[q].addr
    BY <1>2, <2>1, <2>2
  <2>4. QED
    BY <2>2, <2>3, PathsAssumption, Zenon
<1>4. ASSUME NEW x \in mp_list
      PROVE  \E f \in FirstOfNexthop : Peer[f].nexthop = Peer[x].nexthop
  <2> DEFINE Rivals == {q \in mp_list : Peer[q].nexthop = Peer[x].nexthop}
             T == {Peer[q].addr : q \in Rivals}
  <2>1. T \in SUBSET Nat /\ T # {}
    BY <1>2, Zenon
  <2>2. PICK m \in T : \A n \in T : m <= n
    <3> HIDE DEF T
    <3> QED
      BY <2>1, Least, Zenon
  <2>3. PICK f \in Rivals : m = Peer[f].addr
    BY Zenon
  <2>4. f \in FirstOfNexthop
    BY <2>2, <2>3 DEF FirstOfNexthop
  <2>5. QED
    BY <2>3, <2>4, Zenon
<1>5. QED
  BY <1>1, <1>3, <1>4, Zenon

\* Taken in the order of their nexthops until the limit is met, the candidates
\* chosen stay within the limit, and fall short of it only if none is left.
LEMMA UpToTheLimit ==
    ASSUME NEW F \in SUBSET Paths, NEW M \in Nat,
           \A p, q \in F : Peer[p].nexthop = Peer[q].nexthop => p = q
    PROVE  LET C == {p \in F : Cardinality(Before(F, p)) + 1 < M}
           IN  /\ C # {} => Cardinality(C) + 1 <= M
               /\ C # F => Cardinality(C) + 1 >= M
<1> DEFINE N(p) == Cardinality(Before(F, p))
           C == {p \in F : N(p) + 1 < M}
<1>1. \A p \in Paths : Peer[p].nexthop \in Nat
  BY PathsAssumption, Zenon
<1>2. IsFiniteSet(F)
  BY PathsAssumption, FS_Subset, Zenon
<1>3. \A p : IsFiniteSet(Before(F, p)) /\ N(p) \in Nat
  <2> TAKE p
  <2>1. Before(F, p) \subseteq F
    BY Zenon DEF Before
  <2>2. QED
    BY <1>2, <2>1, FS_Subset, FS_CardinalityType, Zenon
<1>4. IsFiniteSet(C) /\ Cardinality(C) \in Nat
  <2>1. C \subseteq F
    BY Zenon
  <2>2. QED
    BY <1>2, <2>1, FS_Subset, FS_CardinalityType, Zenon
<1>5. \A p, q \in F : Peer[p].nexthop < Peer[q].nexthop => N(p) + 1 <= N(q)
  <2> SUFFICES ASSUME NEW p \in F, NEW q \in F, Peer[p].nexthop < Peer[q].nexthop
               PROVE  N(p) + 1 <= N(q)
    BY Zenon
  <2>1. p \notin Before(F, p) /\ Before(F, p) \cup {p} \subseteq Before(F, q)
    BY <1>1 DEF Before
  <2>2. Cardinality(Before(F, p) \cup {p}) = N(p) + 1
    BY <1>3, <2>1, FS_AddElement, Zenon
  <2>3. QED
    BY <1>3, <2>1, <2>2, FS_Subset
<1>6. ASSUME C # {} PROVE Cardinality(C) + 1 <= M
  <2> DEFINE T == {M - N(p) : p \in C}
  <2>1. T \in SUBSET Nat /\ T # {}
    BY <1>3, <1>6
  <2>2. PICK m \in T : \A n \in T : m <= n
    <3> HIDE DEF T
    <3> QED
      BY <2>1, Least, Zenon
  <2>3. PICK y \in C : m = M - N(y)
    BY Zenon
  <2>4. \A c \in C : N(c) <= N(y)
    <3> TAKE c \in C
    <3>1. M - N(c) \in T
      BY Zenon
    <3>2. M - N(y) <= M - N(c)
      BY <2>2, <2>3, <3>1, ZenonT(60)
    <3>3. QED
      BY <1>3, <3>2
  <2>5. C \subseteq Before(F, y) \cup {y}
    <3> SUFFICES ASSUME NEW c \in C, c # y PROVE c \in Before(F, y)
      BY Zenon
    <3>1. ~(Peer[y].nexthop < Peer[c].nexthop)
      BY <1>3, <1>5, <2>4
    <3>2. Peer[y].nexthop # Peer[c].nexthop /\ c \in Paths /\ y \in Paths
      BY Zenon
    <3>3. Peer[c].nexthop < Peer[y].nexthop
      BY <1>1, <3>1, <3>2
    <3>4. QED
      BY <3>3, ZenonT(60) DEF Before
  <2>6. /\ IsFiniteSet(Before(F, y) \cup {y})
        /\ Cardinality(Before(F, y) \cup {y}) = N(y) + 1
    <3>1. y \notin Before(F, y)
      BY <1>1 DEF Before
    <3>2. QED
      BY <1>3, <3>1, FS_AddElement, ZenonT(60)
  <2>7. Cardinality(C) <= N(y) + 1
    <3> HIDE DEF C, N
    <3> QED
      BY <2>5, <2>6, FS_Subset
  <2>8. QED
    BY <1>3, <1>4, <2>7
<1>7. ASSUME C # F PROVE Cardinality(C) + 1 >= M
  <2> DEFINE T == {Peer[p].nexthop : p \in F \ C}
  <2>1. T \in SUBSET Nat /\ T # {}
    BY <1>1, <1>7
  <2>2. PICK m \in T : \A n \in T : m <= n
    <3> HIDE DEF T
    <3> QED
      BY <2>1, Least, Zenon
  <2>3. PICK z \in F \ C : m = Peer[z].nexthop
    BY ZenonT(60)
  <2>4. Before(F, z) \subseteq C
    <3> SUFFICES ASSUME NEW b \in Before(F, z), b \notin C PROVE FALSE
      BY ZenonT(60)
    <3>1. b \in F /\ Peer[b].nexthop < Peer[z].nexthop
      BY ZenonT(60) DEF Before
    <3>2. Peer[z].nexthop <= Peer[b].nexthop
      BY <2>2, <2>3, <3>1
    <3>3. QED
      BY <1>1, <3>1, <3>2
  <2>5. N(z) <= Cardinality(C)
    <3> HIDE DEF C
    <3> QED
      BY <1>4, <2>4, FS_Subset, ZenonT(60)
  <2>6. N(z) + 1 >= M
    BY <1>3, <2>3
  <2>7. QED
    BY <1>3, <1>4, <2>5, <2>6
<1>8. QED
  BY <1>6, <1>7, Zenon

\* the multipaths are right while best is the path they go with
Group(best, others) ==
    /\ \A m \in others : <<m, best>> \in Sharing
    /\ \A m, n \in others : Peer[m].nexthop = Peer[n].nexthop => m = n
    /\ others # {} => Cardinality(others) + 1 <= MaxPaths(best)
    /\ \A q \in EligiblePaths \ others :
           <<q, best>> \in Sharing =>
               \/ Cardinality(others) + 1 >= MaxPaths(best)
               \/ \E m \in others : Peer[m].nexthop = Peer[q].nexthop

\* The candidates are the usable paths met so far that tie with the best one.
MpathInv ==
    /\ phase \notin {"mpath", "end"} => mp_list = {}
    /\ \A q \in mp_list : <<q, new_select>> \in Sharing
    /\ phase = "mpath" =>
           \A q \in EligiblePaths \ Range(todo) : <<q, new_select>> \in Sharing => q \in mp_list
    /\ phase = "end" /\ do_mpath =>
           \A q \in EligiblePaths : <<q, new_select>> \in Sharing => q \in mp_list
    /\ Idle /\ ~scheduled /\ selected # NULL /\ do_mpath => Group(selected, multipath)

\* The multipaths stay right when no path becomes usable.
LEMMA SameGroup ==
    ASSUME Group(selected, multipath), Sharing' = Sharing, EligiblePaths' \subseteq EligiblePaths,
           selected' = selected, multipath' = multipath
    PROVE  Group(selected, multipath)'
  BY ZenonT(60) DEF Group, MaxPaths

\* Outside a walk nothing is added to the candidates.
LEMMA AwayMpath ==
    ASSUME MpathInv, OffInv, OffInv', Quiet \/ Rescheduled
    PROVE  MpathInv'
<1>1. CASE Rescheduled
  BY <1>1, ZenonT(60) DEF Rescheduled, MpathInv, Idle
<1>2. CASE Quiet
  <2>1. /\ UNCHANGED <<attr, selected, multipath, scheduled, phase, todo, new_select, mp_list>>
        /\ EligiblePaths' \subseteq EligiblePaths
    BY <1>2, ZenonT(60) DEF Quiet, cursor
  <2>2. Sharing' = Sharing
    BY <2>1, SameSharing, ZenonT(60) DEF OffInv
  <2>3. Idle /\ ~scheduled /\ selected # NULL /\ do_mpath => Group(selected, multipath)'
    BY <2>1, <2>2, SameGroup, ZenonT(60) DEF MpathInv
  <2>4. /\ phase \notin {"mpath", "end"} => mp_list = {}
        /\ \A q \in mp_list : <<q, new_select>> \in Sharing
        /\ phase = "mpath" =>
               \A q \in EligiblePaths \ Range(todo) : <<q, new_select>> \in Sharing => q \in mp_list
        /\ phase = "end" /\ do_mpath =>
               \A q \in EligiblePaths : <<q, new_select>> \in Sharing => q \in mp_list
    BY Zenon DEF MpathInv
  <2>5. QED
    BY <2>1, <2>2, <2>3, <2>4, ZenonT(60) DEF MpathInv, Idle, do_mpath
<1>3. QED
  BY <1>1, <1>2, ZenonT(60)

\* The walk collects every usable path that ties with the best one.
LEMMA WalkMpath ==
    ASSUME IInv, OffInv, MpathInv,
           \/ bgp_best_selection \/ DmedOuter \/ DmedInner \/ DmedGroupEnd \/ DmedEnd
           \/ SelectStep \/ SelectEnd \/ MpathStep \/ MpathEnd
    PROVE  MpathInv'
<1>0. /\ EligiblePaths \subseteq Own /\ new_select \in Own \cup {NULL} /\ ~enabled
      /\ todo \in Seq(Paths) /\ list \in Seq(Paths)
  BY WalksOwn, ZenonT(60)
<1>1. todo # <<>> => Range(todo) \subseteq {Head(todo)} \cup Range(Tail(todo)) /\ Head(todo) \in Listed
  BY <1>0, HeadTail, ZenonT(60) DEF IInv, WalkInv
<1>2. Range(<<>>) = {} /\ EligiblePaths \subseteq Range(list)
  BY DEF Range, EligiblePaths, Listed
<1>3. CASE \/ bgp_best_selection \/ DmedOuter \/ DmedInner \/ DmedGroupEnd \/ DmedEnd \/ SelectStep
  <2>1. phase \notin {"mpath", "end"} /\ phase' \in {"dmed", "inner", "select"}
    BY <1>3, SwitchesAssumption, ZenonT(60) DEF bgp_best_selection, DmedOuter, DmedInner, DmedGroupEnd, DmedEnd, SelectStep, Idle
  <2>2. mp_list = {}
    BY <2>1, ZenonT(60) DEF MpathInv
  <2>3. mp_list' = {}
    BY <1>3, <2>2, ZenonT(60) DEF bgp_best_selection, DmedOuter, DmedInner, DmedGroupEnd, DmedEnd, SelectStep
  <2>4. QED
    BY <2>1, <2>3, ZenonT(60) DEF MpathInv, Idle
<1>4. ASSUME SameWalk, attr' = attr PROVE EligiblePaths' = EligiblePaths /\ Sharing' = Sharing
  <2>1. EligiblePaths' = EligiblePaths
    BY <1>4, SameEligible, ZenonT(60) DEF SameWalk, sessions
  <2>2. ~enabled'
    BY <1>0, <1>4, ZenonT(60) DEF SameWalk, prober
  <2>3. QED
    BY <1>0, <1>4, <2>1, <2>2, SameSharing, ZenonT(60)
<1>5. CASE SelectEnd
  <2>1. /\ phase = "select" /\ todo' = list /\ mp_list' = mp_list /\ new_select' = new_select
        /\ phase' = IF do_mpath /\ new_select # NULL THEN "mpath" ELSE "end"
        /\ EligiblePaths' = EligiblePaths /\ Sharing' = Sharing
    BY <1>4, <1>5, Zenon DEF SelectEnd
  <2>2. mp_list = {}
    BY <2>1, Zenon DEF MpathInv
  <2>3. \A q : <<q, NULL>> \notin Sharing
    BY PathsAssumption, Zenon DEF Sharing, Own
  <2>4. CASE phase' = "mpath"
    BY <1>2, <2>1, <2>2, <2>4, ZenonT(60) DEF MpathInv, Idle
  <2>5. CASE phase' = "end" /\ ~(do_mpath /\ new_select # NULL)
    BY <2>1, <2>2, <2>3, <2>5, ZenonT(60) DEF MpathInv, Idle, do_mpath
  <2>6. QED
    BY <2>1, <2>4, <2>5, ZenonT(60)
<1>6. CASE MpathStep
  <2> DEFINE p == Head(todo)
  <2>1. /\ phase = "mpath" /\ todo # <<>> /\ todo' = Tail(todo) /\ phase' = phase /\ new_select' = new_select
        /\ SameWalk
    BY <1>6, Zenon DEF MpathStep
  <2>2. IF p = new_select \/ ~Eligible(p) \/ Peer[p].nexthop = Peer[new_select].nexthop
        THEN attr' = attr /\ mp_list' = mp_list
        ELSE /\ attr' = AttrAfter(p, new_select)
             /\ mp_list' = IF paths_eq(p, new_select) THEN mp_list \cup {p} ELSE mp_list
    BY <1>6, Zenon DEF MpathStep
  <2>3. attr' = attr
    BY <1>0, <2>2, Unweighed, Zenon
  <2>4. EligiblePaths' = EligiblePaths /\ Sharing' = Sharing
    BY <1>4, <2>1, <2>3, ZenonT(60)
  <2>5. p \in Own /\ Range(todo) \subseteq {p} \cup Range(Tail(todo)) /\ new_select \in Own
    BY <1>0, <1>1, <2>1, Zenon DEF OffInv, IInv, WalkInv
  <2>6. p \in EligiblePaths => Eligible(p)
    BY Zenon DEF EligiblePaths
  <2> HIDE DEF p
  <2>7. /\ \A q \in mp_list : <<q, new_select>> \in Sharing
        /\ \A q \in EligiblePaths \ Range(todo) : <<q, new_select>> \in Sharing => q \in mp_list
    BY <2>1, Zenon DEF MpathInv
  <2>8. mp_list \subseteq mp_list' /\ mp_list' \subseteq mp_list \cup {p}
    BY <2>2, Zenon
  <2>9. p \in mp_list' => p \in mp_list \/ <<p, new_select>> \in Sharing
    BY <2>2, <2>5, Zenon DEF Sharing
  <2>10. p \in EligiblePaths /\ <<p, new_select>> \in Sharing => p \in mp_list'
    BY <2>2, <2>6, Zenon DEF Sharing
  <2>11. \A q \in mp_list' : <<q, new_select>> \in Sharing
    BY <2>7, <2>8, <2>9, Zenon
  <2>12. \A q \in EligiblePaths \ Range(Tail(todo)) : <<q, new_select>> \in Sharing => q \in mp_list'
    BY <2>5, <2>7, <2>8, <2>10, ZenonT(60)
  <2>13. QED
    BY <2>1, <2>4, <2>11, <2>12, ZenonT(60) DEF MpathInv, Idle
<1>7. CASE MpathEnd
  <2>1. /\ phase = "mpath" /\ todo = <<>> /\ phase' = "end" /\ mp_list' = mp_list /\ new_select' = new_select
        /\ EligiblePaths' = EligiblePaths /\ Sharing' = Sharing
    BY <1>4, <1>7, Zenon DEF MpathEnd
  <2>2. QED
    BY <1>2, <2>1, Zenon DEF MpathInv, Idle
<1>8. QED
  BY <1>3, <1>5, <1>6, <1>7, ZenonT(60)

\* The paths chosen at the end of the walk.
LEMMA EndMpath ==
    ASSUME IInv, OffInv, MpathInv, bgp_process_main_one
    PROVE  MpathInv'
<1>1. /\ phase = "end" /\ phase' = "idle" /\ selected' = new_select /\ mp_list' = {}
      /\ multipath' = bgp_path_info_mpath_update
      /\ UNCHANGED <<attr, valid, sessions, prober>>
      /\ bgp_path_info_reap(OldRemoved)
  BY Zenon DEF bgp_process_main_one
<1>2. Listed' \subseteq Listed
  BY <1>1, ReapStep, Zenon DEF IInv, TypeOK
<1>3. EligiblePaths' \subseteq EligiblePaths
  BY <1>1, <1>2, Zenon DEF EligiblePaths, Eligible, sessions
<1>4. Sharing' = Sharing
  BY <1>1, SameSharing, Zenon DEF OffInv, prober
<1>5. ASSUME new_select # NULL, do_mpath PROVE Group(new_select, multipath')
  <2> DEFINE C == {p \in FirstOfNexthop : Cardinality(Before(FirstOfNexthop, p)) + 1 < MaxPaths(new_select)}
  <2>1. mp_list \subseteq Paths /\ MaxPaths(new_select) \in Nat
    BY NumbersAssumption, Zenon DEF IInv, TypeOK, MaxPaths
  <2>2. /\ FirstOfNexthop \subseteq mp_list
        /\ \A p, q \in FirstOfNexthop : Peer[p].nexthop = Peer[q].nexthop => p = q
        /\ \A x \in mp_list : \E f \in FirstOfNexthop : Peer[f].nexthop = Peer[x].nexthop
    BY <2>1, OneForEachNexthop, Zenon
  <2>3. multipath' = C
    BY <1>1, <1>5, Zenon DEF bgp_path_info_mpath_update, EarlierNexthops, Before
  <2>4. C \subseteq FirstOfNexthop
    BY Zenon
  <2>5. /\ C # {} => Cardinality(C) + 1 <= MaxPaths(new_select)
        /\ C # FirstOfNexthop => Cardinality(C) + 1 >= MaxPaths(new_select)
    <3>1. FirstOfNexthop \in SUBSET Paths
      BY <2>1, <2>2, Zenon
    <3>2. QED
      BY <2>1, <2>2, <3>1, UpToTheLimit, Zenon
  <2> HIDE DEF C
  <2>6. /\ \A q \in mp_list : <<q, new_select>> \in Sharing
        /\ \A q \in EligiblePaths : <<q, new_select>> \in Sharing => q \in mp_list
    BY <1>1, <1>5, Zenon DEF MpathInv
  <2>7. \A m \in C : <<m, new_select>> \in Sharing
    BY <2>2, <2>4, <2>6, Zenon
  <2>8. \A m, n \in C : Peer[m].nexthop = Peer[n].nexthop => m = n
    BY <2>2, <2>4, Zenon
  <2>9. ASSUME NEW q \in EligiblePaths, <<q, new_select>> \in Sharing
        PROVE  \/ Cardinality(C) + 1 >= MaxPaths(new_select)
               \/ \E m \in C : Peer[m].nexthop = Peer[q].nexthop
    <3>1. PICK f \in FirstOfNexthop : Peer[f].nexthop = Peer[q].nexthop
      BY <2>2, <2>6, <2>9, ZenonT(60)
    <3>2. QED
      BY <2>4, <2>5, <3>1, Zenon
  <2>10. QED
    BY <2>3, <2>5, <2>7, <2>8, <2>9, ZenonT(60) DEF Group
<1>6. ASSUME new_select # NULL, do_mpath PROVE Group(selected, multipath)'
  BY <1>1, <1>3, <1>4, <1>5, <1>6, ZenonT(60) DEF Group, MaxPaths
<1>7. QED
  BY <1>1, <1>6, Zenon DEF MpathInv, Idle, do_mpath

\* While the latency check is not used the multipaths are, once every queued
\* change is processed, usable paths that tie with the selected one, of distinct
\* nexthops, and as many of them as maximum-paths allows.
THEOREM MultipathsExact ==
    ASSUME Modes \subseteq {FALSE}
    PROVE  Spec => []MultipathExact
<1>1. Init => OffInv /\ MpathInv
  <2>1. Init => OffInv
    BY InitPick, Zenon
  <2>2. Init => MpathInv
    BY Zenon DEF Init, MpathInv
  <2>3. QED
    BY <2>1, <2>2, Zenon
<1>2. IInv /\ UsableInv /\ OffInv /\ MpathInv /\ [Next]_vars => OffInv' /\ MpathInv'
  <2> SUFFICES ASSUME IInv, UsableInv, OffInv, MpathInv, [Next]_vars PROVE OffInv' /\ MpathInv'
    BY Zenon
  <2>1. CASE Walk
    <3>1. MpathInv'
      BY <2>1, WalkMpath, EndMpath, Zenon DEF Walk
    <3>2. QED
      BY <2>1, <3>1, WalkOff, ZenonT(60)
  <2>2. CASE ~Walk
    BY <2>2, AwayOff, AwayMpath, Zenon
  <2>3. QED
    BY <2>1, <2>2, ZenonT(60)
<1>3. IInv /\ OffInv /\ MpathInv => MultipathExact
  <2> DEFINE group == {selected} \cup multipath
  <2> SUFFICES ASSUME IInv, OffInv, MpathInv, AtRest, do_mpath, selected # NULL
               PROVE  /\ \A m \in multipath : paths_eq(m, selected)
                      /\ \A m, n \in group : Peer[m].nexthop = Peer[n].nexthop => m = n
                      /\ multipath # {} => Cardinality(group) <= MaxPaths(selected)
                      /\ \A q \in EligiblePaths \ group :
                             paths_eq(q, selected) =>
                                 \/ Cardinality(group) >= MaxPaths(selected)
                                 \/ \E m \in group : Peer[m].nexthop = Peer[q].nexthop
    BY Zenon DEF MultipathExact
  <2>1. Group(selected, multipath)
    BY Zenon DEF AtRest, MpathInv
  <2>2. \A m \in multipath : /\ m # selected /\ Peer[m].nexthop # Peer[selected].nexthop
                             /\ paths_eq(m, selected)
    BY <2>1, Zenon DEF Group, Sharing
  <2>3. Cardinality(group) = Cardinality(multipath) + 1
    <3>1. IsFiniteSet(multipath)
      BY PathsAssumption, FS_Subset, Zenon DEF IInv, TypeOK
    <3>2. multipath \cup {selected} = group /\ selected \notin multipath
      BY <2>2, Zenon
    <3>3. QED
      BY <3>1, <3>2, FS_AddElement, Zenon
  <2>4. \A m, n \in group : Peer[m].nexthop = Peer[n].nexthop => m = n
    BY <2>1, <2>2, Zenon DEF Group
  <2>5. multipath # {} => Cardinality(group) <= MaxPaths(selected)
    BY <2>1, <2>3, Zenon DEF Group
  <2>6. ASSUME NEW q \in EligiblePaths \ group, paths_eq(q, selected)
        PROVE  \/ Cardinality(group) >= MaxPaths(selected)
               \/ \E m \in group : Peer[m].nexthop = Peer[q].nexthop
    <3>1. CASE Peer[q].nexthop = Peer[selected].nexthop
      BY <3>1, Zenon
    <3>2. CASE Peer[q].nexthop # Peer[selected].nexthop
      <4>1. q \in Own /\ selected \in Own
        BY UsableArePaths, Zenon DEF IInv, TypeOK, OffInv
      <4>2. <<q, selected>> \in Sharing
        BY <2>6, <3>2, <4>1, Zenon DEF Sharing
      <4>3. QED
        BY <2>1, <2>3, <4>2, Zenon DEF Group
    <3>3. QED
      BY <3>1, <3>2, Zenon
  <2>7. QED
    BY <2>2, <2>4, <2>5, <2>6, ZenonT(60)
<1>4. QED
  BY <1>1, <1>2, <1>3, WalkCorrect, UsableHolds, PTL DEF Spec
=============================================================================
