--------------------------- MODULE AttrHashProofs ---------------------------
(***************************************************************************)
(* The reference counts of interned attributes, for any set of routes, AS  *)
(* paths, weights and addresses.                                           *)
(***************************************************************************)
EXTENDS AttrHash, FiniteSetTheorems, TLAPS

Bad == {"aborted", "corrupted"}

\* The table, its counters and the references, with what is to be proved.
HeapInv ==
    /\ content \in [Addresses -> Contents \cup {NULL}]
    /\ bucket \in [Addresses -> Contents \cup {NULL}]
    /\ refcnt \in [Addresses -> Nat]
    /\ ref \in [Holders -> Addresses \cup {NULL}]
    /\ lost \in [Addresses -> Nat]
    /\ rewrites \in Nat
    /\ RefcountExact
    /\ TableCanonical

\* Where the running handler is, and the references that go with it: attr_new is
\* held between its interning and its use only, and only flagged path_infos that
\* are there are freed.
Control ==
    /\ pc \in Labels
    /\ cur \in Routes \cup {NULL}
    /\ got \in Contents \cup {NULL}
    /\ pc \notin {"idle", "done"} \cup Bad => cur \in Routes
    /\ pc \in {"adj_in", "policy"} => got \in Contents
    /\ \A r \in Routes :
           ref[<<"attr_new", r>>] # NULL => r = cur /\ pc \in {"store", "leak_update", "mpath"} \cup Bad
    /\ pc \in {"store", "leak_update", "mpath"} => ref[<<"attr_new", cur>>] # NULL
    /\ pc = "leak" => ref[<<"path", cur>>] # NULL
    /\ removed \subseteq {"path", "import"} \X Routes
    /\ \A h \in removed : ref[h] # NULL

IInv == HeapInv /\ Control

\* The AS path counters: as many as there are references, of which there are
\* finitely many.
AspathInv ==
    /\ aspath_refcnt \in [ASPaths -> Int]
    /\ \A x \in ASPaths : IsFiniteSet(References(x))
    /\ AspathRefcountExact

\* The parser has given its reference back when the next event is handled.
ParserInv ==
    /\ parsed \in ASPaths \cup {NULL}
    /\ pc = "idle" => parsed = NULL

-----------------------------------------------------------------------------
(* Finite sets of holders.                                                 *)

\* There are finitely many holders.
LEMMA HoldersFinite == IsFiniteSet(Holders)
<1>1. IsFiniteSet({"path", "adj_in", "import", "mp_attr", "attr_new"})
  <2>1. IsFiniteSet({"path"})
    BY FS_Singleton, Zenon
  <2>2. IsFiniteSet({"path"} \cup {"adj_in"})
    BY <2>1, FS_AddElement, Zenon
  <2>3. IsFiniteSet(({"path"} \cup {"adj_in"}) \cup {"import"})
    BY <2>2, FS_AddElement, Zenon
  <2>4. IsFiniteSet((({"path"} \cup {"adj_in"}) \cup {"import"}) \cup {"mp_attr"})
    BY <2>3, FS_AddElement, Zenon
  <2>5. IsFiniteSet(((({"path"} \cup {"adj_in"}) \cup {"import"}) \cup {"mp_attr"}) \cup {"attr_new"})
    BY <2>4, FS_AddElement, Zenon
  <2>6. {"path", "adj_in", "import", "mp_attr", "attr_new"}
            = ((({"path"} \cup {"adj_in"}) \cup {"import"}) \cup {"mp_attr"}) \cup {"attr_new"}
    BY Zenon
  <2>7. QED
    BY <2>5, <2>6, Zenon
<1>2. QED
  BY <1>1, AttrHashAssumption, FS_Product, Zenon DEF Holders

\* So every object has a number of holders.
LEMMA HoldersOfFinite ==
    ASSUME NEW a
    PROVE  IsFiniteSet(HoldersOf(a)) /\ Cardinality(HoldersOf(a)) \in Nat
<1>1. HoldersOf(a) \subseteq Holders
  BY Zenon DEF HoldersOf
<1>2. IsFiniteSet(HoldersOf(a))
  BY <1>1, HoldersFinite, FS_Subset, Zenon
<1>3. QED
  BY <1>2, FS_CardinalityType, Zenon

\* One holder more.
LEMMA OneMore ==
    ASSUME NEW S, IsFiniteSet(S), NEW h, h \notin S
    PROVE  Cardinality(S \cup {h}) = Cardinality(S) + 1
  BY FS_AddElement, Zenon

\* One holder less.
LEMMA OneLess ==
    ASSUME NEW S, IsFiniteSet(S), NEW h \in S
    PROVE  /\ Cardinality(S \ {h}) = Cardinality(S) - 1
           /\ Cardinality(S) \in Nat \ {0}
<1>1. IsFiniteSet(S \ {h}) /\ Cardinality(S \ {h}) = Cardinality(S) - 1
  BY FS_RemoveElement, Zenon
<1>2. Cardinality(S) \in Nat /\ Cardinality(S \ {h}) \in Nat
  BY <1>1, FS_CardinalityType, Zenon
<1>3. QED
  BY <1>1, <1>2

\* A new holder for an old one.
LEMMA OneForOne ==
    ASSUME NEW S, IsFiniteSet(S), NEW g \in S, NEW h, h \notin S
    PROVE  Cardinality((S \ {g}) \cup {h}) = Cardinality(S)
<1>1. IsFiniteSet(S \ {g}) /\ Cardinality(S \ {g}) = Cardinality(S) - 1
  BY FS_RemoveElement, Zenon
<1>2. Cardinality((S \ {g}) \cup {h}) = Cardinality(S \ {g}) + 1
  BY <1>1, OneMore, Zenon
<1>3. Cardinality(S) \in Nat
  BY FS_CardinalityType, Zenon
<1>4. QED
  BY <1>1, <1>2, <1>3

-----------------------------------------------------------------------------
(* The table.                                                              *)

\* A reference leads to an object that is there and counted.
LEMMA HeldIsThere ==
    ASSUME HeapInv, NEW h \in Holders, ref[h] # NULL
    PROVE  /\ ref[h] \in Addresses
           /\ refcnt[ref[h]] \in Nat \ {0}
           /\ content[ref[h]] \in Contents
<1>1. ref[h] \in Addresses
  BY Zenon DEF HeapInv
<1>2. h \in HoldersOf(ref[h])
  BY Zenon DEF HoldersOf
<1>3. Cardinality(HoldersOf(ref[h])) \in Nat \ {0}
  BY <1>2, HoldersOfFinite, OneLess, Zenon
<1>4. refcnt[ref[h]] \in Nat \ {0}
  BY <1>1, <1>3 DEF HeapInv, RefcountExact
<1>5. QED
  BY <1>1, <1>4, Zenon DEF HeapInv, RefcountExact

\* bgp_attr_intern for a holder that has no reference yet.
LEMMA InternKeeps ==
    ASSUME HeapInv, NEW h \in Holders, NEW c \in Contents, ref[h] = NULL,
           bgp_attr_intern(h, c), UNCHANGED history, pc' \notin Bad
    PROVE  HeapInv' /\ ref'[h] # NULL /\ ref' \in [Holders -> Addresses \cup {NULL}]
           /\ \A g \in Holders : g # h => ref'[g] = ref[g]
<1> USE AttrHashAssumption, NoContent
<1>1. PICK a \in Addresses :
          /\ \/ a \in Found(c) /\ UNCHANGED <<content, bucket>>
             \/ /\ Found(c) = {}
                /\ content[a] = NULL
                /\ content' = [content EXCEPT ![a] = c]
                /\ bucket' = [bucket EXCEPT ![a] = c]
          /\ refcnt' = [refcnt EXCEPT ![a] = @ + 1]
          /\ ref' = [ref EXCEPT ![h] = a]
  BY Zenon DEF bgp_attr_intern
<1>2. lost' = lost /\ rewrites' = rewrites
  BY Zenon DEF history
<1>3. /\ content' \in [Addresses -> Contents \cup {NULL}]
      /\ bucket' \in [Addresses -> Contents \cup {NULL}]
      /\ refcnt' \in [Addresses -> Nat]
      /\ ref' \in [Holders -> Addresses \cup {NULL}]
  BY <1>1 DEF HeapInv
<1>4. /\ HoldersOf(a)' = HoldersOf(a) \cup {h}
      /\ \A b \in Addresses : b # a => HoldersOf(b)' = HoldersOf(b)
      /\ h \notin HoldersOf(a)
  BY <1>1 DEF HeapInv, HoldersOf
<1>5. RefcountExact'
  <2> SUFFICES ASSUME NEW b \in Addresses
               PROVE  /\ refcnt'[b] = Cardinality(HoldersOf(b)') + lost'[b]
                      /\ content'[b] = NULL <=> refcnt'[b] = 0
    BY Zenon DEF RefcountExact
  <2>1. Cardinality(HoldersOf(b)) \in Nat /\ lost[b] \in Nat /\ refcnt[b] \in Nat
    BY HoldersOfFinite, Zenon DEF HeapInv
  <2>2. refcnt[b] = Cardinality(HoldersOf(b)) + lost[b] /\ (content[b] = NULL <=> refcnt[b] = 0)
    BY Zenon DEF HeapInv, RefcountExact
  <2>3. CASE b = a
    <3>1. Cardinality(HoldersOf(a)') = Cardinality(HoldersOf(a)) + 1
      BY <1>4, OneMore, HoldersOfFinite, Zenon
    <3>2. refcnt'[b] = refcnt[b] + 1
      BY <1>1, <2>3, Zenon DEF HeapInv
    <3>3. content'[b] # NULL
      BY <1>1, <2>3, Zenon DEF HeapInv, Found
    <3>4. QED
      BY <1>2, <2>1, <2>2, <2>3, <3>1, <3>2, <3>3
  <2>4. CASE b # a
    BY <1>1, <1>2, <1>4, <2>2, <2>4, Zenon DEF HeapInv
  <2>5. QED
    BY <2>3, <2>4, Zenon
<1>6. TableCanonical'
  <2> SUFFICES ASSUME rewrites = 0
               PROVE  /\ \A b \in Addresses : bucket'[b] = content'[b]
                      /\ \A b, d \in Addresses :
                             content'[b] # NULL /\ content'[b] = content'[d] => b = d
    BY <1>2, Zenon DEF TableCanonical, Bad
  <2>1. /\ \A b \in Addresses : bucket[b] = content[b]
        /\ \A b, d \in Addresses : content[b] # NULL /\ content[b] = content[d] => b = d
    BY Zenon DEF HeapInv, TableCanonical
  <2>2. Found(c) = {} => \A b \in Addresses : content[b] # c
    BY <2>1, Zenon DEF Found
  <2>3. QED
    BY <1>1, <2>1, <2>2 DEF HeapInv
<1>7. QED
  BY <1>1, <1>2, <1>3, <1>5, <1>6, Zenon DEF HeapInv

\* bgp_attr_unintern, when the object at a has a holder less and all others have
\* as many as before.
LEMMA UninternKeeps ==
    ASSUME HeapInv, NEW a \in Addresses, NEW next, next \notin Bad, bgp_attr_unintern(a, next),
           UNCHANGED history, refcnt[a] # 0,
           ref' \in [Holders -> Addresses \cup {NULL}],
           Cardinality(HoldersOf(a)') = Cardinality(HoldersOf(a)) - 1,
           \A b \in Addresses : b # a => Cardinality(HoldersOf(b)') = Cardinality(HoldersOf(b))
    PROVE  HeapInv' /\ pc' \in {next} \cup Bad
<1> USE AttrHashAssumption, NoContent
<1>1. /\ refcnt' = [refcnt EXCEPT ![a] = @ - 1]
      /\ \/ refcnt[a] > 1 /\ content' = content /\ bucket' = bucket /\ pc' = next
         \/ /\ ~(refcnt[a] > 1)
            /\ content' = [content EXCEPT ![a] = NULL]
            /\ \/ Found(content[a]) = {} /\ bucket' = bucket /\ pc' = "aborted"
               \/ \E b \in Found(content[a]) :
                      /\ bucket' = [bucket EXCEPT ![b] = NULL]
                      /\ pc' = IF b = a THEN next ELSE "corrupted"
  BY Zenon DEF bgp_attr_unintern, Goto
<1>2. lost' = lost /\ rewrites' = rewrites
  BY Zenon DEF history
<1>3. refcnt[a] \in Nat \ {0} /\ content[a] \in Contents
  BY Zenon DEF HeapInv, RefcountExact
<1>4. /\ content' \in [Addresses -> Contents \cup {NULL}]
      /\ bucket' \in [Addresses -> Contents \cup {NULL}]
      /\ refcnt' \in [Addresses -> Nat]
  BY <1>1, <1>3 DEF HeapInv
<1>5. pc' \in {next} \cup Bad
  BY <1>1, Zenon DEF Bad
<1>6. RefcountExact'
  <2> SUFFICES ASSUME NEW b \in Addresses
               PROVE  /\ refcnt'[b] = Cardinality(HoldersOf(b)') + lost'[b]
                      /\ content'[b] = NULL <=> refcnt'[b] = 0
    BY Zenon DEF RefcountExact
  <2>1. Cardinality(HoldersOf(b)) \in Nat /\ lost[b] \in Nat /\ refcnt[b] \in Nat
    BY HoldersOfFinite, Zenon DEF HeapInv
  <2>2. refcnt[b] = Cardinality(HoldersOf(b)) + lost[b] /\ (content[b] = NULL <=> refcnt[b] = 0)
    BY Zenon DEF HeapInv, RefcountExact
  <2>3. CASE b = a
    <3>1. refcnt'[b] = refcnt[b] - 1
      BY <1>1, <2>3, Zenon DEF HeapInv
    <3>2. content'[b] = NULL <=> ~(refcnt[b] > 1)
      BY <1>1, <1>3, <2>3, Zenon DEF HeapInv
    <3>3. QED
      BY <1>2, <1>3, <2>1, <2>2, <2>3, <3>1, <3>2, SMTT(60)
  <2>4. CASE b # a
    BY <1>1, <1>2, <2>2, <2>4, Zenon DEF HeapInv
  <2>5. QED
    BY <2>3, <2>4, Zenon
<1>7. TableCanonical'
  <2> SUFFICES ASSUME rewrites = 0 PROVE TableCanonical'
    BY <1>2, Zenon DEF TableCanonical
  <2>1. /\ \A b \in Addresses : bucket[b] = content[b]
        /\ \A b, d \in Addresses : content[b] # NULL /\ content[b] = content[d] => b = d
    BY Zenon DEF HeapInv, TableCanonical
  <2>2. Found(content[a]) = {a}
    BY <1>3, <2>1, Zenon DEF Found
  <2>3. /\ pc' = next
        /\ \/ content' = content /\ bucket' = bucket
           \/ content' = [content EXCEPT ![a] = NULL] /\ bucket' = [bucket EXCEPT ![a] = NULL]
    BY <1>1, <2>2, Zenon
  <2>4. /\ \A b \in Addresses : bucket'[b] = content'[b]
        /\ \A b, d \in Addresses : content'[b] # NULL /\ content'[b] = content'[d] => b = d
    BY <2>1, <2>3 DEF HeapInv
  <2>5. QED
    BY <2>3, <2>4, Zenon DEF TableCanonical, Bad
<1>8. QED
  BY <1>2, <1>4, <1>5, <1>6, <1>7, Zenon DEF HeapInv

\* A holder releases its reference.
LEMMA ReleaseKeeps ==
    ASSUME HeapInv, NEW h \in Holders, ref[h] # NULL, NEW next, next \notin Bad,
           Release(h, next), UNCHANGED history
    PROVE  /\ HeapInv' /\ pc' \in {next} \cup Bad
           /\ ref'[h] = NULL /\ \A g \in Holders : g # h => ref'[g] = ref[g]
<1> USE AttrHashAssumption
<1>0. PICK a \in Addresses : a = ref[h]
  BY HeldIsThere, Zenon
<1>1. refcnt[a] # 0
  BY <1>0, HeldIsThere, Zenon
<1>2. bgp_attr_unintern(a, next) /\ ref' = [ref EXCEPT ![h] = NULL]
  BY <1>0, Zenon DEF Release
<1>3. /\ ref' \in [Holders -> Addresses \cup {NULL}]
      /\ ref'[h] = NULL /\ \A g \in Holders : g # h => ref'[g] = ref[g]
  BY <1>2, Zenon DEF HeapInv
<1>4. /\ HoldersOf(a)' = HoldersOf(a) \ {h}
      /\ \A b \in Addresses : b # a => HoldersOf(b)' = HoldersOf(b)
      /\ h \in HoldersOf(a)
  <2>1. h \in HoldersOf(a)
    BY <1>0, Zenon DEF HoldersOf
  <2>2. \A b \in Addresses : {g \in Holders : ref'[g] = b} = {g \in Holders : ref[g] = b} \ {h}
    BY <1>3, Zenon
  <2>3. \A b \in Addresses : b # a => h \notin {g \in Holders : ref[g] = b}
    BY <1>0, Zenon
  <2>4. QED
    BY <2>1, <2>2, <2>3, Zenon DEF HoldersOf
<1>5. /\ Cardinality(HoldersOf(a)') = Cardinality(HoldersOf(a)) - 1
      /\ \A b \in Addresses : b # a => Cardinality(HoldersOf(b)') = Cardinality(HoldersOf(b))
  BY <1>4, OneLess, HoldersOfFinite, Zenon
<1>6. QED
  BY <1>1, <1>2, <1>3, <1>5, UninternKeeps, Zenon

\* A holder releases its reference and takes over another's.
LEMMA ReplaceKeeps ==
    ASSUME HeapInv, NEW h \in Holders, NEW from \in Holders, h # from,
           ref[h] # NULL, ref[from] # NULL, NEW next, next \notin Bad,
           Replace(h, from, next), UNCHANGED history
    PROVE  /\ HeapInv' /\ pc' \in {next} \cup Bad
           /\ ref'[h] # NULL /\ ref'[from] = NULL
           /\ \A g \in Holders : g \notin {h, from} => ref'[g] = ref[g]
<1> USE AttrHashAssumption
<1>1. PICK a \in Addresses : a = ref[h]
  BY HeldIsThere, Zenon
<1>2. PICK d \in Addresses : d = ref[from]
  BY HeldIsThere, Zenon
<1>3. refcnt[a] # 0
  BY <1>1, HeldIsThere, Zenon
<1>4. bgp_attr_unintern(a, next) /\ ref' = [ref EXCEPT ![h] = d, ![from] = NULL]
  BY <1>1, <1>2, Zenon DEF Replace
<1>5. /\ ref' \in [Holders -> Addresses \cup {NULL}]
      /\ ref'[h] = d /\ ref'[from] = NULL
      /\ \A g \in Holders : g \notin {h, from} => ref'[g] = ref[g]
  BY <1>4, Zenon DEF HeapInv
<1>6. h \in HoldersOf(a) /\ from \in HoldersOf(d)
  BY <1>1, <1>2, Zenon DEF HoldersOf
<1>7. \A b \in Addresses : b \notin {a, d} => HoldersOf(b)' = HoldersOf(b)
  BY <1>1, <1>2, <1>5, Zenon DEF HoldersOf
<1>8. CASE a = d
  <2>1. HoldersOf(a)' = HoldersOf(a) \ {from}
    BY <1>1, <1>2, <1>5, <1>8, Zenon DEF HoldersOf
  <2>2. Cardinality(HoldersOf(a)') = Cardinality(HoldersOf(a)) - 1
    BY <1>6, <1>8, <2>1, OneLess, HoldersOfFinite, Zenon
  <2>3. \A b \in Addresses : b # a => Cardinality(HoldersOf(b)') = Cardinality(HoldersOf(b))
    BY <1>7, <1>8, Zenon
  <2>4. QED
    BY <1>3, <1>4, <1>5, <2>2, <2>3, UninternKeeps, Zenon
<1>9. CASE a # d
  <2>1. HoldersOf(a)' = HoldersOf(a) \ {h} /\ HoldersOf(d)' = (HoldersOf(d) \ {from}) \cup {h}
    BY <1>1, <1>2, <1>5, <1>9, Zenon DEF HoldersOf
  <2>2. h \notin HoldersOf(d)
    BY <1>1, <1>9, Zenon DEF HoldersOf
  <2>3. Cardinality(HoldersOf(a)') = Cardinality(HoldersOf(a)) - 1
    BY <1>6, <2>1, OneLess, HoldersOfFinite, Zenon
  <2>4. Cardinality(HoldersOf(d)') = Cardinality(HoldersOf(d))
    BY <1>6, <2>1, <2>2, OneForOne, HoldersOfFinite
  <2>5. \A b \in Addresses : b # a => Cardinality(HoldersOf(b)') = Cardinality(HoldersOf(b))
    BY <1>7, <2>4, Zenon
  <2>6. QED
    BY <1>3, <1>4, <1>5, <2>3, <2>5, UninternKeeps, Zenon
<1>10. QED
  BY <1>8, <1>9, Zenon

\* The objects keep their numbers of references, and the heap is as before.
LEMMA SameHeapKeeps ==
    ASSUME HeapInv, UNCHANGED <<content, bucket, refcnt, rewrites>>, pc' \notin Bad,
           ref' \in [Holders -> Addresses \cup {NULL}], lost' \in [Addresses -> Nat],
           \A b \in Addresses :
               Cardinality(HoldersOf(b)') + lost'[b] = Cardinality(HoldersOf(b)) + lost[b]
    PROVE  HeapInv'
<1>1. RefcountExact'
  BY Zenon DEF HeapInv, RefcountExact
<1>2. TableCanonical'
  BY Zenon DEF HeapInv, TableCanonical, Bad
<1>3. QED
  BY <1>1, <1>2, Zenon DEF HeapInv

\* A holder without a reference takes over another's.
LEMMA TakeOverKeeps ==
    ASSUME HeapInv, NEW h \in Holders, NEW from \in Holders, h # from,
           ref[h] = NULL, ref[from] # NULL, TakeOver(h, from),
           UNCHANGED <<heap, history>>, pc' \notin Bad
    PROVE  /\ HeapInv' /\ ref'[h] # NULL /\ ref'[from] = NULL
           /\ \A g \in Holders : g \notin {h, from} => ref'[g] = ref[g]
<1> USE AttrHashAssumption
<1>1. PICK d \in Addresses : d = ref[from]
  BY HeldIsThere, Zenon
<1>2. ref' = [ref EXCEPT ![h] = d, ![from] = NULL]
  BY <1>1, Zenon DEF TakeOver
<1>3. /\ ref' \in [Holders -> Addresses \cup {NULL}]
      /\ ref'[h] = d /\ ref'[from] = NULL
      /\ \A g \in Holders : g \notin {h, from} => ref'[g] = ref[g]
  BY <1>2, Zenon DEF HeapInv
<1>4. HoldersOf(d)' = (HoldersOf(d) \ {from}) \cup {h} /\ from \in HoldersOf(d) /\ h \notin HoldersOf(d)
  BY <1>1, <1>3, Zenon DEF HoldersOf
<1>5. \A b \in Addresses : b # d => HoldersOf(b)' = HoldersOf(b)
  BY <1>1, <1>3, Zenon DEF HoldersOf
<1>6. Cardinality(HoldersOf(d)') = Cardinality(HoldersOf(d))
  BY <1>4, OneForOne, HoldersOfFinite
<1>7. UNCHANGED <<content, bucket, refcnt, rewrites, lost>>
  BY Zenon DEF heap, history
<1>8. \A b \in Addresses :
          Cardinality(HoldersOf(b)') + lost'[b] = Cardinality(HoldersOf(b)) + lost[b]
  BY <1>5, <1>6, <1>7, Zenon
<1>9. lost' \in [Addresses -> Nat]
  BY <1>7, Zenon DEF HeapInv
<1>10. QED
  BY <1>3, <1>7, <1>8, <1>9, SameHeapKeeps, Zenon

\* A holder drops its reference without a release.
LEMMA LoseKeeps ==
    ASSUME HeapInv, NEW h \in Holders, ref[h] # NULL, Lose(h),
           UNCHANGED <<heap, rewrites>>, pc' \notin Bad
    PROVE  /\ HeapInv' /\ ref'[h] = NULL
           /\ \A g \in Holders : g # h => ref'[g] = ref[g]
<1> USE AttrHashAssumption
<1>1. PICK a \in Addresses : a = ref[h]
  BY HeldIsThere, Zenon
<1>2. ref' = [ref EXCEPT ![h] = NULL] /\ lost' = [lost EXCEPT ![a] = @ + 1]
  BY <1>1, Zenon DEF Lose
<1>3. /\ ref' \in [Holders -> Addresses \cup {NULL}] /\ lost' \in [Addresses -> Nat]
      /\ ref'[h] = NULL /\ \A g \in Holders : g # h => ref'[g] = ref[g]
  BY <1>2 DEF HeapInv
<1>4. HoldersOf(a)' = HoldersOf(a) \ {h} /\ h \in HoldersOf(a)
  BY <1>1, <1>3, Zenon DEF HoldersOf
<1>5. \A b \in Addresses : b # a => HoldersOf(b)' = HoldersOf(b)
  BY <1>1, <1>3, Zenon DEF HoldersOf
<1>6. Cardinality(HoldersOf(a)') = Cardinality(HoldersOf(a)) - 1 /\ Cardinality(HoldersOf(a)) \in Nat
  BY <1>4, OneLess, HoldersOfFinite, Zenon
<1>7. lost'[a] = lost[a] + 1 /\ lost[a] \in Nat /\ \A b \in Addresses : b # a => lost'[b] = lost[b]
  BY <1>2, Zenon DEF HeapInv
<1>8. \A b \in Addresses :
          Cardinality(HoldersOf(b)') + lost'[b] = Cardinality(HoldersOf(b)) + lost[b]
  <2> SUFFICES ASSUME NEW b \in Addresses
               PROVE  Cardinality(HoldersOf(b)') + lost'[b] = Cardinality(HoldersOf(b)) + lost[b]
    BY Zenon
  <2>1. CASE b = a
    BY <1>6, <1>7, <2>1
  <2>2. CASE b # a
    BY <1>5, <1>7, <2>2, Zenon
  <2>3. QED
    BY <2>1, <2>2, Zenon
<1>9. UNCHANGED <<content, bucket, refcnt, rewrites>>
  BY Zenon DEF heap
<1>10. QED
  BY <1>3, <1>8, <1>9, SameHeapKeeps, Zenon

\* Nothing happens to the references.
LEMMA NoReferenceKeeps ==
    ASSUME HeapInv, UNCHANGED <<content, bucket, refcnt, ref, lost, rewrites>>, pc' \notin Bad
    PROVE  HeapInv'
<1>1. \A b \in Addresses : HoldersOf(b)' = HoldersOf(b)
  BY Zenon DEF HoldersOf
<1>2. ref' \in [Holders -> Addresses \cup {NULL}] /\ lost' \in [Addresses -> Nat]
  BY Zenon DEF HeapInv
<1>3. QED
  BY <1>1, <1>2, SameHeapKeeps, Zenon

-----------------------------------------------------------------------------
(* The handlers.                                                           *)

\* A content with another weight, or another NEXT_HOP flag, is a content.
LEMMA Fields ==
    ASSUME NEW A, NEW W, NEW B, NEW c \in [aspath : A, weight : W, next_hop : B],
           NEW w \in W, NEW b \in B
    PROVE  /\ [c EXCEPT !.weight = w] \in [aspath : A, weight : W, next_hop : B]
           /\ [c EXCEPT !.weight = w, !.next_hop = b] \in [aspath : A, weight : W, next_hop : B]
           /\ c.weight \in W
  BY Zenon

\* The same, of contents.
LEMMA NewContent ==
    ASSUME NEW c \in Contents, NEW w \in Weights
    PROVE  /\ [c EXCEPT !.weight = w] \in Contents
           /\ [c EXCEPT !.weight = w, !.next_hop = TRUE] \in Contents
           /\ c.weight \in Weights
<1>1. TRUE \in BOOLEAN
  BY Zenon
<1>2. QED
  BY <1>1, Fields, Zenon DEF Contents

\* Every kind of reference of every route is a holder.
LEMMA HolderTuples ==
    \A r \in Routes : /\ <<"path", r>> \in Holders /\ <<"adj_in", r>> \in Holders
                       /\ <<"import", r>> \in Holders /\ <<"mp_attr", r>> \in Holders
                       /\ <<"attr_new", r>> \in Holders
  BY Zenon DEF Holders

\* An UPDATE, or the stored attribute, enters bgp_update.
LEMMA EnterStep ==
    ASSUME IInv, NEW r \in Routes, bgp_update_receive(r) \/ bgp_soft_reconfig_table(r)
    PROVE  IInv'
<1> USE AttrHashAssumption
<1>1. /\ pc = "idle" /\ pc' \in {"adj_in", "policy"} /\ cur' = r
      /\ UNCHANGED <<content, bucket, refcnt, ref, lost, rewrites, removed>>
  BY Zenon DEF bgp_update_receive, bgp_soft_reconfig_table, At, heap, history
<1>2. got' \in Contents
  <2>1. CASE bgp_update_receive(r)
    <3>1. PICK x \in ASPaths : got' = [aspath |-> x, weight |-> 0, next_hop |-> FALSE]
      BY <2>1, Zenon DEF bgp_update_receive
    <3>2. 0 \in Weights
      BY Zenon DEF Weights
    <3>3. QED
      BY <3>1, <3>2, Zenon DEF Contents
  <2>2. CASE bgp_soft_reconfig_table(r)
    BY <2>2, HolderTuples, HeldIsThere, Zenon DEF bgp_soft_reconfig_table, IInv, Held
  <2>3. QED
    BY <2>1, <2>2, Zenon
<1>3. HeapInv'
  BY <1>1, NoReferenceKeeps, Zenon DEF IInv, Bad
<1>4. Control'
  BY <1>1, <1>2, Zenon DEF IInv, Control, Labels, Bad
<1>5. QED
  BY <1>3, <1>4, Zenon DEF IInv

\* bgp_adj_in_set releases the old attribute, then interns the new one.
LEMMA AdjInStep == ASSUME IInv, bgp_adj_in_set PROVE IInv'
<1> USE AttrHashAssumption
<1> DEFINE h == <<"adj_in", cur>>
<1>1. /\ pc = "adj_in" /\ cur \in Routes /\ got \in Contents /\ h \in Holders
      /\ UNCHANGED <<removed, history, cur, got>>
  BY HolderTuples, Zenon DEF IInv, Control, bgp_adj_in_set, At, Bad, call
<1>2. /\ HeapInv'
      /\ pc' \in {"adj_in", "policy"} \cup Bad
      /\ \A g \in Holders : g # h => ref'[g] = ref[g]
  <2>1. CASE ref[h] # NULL
    <3>1. Release(h, "adj_in")
      BY <2>1, Zenon DEF bgp_adj_in_set, Held
    <3>2. QED
      BY <1>1, <2>1, <3>1, ReleaseKeeps, Zenon DEF IInv, Bad
  <2>2. CASE ref[h] = NULL
    <3>1. bgp_attr_intern(h, got) /\ pc' = "policy"
      BY <2>2, Zenon DEF bgp_adj_in_set, Held, Goto
    <3>2. QED
      BY <1>1, <2>2, <3>1, InternKeeps, Zenon DEF IInv, Bad
  <2>3. QED
    BY <2>1, <2>2, Zenon
<1>3. /\ \A r \in Routes : ref'[<<"attr_new", r>>] = ref[<<"attr_new", r>>]
      /\ \A g \in {"path", "import"} \X Routes : ref'[g] = ref[g]
  BY <1>2 DEF Holders
<1>4. Control'
  BY <1>1, <1>2, <1>3, Zenon DEF IInv, Control, Labels, Bad
<1>5. QED
  BY <1>2, <1>4, Zenon DEF IInv

\* The policy denies the route, or a handler ends.
LEMMA QuietStep == ASSUME IInv, bgp_update_filtered \/ bgp_attr_unintern_sub PROVE IInv'
<1>1. /\ pc \in {"policy", "done"} /\ pc' \in {"done", "idle"}
      /\ cur' \in {cur, NULL} /\ got' \in {got, NULL}
      /\ UNCHANGED <<content, bucket, refcnt, ref, lost, rewrites>>
  BY Zenon DEF bgp_update_filtered, bgp_attr_unintern_sub, At, Goto, heap, history, call
<1>2. /\ removed' \subseteq {"path", "import"} \X Routes
      /\ \A h \in removed' : ref'[h] # NULL
  <2>1. CASE bgp_update_filtered
    <3>1. cur \in Routes
      BY <2>1, Zenon DEF bgp_update_filtered, At, IInv, Control, Bad
    <3>2. removed' = removed \cup {h \in {<<"path", cur>>, <<"import", cur>>} : ref[h] # NULL}
      BY <2>1, Zenon DEF bgp_update_filtered, Delete
    <3>3. QED
      BY <1>1, <3>1, <3>2 DEF IInv, Control
  <2>2. CASE bgp_attr_unintern_sub
    BY <1>1, <2>2, Zenon DEF bgp_attr_unintern_sub, IInv, Control
  <2>3. QED
    BY <2>1, <2>2, Zenon
<1>3. HeapInv'
  BY <1>1, NoReferenceKeeps, Zenon DEF IInv, Bad
<1>4. Control'
  BY <1>1, <1>2, Zenon DEF IInv, Control, Labels, Bad
<1>5. QED
  BY <1>3, <1>4, Zenon DEF IInv

\* The three places that intern an attribute for the running handler: the
\* policy's result, the import's attribute, the multipath copy.
LEMMA InternStep ==
    ASSUME IInv, NEW r \in Routes, NEW c \in Contents, NEW next \in {"store", "leak_update", "mpath"},
           pc \in {"idle", "policy", "leak"}, cur' = r, r = cur \/ pc = "idle",
           bgp_attr_intern(<<"attr_new", r>>, c), pc' = next,
           UNCHANGED <<removed, history, got>>
    PROVE  IInv'
<1> USE AttrHashAssumption
<1>1. <<"attr_new", r>> \in Holders /\ ref[<<"attr_new", r>>] = NULL
  BY HolderTuples, Zenon DEF IInv, Control, Bad
<1>2. /\ HeapInv' /\ ref'[<<"attr_new", r>>] # NULL
      /\ \A g \in Holders : g # <<"attr_new", r>> => ref'[g] = ref[g]
  BY <1>1, InternKeeps, Zenon DEF IInv, Bad
<1>3. /\ \A s \in Routes : s # r => ref'[<<"attr_new", s>>] = ref[<<"attr_new", s>>]
      /\ \A g \in {"path", "import"} \X Routes : ref'[g] = ref[g]
  BY <1>2 DEF Holders
<1>4. Control'
  BY <1>1, <1>2, <1>3 DEF IInv, Control, Labels, Bad
<1>5. QED
  BY <1>2, <1>4, Zenon DEF IInv

\* What they intern is a content.
LEMMA InternsContent ==
    ASSUME IInv,
           \/ bgp_update_permitted
           \/ vpn_leak_to_vrf_update_onevrf
           \/ \E r \in Routes : bgp_path_info_mpath_aggregate_update(r)
    PROVE  \E r \in Routes, c \in Contents, next \in {"store", "leak_update", "mpath"} :
               /\ pc \in {"idle", "policy", "leak"} /\ cur' = r /\ (r = cur \/ pc = "idle")
               /\ bgp_attr_intern(<<"attr_new", r>>, c) /\ pc' = next
               /\ UNCHANGED <<removed, history, got, parsed>>
<1> USE AttrHashAssumption
<1>1. CASE bgp_update_permitted
  <2>1. PICK w \in InputWeights \cup {got.weight} :
            bgp_attr_intern(<<"attr_new", cur>>, [got EXCEPT !.weight = w])
    BY <1>1, Zenon DEF bgp_update_permitted
  <2>2. /\ pc = "policy" /\ pc' = "store" /\ cur \in Routes /\ cur' = cur /\ got \in Contents
        /\ UNCHANGED <<removed, history, got, parsed>>
    BY <1>1, Zenon DEF bgp_update_permitted, At, Goto, call, IInv, Control, Bad
  <2>3. w \in Weights
    BY <2>1, <2>2, NewContent, Zenon DEF Weights
  <2>4. [got EXCEPT !.weight = w] \in Contents
    BY <2>2, <2>3, NewContent, Zenon
  <2>5. QED
    BY <2>1, <2>2, <2>4, Zenon
<1>2. CASE vpn_leak_to_vrf_update_onevrf
  <2>1. /\ pc = "leak" /\ pc' = "leak_update" /\ cur \in Routes /\ cur' = cur
        /\ ref[<<"path", cur>>] # NULL
        /\ UNCHANGED <<removed, history, got, parsed>>
    BY <1>2, Zenon DEF vpn_leak_to_vrf_update_onevrf, At, Goto, call, IInv, Control, Bad
  <2>2. content[ref[<<"path", cur>>]] \in Contents
    BY <2>1, HolderTuples, HeldIsThere, Zenon DEF IInv
  <2>3. PICK w \in ImportWeights(cur) :
            bgp_attr_intern(<<"attr_new", cur>>,
                [content[ref[<<"path", cur>>]] EXCEPT !.weight = w, !.next_hop = TRUE])
    BY <1>2, Zenon DEF vpn_leak_to_vrf_update_onevrf
  <2>4. w \in Weights
    BY <2>2, NewContent, Zenon DEF ImportWeights, Weights
  <2>5. [content[ref[<<"path", cur>>]] EXCEPT !.weight = w, !.next_hop = TRUE] \in Contents
    BY <2>2, <2>4, NewContent, Zenon
  <2>6. QED
    BY <2>1, <2>3, <2>5, Zenon
<1>3. ASSUME NEW r \in Routes, bgp_path_info_mpath_aggregate_update(r)
      PROVE  \E c \in Contents :
                 /\ pc = "idle" /\ pc' = "mpath" /\ cur' = r
                 /\ bgp_attr_intern(<<"attr_new", r>>, c)
                 /\ UNCHANGED <<removed, history, got, parsed>>
  <2>1. /\ pc = "idle" /\ pc' = "mpath" /\ cur' = r /\ ref[<<"import", r>>] # NULL
        /\ bgp_attr_intern(<<"attr_new", r>>, content[ref[<<"import", r>>]])
        /\ UNCHANGED <<removed, history, got, parsed>>
    BY <1>3, Zenon DEF bgp_path_info_mpath_aggregate_update, At, Goto, Held
  <2>2. content[ref[<<"import", r>>]] \in Contents
    BY <2>1, HolderTuples, HeldIsThere, Zenon DEF IInv
  <2>3. QED
    BY <2>1, <2>2, Zenon
<1>4. QED
  BY <1>1, <1>2, <1>3, Zenon

\* So they keep the invariant.
LEMMA InternSteps ==
    ASSUME IInv,
           \/ bgp_update_permitted
           \/ vpn_leak_to_vrf_update_onevrf
           \/ \E r \in Routes : bgp_path_info_mpath_aggregate_update(r)
    PROVE  IInv'
<1>1. PICK r \in Routes, c \in Contents, next \in {"store", "leak_update", "mpath"} :
               /\ pc \in {"idle", "policy", "leak"} /\ cur' = r /\ (r = cur \/ pc = "idle")
               /\ bgp_attr_intern(<<"attr_new", r>>, c) /\ pc' = next
               /\ UNCHANGED <<removed, history, got, parsed>>
  BY InternsContent, ZenonT(60)
<1>2. QED
  BY <1>1, InternStep, Zenon

\* A handler uses up the reference it interned: it gives it back, or passes it
\* on to a holder that had one or had none, or loses it.
LEMMA UseUp ==
    ASSUME IInv, NEW k \in {"path", "import", "mp_attr"}, NEW next \in {"leak", "done"},
           pc \in {"store", "leak_update", "mpath"}, next = "leak" => k = "path",
           \/ Release(<<"attr_new", cur>>, next) /\ next = "done" /\ UNCHANGED history
           \/ ref[<<k, cur>>] # NULL /\ Replace(<<k, cur>>, <<"attr_new", cur>>, next) /\ UNCHANGED history
           \/ /\ ref[<<k, cur>>] = NULL /\ TakeOver(<<k, cur>>, <<"attr_new", cur>>)
              /\ pc' = next /\ UNCHANGED <<heap, history>>
           \/ Lose(<<"attr_new", cur>>) /\ next = "done" /\ pc' = next /\ UNCHANGED <<heap, rewrites>>,
           UNCHANGED <<cur, got>>,
           removed' \subseteq removed
    PROVE  IInv'
<1> USE AttrHashAssumption
<1> DEFINE new == <<"attr_new", cur>>
<1> DEFINE h == <<k, cur>>
<1>1. /\ cur \in Routes /\ new \in Holders /\ h \in Holders /\ h # new
      /\ ref[new] # NULL
  BY HolderTuples, Zenon DEF IInv, Control, Bad
<1>2. /\ HeapInv' /\ pc' \in {next} \cup Bad
      /\ ref'[new] = NULL
      /\ ref'[h] # NULL \/ ref'[h] = ref[h]
      /\ next = "leak" => ref'[h] # NULL
      /\ \A g \in Holders : g \notin {h, new} => ref'[g] = ref[g]
  <2>1. CASE Release(new, next) /\ next = "done" /\ UNCHANGED history
    BY <1>1, <2>1, ReleaseKeeps, Zenon DEF IInv, Bad
  <2>2. CASE ref[h] # NULL /\ Replace(h, new, next) /\ UNCHANGED history
    BY <1>1, <2>2, ReplaceKeeps, Zenon DEF IInv, Bad
  <2>3. CASE ref[h] = NULL /\ TakeOver(h, new) /\ pc' = next /\ UNCHANGED <<heap, history>>
    BY <1>1, <2>3, TakeOverKeeps, Zenon DEF IInv, Bad
  <2>4. CASE Lose(new) /\ next = "done" /\ pc' = next /\ UNCHANGED <<heap, rewrites>>
    BY <1>1, <2>4, LoseKeeps, Zenon DEF IInv, Bad
  <2>5. QED
    BY <2>1, <2>2, <2>3, <2>4, Zenon
<1>3. /\ \A r \in Routes : ref'[<<"attr_new", r>>] = NULL
      /\ \A g \in {"path", "import"} \X Routes : ref'[g] # NULL \/ ref'[g] = ref[g]
  BY <1>1, <1>2, Zenon DEF Holders, IInv, Control
<1>4. Control'
  BY <1>1, <1>2, <1>3, Zenon DEF IInv, Control, Labels, Bad
<1>5. QED
  BY <1>2, <1>4, Zenon DEF IInv

\* The handlers that do so.
LEMMA UseUpSteps ==
    ASSUME IInv,
           \/ bgp_update_existing
           \/ bgp_update_new
           \/ bgp_maximum_prefix_overflow
           \/ leak_update
           \/ leak_update_removed
           \/ bgp_path_info_mpath_attr_set
    PROVE  IInv'
<1>1. CASE bgp_update_existing
  <2>1. /\ pc = "store" /\ ref[<<"path", cur>>] # NULL /\ UNCHANGED <<cur, got, history>>
        /\ removed' \subseteq removed
        /\ \/ Release(<<"attr_new", cur>>, "done")
           \/ Replace(<<"path", cur>>, <<"attr_new", cur>>, "leak")
    BY <1>1, Zenon DEF bgp_update_existing, At, Held, call
  <2>2. QED
    BY <2>1, UseUp, Zenon
<1>2. CASE bgp_update_new
  BY <1>2, UseUp, Zenon DEF bgp_update_new, At, Held, Goto, call
<1>3. CASE bgp_maximum_prefix_overflow
  BY <1>3, UseUp, Zenon DEF bgp_maximum_prefix_overflow, At, Held, Goto, call
<1>4. CASE leak_update
  <2>1. /\ pc = "leak_update" /\ UNCHANGED <<cur, got, history>>
        /\ removed' \subseteq removed
        /\ \/ Release(<<"attr_new", cur>>, "done")
           \/ ref[<<"import", cur>>] # NULL /\ Replace(<<"import", cur>>, <<"attr_new", cur>>, "done")
           \/ /\ ref[<<"import", cur>>] = NULL /\ TakeOver(<<"import", cur>>, <<"attr_new", cur>>)
              /\ pc' = "done" /\ UNCHANGED heap
    BY <1>4, Zenon DEF leak_update, At, Goto, call
  <2>2. QED
    BY <2>1, UseUp, Zenon
<1>5. CASE leak_update_removed
  BY <1>5, UseUp, Zenon DEF leak_update_removed, At, Goto, call
<1>6. CASE bgp_path_info_mpath_attr_set
  <2>1. /\ pc = "mpath" /\ UNCHANGED <<cur, got, history, removed>>
        /\ \/ Release(<<"attr_new", cur>>, "done")
           \/ ref[<<"mp_attr", cur>>] # NULL /\ Replace(<<"mp_attr", cur>>, <<"attr_new", cur>>, "done")
           \/ /\ ref[<<"mp_attr", cur>>] = NULL /\ TakeOver(<<"mp_attr", cur>>, <<"attr_new", cur>>)
              /\ pc' = "done" /\ UNCHANGED heap
    BY <1>6, Zenon DEF bgp_path_info_mpath_attr_set, At, Goto, call
  <2>2. QED
    BY <2>1, UseUp, Zenon
<1>7. QED
  BY <1>1, <1>2, <1>3, <1>4, <1>5, <1>6, Zenon

\* A holder other than the running handler lets go, and is no longer flagged.
LEMMA LetGo ==
    ASSUME IInv, NEW k \in {"path", "import", "adj_in", "mp_attr"}, NEW r \in Routes,
           ref[<<k, r>>] # NULL, NEW next \in {"idle", "done", "mpath_free"},
           pc \in {"idle", "mpath_free"}, Release(<<k, r>>, next), UNCHANGED <<history, got>>,
           cur' \in {cur, r}, next = "mpath_free" => cur' = r,
           removed' \subseteq {"path", "import"} \X Routes, <<k, r>> \notin removed',
           \A h \in removed' : ref[h] # NULL
    PROVE  IInv'
<1> USE AttrHashAssumption
<1>1. <<k, r>> \in Holders
  BY HolderTuples, Zenon
<1>2. /\ HeapInv' /\ pc' \in {next} \cup Bad
      /\ \A g \in Holders : g # <<k, r>> => ref'[g] = ref[g]
  BY <1>1, ReleaseKeeps, Zenon DEF IInv, Bad
<1>3. /\ \A s \in Routes : ref'[<<"attr_new", s>>] = NULL
      /\ \A h \in removed' : ref'[h] # NULL
  BY <1>2, Zenon DEF Holders, IInv, Control, Bad
<1>4. Control'
  BY <1>2, <1>3, Zenon DEF IInv, Control, Labels, Bad
<1>5. QED
  BY <1>2, <1>4, Zenon DEF IInv

\* An idle bgpd turns to route r, or flags it, or a handler ends: no reference
\* changes.
LEMMA NoReferenceStep ==
    ASSUME IInv, NEW r \in Routes, pc \in {"idle", "mpath_free"}, pc' \in {"idle", "leak", "done"},
           pc' = "leak" => cur' = r /\ ref[<<"path", r>>] # NULL, cur' \in {cur, r},
           UNCHANGED <<heap, ref, history, got>>,
           removed' \subseteq {"path", "import"} \X Routes,
           \A h \in removed' : ref[h] # NULL
    PROVE  IInv'
<1>1. HeapInv'
  BY NoReferenceKeeps, Zenon DEF IInv, Bad, heap, history
<1>2. Control'
  BY Zenon DEF IInv, Control, Labels, Bad
<1>3. QED
  BY <1>1, <1>2, Zenon DEF IInv

\* What an idle bgpd does to one route: the refresh, a withdrawal, the freeing of
\* a path_info, the end of a multipath; and the freeing of the aggregate.
LEMMA RouteSteps ==
    ASSUME IInv, NEW r \in Routes,
           \/ vpn_leak_to_vrf_update_all(r)
           \/ bgp_withdraw(r)
           \/ \E k \in {"path", "import"} : bgp_path_info_free(k, r)
           \/ bgp_path_info_mpath_attr_clear(r)
           \/ bgp_path_info_mpath_free
    PROVE  IInv'
<1> USE AttrHashAssumption
<1>0. /\ removed \subseteq {"path", "import"} \X Routes /\ \A h \in removed : ref[h] # NULL
      /\ pc = "mpath_free" => cur \in Routes
  BY Zenon DEF IInv, Control, Bad
<1>1. CASE vpn_leak_to_vrf_update_all(r)
  BY <1>0, <1>1, NoReferenceStep, Zenon DEF vpn_leak_to_vrf_update_all, At, Held
<1>2. CASE bgp_withdraw(r)
  <2>1. /\ pc = "idle" /\ UNCHANGED <<history, cur, got>>
        /\ removed' = removed \cup {h \in {<<"path", r>>, <<"import", r>>} : ref[h] # NULL}
        /\ \/ ref[<<"adj_in", r>>] # NULL /\ Release(<<"adj_in", r>>, "idle")
           \/ UNCHANGED <<heap, ref, pc>>
    BY <1>2, Zenon DEF bgp_withdraw, At, Held, Delete, call
  <2>2. /\ removed' \subseteq {"path", "import"} \X Routes /\ <<"adj_in", r>> \notin removed'
        /\ \A h \in removed' : ref[h] # NULL
    BY <1>0, <2>1, SMTT(60)
  <2>3. QED
    BY <2>1, <2>2, LetGo, NoReferenceStep, Zenon
<1>3. ASSUME NEW k \in {"path", "import"}, bgp_path_info_free(k, r) PROVE IInv'
  <2>1. PICK next \in {"idle", "mpath_free"} : next = IF k = "import" THEN "mpath_free" ELSE "idle"
    BY Zenon
  <2>2. /\ pc = "idle" /\ <<k, r>> \in removed /\ Release(<<k, r>>, next)
        /\ removed' = removed \ {<<k, r>>} /\ UNCHANGED <<history, got>>
        /\ cur' \in {cur, r} /\ (next = "mpath_free" => cur' = r)
    BY <1>3, <2>1, Zenon DEF bgp_path_info_free, At
  <2>3. QED
    BY <1>0, <2>2, LetGo, Zenon
<1>4. CASE bgp_path_info_mpath_attr_clear(r)
  BY <1>0, <1>4, LetGo, Zenon DEF bgp_path_info_mpath_attr_clear, At, Held, call
<1>5. CASE bgp_path_info_mpath_free
  <2>1. /\ pc = "mpath_free" /\ UNCHANGED <<history, cur, got, removed>>
        /\ \/ ref[<<"mp_attr", cur>>] # NULL /\ Release(<<"mp_attr", cur>>, "done")
           \/ UNCHANGED <<heap, ref>> /\ pc' = "done"
    BY <1>5, Zenon DEF bgp_path_info_mpath_free, At, Held, Goto, call
  <2>2. CASE ref[<<"mp_attr", cur>>] # NULL /\ Release(<<"mp_attr", cur>>, "done")
    BY <1>0, <2>1, <2>2, LetGo, Zenon
  <2>3. CASE UNCHANGED <<heap, ref>> /\ pc' = "done"
    BY <1>0, <2>1, <2>3, NoReferenceStep, Zenon
  <2>4. QED
    BY <2>1, <2>2, <2>3, Zenon
<1>6. QED
  BY <1>1, <1>2, <1>3, <1>4, <1>5, Zenon

\* A comparison writes weights into objects that are there: the counts stay
\* exact, and if it changes a weight nothing more is said of the table.
LEMMA CompareStep ==
    ASSUME IInv, NEW k \in {"path", "import"}, NEW r \in Routes, NEW s \in Routes,
           bgp_path_info_cmp(k, r, s)
    PROVE  IInv'
<1> USE AttrHashAssumption, NoContent
<1>1. PICK a \in Addresses : a = ref[<<k, r>>] /\ content[a] \in Contents
  BY HolderTuples, HeldIsThere, Zenon DEF bgp_path_info_cmp, Held, IInv
<1>2. PICK b \in Addresses : b = ref[<<k, s>>] /\ content[b] \in Contents
  BY HolderTuples, HeldIsThere, Zenon DEF bgp_path_info_cmp, Held, IInv
<1>3. PICK v \in Weights, w \in Weights :
          content' = [content EXCEPT ![a].weight = v, ![b].weight = w]
  <2>1. PICK w \in {<<LATENCY_WEIGHT, LATENCY_WEIGHT>>, <<LATENCY_WEIGHT, 0>>, <<0, LATENCY_WEIGHT>>} :
            content' = [content EXCEPT ![ref[<<k, r>>]].weight = w[1],
                                       ![ref[<<k, s>>]].weight = w[2]]
    BY Zenon DEF bgp_path_info_cmp
  <2>2. w[1] \in Weights /\ w[2] \in Weights
    BY DEF Weights
  <2>3. content' = [content EXCEPT ![a].weight = w[1], ![b].weight = w[2]]
    BY <1>1, <1>2, <2>1, Zenon
  <2>4. QED
    BY <2>2, <2>3, Zenon
<1>4. /\ UNCHANGED <<bucket, refcnt, ref, removed, lost, pc, cur, got>>
      /\ rewrites' = IF content' # content THEN rewrites + 1 ELSE rewrites
      /\ pc = "idle"
  BY Zenon DEF bgp_path_info_cmp, handler, call, At
<1>5. /\ content \in [Addresses -> Contents \cup {NULL}] /\ rewrites \in Nat
  BY Zenon DEF IInv, HeapInv
<1>6. /\ content' \in [Addresses -> Contents \cup {NULL}]
      /\ \A x \in Addresses : content'[x] = NULL <=> content[x] = NULL
  <2>1. PICK c \in Contents : c = [content[a] EXCEPT !.weight = v]
    BY <1>1, NewContent, Zenon
  <2>2. PICK first : first = [content EXCEPT ![a] = c]
    BY Zenon
  <2>3. first[b] \in Contents
    BY <1>1, <1>2, <1>5, <2>2, Zenon
  <2>4. PICK d \in Contents : d = [first[b] EXCEPT !.weight = w]
    BY <2>3, NewContent, Zenon
  <2>5. content' = [first EXCEPT ![b] = d]
    BY <1>3, <2>1, <2>2, <2>4, Zenon
  <2>6. QED
    BY <1>1, <1>2, <1>5, <2>2, <2>5, Zenon
<1>7. \A x \in Addresses : HoldersOf(x)' = HoldersOf(x)
  BY <1>4, Zenon DEF HoldersOf
<1>8. RefcountExact'
  BY <1>4, <1>6, <1>7, Zenon DEF IInv, HeapInv, RefcountExact
<1>9. TableCanonical'
  BY <1>4, <1>5, SMTT(60) DEF IInv, HeapInv, TableCanonical
<1>10. HeapInv'
  BY <1>4, <1>5, <1>6, <1>8, <1>9, SMTT(60) DEF IInv, HeapInv
<1>11. Control'
  BY <1>4, Zenon DEF IInv, Control
<1>12. QED
  BY <1>10, <1>11, Zenon DEF IInv

-----------------------------------------------------------------------------
(* The AS path counters.                                                   *)

\* What a reference to an attribute with AS path x is.
LEMMA InReferences ==
    ASSUME NEW x, NEW t
    PROVE  t \in References(x)
               <=> \E a \in Addresses : /\ content[a] # NULL /\ content[a].aspath = x
                                        /\ \E i \in 1 .. refcnt[a] : t = <<a, i>>
  BY DEF References

\* The same after a step.
LEMMA InReferencesNext ==
    ASSUME NEW x, NEW t
    PROVE  t \in References(x)'
               <=> \E a \in Addresses : /\ content'[a] # NULL /\ content'[a].aspath = x
                                        /\ \E i \in 1 .. refcnt'[a] : t = <<a, i>>
  BY DEF References

\* An interval of references grows at its end.
LEMMA Upto ==
    ASSUME NEW n \in Nat, NEW i
    PROVE  /\ i \in 1 .. (n + 1) <=> i \in 1 .. n \/ i = n + 1
           /\ n + 1 \notin 1 .. n
  OBVIOUS

\* Objects that keep their AS path and their count keep their references.
LEMMA SameReferences ==
    ASSUME refcnt' = refcnt,
           \A a \in Addresses : content'[a] = NULL <=> content[a] = NULL,
           \A a \in Addresses : content[a] # NULL => content'[a].aspath = content[a].aspath
    PROVE  \A x \in ASPaths : References(x)' = References(x)
<1> SUFFICES ASSUME NEW x \in ASPaths PROVE References(x)' = References(x)
  BY Zenon
<1>1. {b \in Addresses : content'[b] # NULL /\ content'[b].aspath = x}
          = {b \in Addresses : content[b] # NULL /\ content[b].aspath = x}
  BY Zenon
<1>2. QED
  BY <1>1, Zenon DEF References

\* One reference more to the attribute at a, which is there already or is new.
LEMMA OneReferenceMore ==
    ASSUME HeapInv, NEW a \in Addresses, NEW c \in Contents,
           refcnt' = [refcnt EXCEPT ![a] = @ + 1],
           \/ content[a] = c /\ content' = content
           \/ content[a] = NULL /\ content' = [content EXCEPT ![a] = c]
    PROVE  /\ <<a, refcnt[a] + 1>> \notin References(c.aspath)
           /\ References(c.aspath)' = References(c.aspath) \cup {<<a, refcnt[a] + 1>>}
           /\ \A x \in ASPaths : x # c.aspath => References(x)' = References(x)
<1> USE AttrHashAssumption, NoContent
<1> DEFINE n == refcnt[a]
<1>1. /\ n \in Nat /\ refcnt'[a] = n + 1 /\ content'[a] = c
      /\ content[a] \in {NULL, c} /\ (content[a] = NULL => n = 0)
      /\ \A b \in Addresses : b # a => refcnt'[b] = refcnt[b] /\ content'[b] = content[b]
  BY Zenon DEF HeapInv, RefcountExact
<1>2. <<a, n + 1>> \notin References(c.aspath)
  BY <1>1, InReferences, Upto
<1>3. References(c.aspath)' = References(c.aspath) \cup {<<a, n + 1>>}
  <2> SUFFICES ASSUME NEW t
               PROVE  t \in References(c.aspath)'
                          <=> t \in References(c.aspath) \/ t = <<a, n + 1>>
    BY Zenon
  <2>1. ASSUME NEW b \in Addresses, NEW i
        PROVE  (content'[b] # NULL /\ content'[b].aspath = c.aspath /\ i \in 1 .. refcnt'[b])
                   <=> \/ content[b] # NULL /\ content[b].aspath = c.aspath /\ i \in 1 .. refcnt[b]
                       \/ b = a /\ i = n + 1
    <3>1. CASE b = a
      BY <1>1, <3>1
    <3>2. CASE b # a
      BY <1>1, <3>2, Zenon
    <3>3. QED
      BY <3>1, <3>2, Zenon
  <2>2. ASSUME t \in References(c.aspath)'
        PROVE  t \in References(c.aspath) \/ t = <<a, n + 1>>
    <3>0. PICK b \in Addresses : /\ content'[b] # NULL /\ content'[b].aspath = c.aspath
                                 /\ \E i \in 1 .. refcnt'[b] : t = <<b, i>>
      BY <2>2, InReferencesNext
    <3>1. PICK i \in 1 .. refcnt'[b] : t = <<b, i>>
      BY <3>0, Zenon
    <3>2. \/ content[b] # NULL /\ content[b].aspath = c.aspath /\ i \in 1 .. refcnt[b]
          \/ b = a /\ i = n + 1
      BY <2>1, <3>0, <3>1, Zenon
    <3>3. QED
      BY <3>0, <3>1, <3>2, InReferences, Zenon
  <2>3. ASSUME t \in References(c.aspath) PROVE t \in References(c.aspath)'
    <3>0. PICK b \in Addresses : /\ content[b] # NULL /\ content[b].aspath = c.aspath
                                 /\ \E i \in 1 .. refcnt[b] : t = <<b, i>>
      BY <2>3, InReferences
    <3>1. PICK i \in 1 .. refcnt[b] : t = <<b, i>>
      BY <3>0, Zenon
    <3>2. content'[b] # NULL /\ content'[b].aspath = c.aspath /\ i \in 1 .. refcnt'[b]
      BY <2>1, <3>0, <3>1, Zenon
    <3>3. QED
      BY <3>0, <3>1, <3>2, InReferencesNext, Zenon
  <2>4. ASSUME t = <<a, n + 1>> PROVE t \in References(c.aspath)'
    <3>1. content'[a] # NULL /\ content'[a].aspath = c.aspath /\ n + 1 \in 1 .. refcnt'[a]
      BY <1>1
    <3>2. QED
      BY <2>4, <3>1, InReferencesNext, Zenon
  <2>5. QED
    BY <2>2, <2>3, <2>4, Zenon
<1>4. ASSUME NEW x \in ASPaths, x # c.aspath PROVE References(x)' = References(x)
  <2>1. {b \in Addresses : content'[b] # NULL /\ content'[b].aspath = x}
            = {b \in Addresses : content[b] # NULL /\ content[b].aspath = x}
    BY <1>1, <1>4, Zenon
  <2>2. ASSUME NEW b \in {b \in Addresses : content[b] # NULL /\ content[b].aspath = x}
        PROVE  refcnt'[b] = refcnt[b]
    BY <1>1, <1>4, Zenon
  <2>3. QED
    BY <2>1, <2>2 DEF References
<1>5. QED
  BY <1>2, <1>3, <1>4, Zenon

\* One reference less to the attribute at a, which goes with the last.
LEMMA OneReferenceLess ==
    ASSUME HeapInv, NEW a \in Addresses, NEW c \in Contents, content[a] = c,
           refcnt[a] # 0, refcnt' = [refcnt EXCEPT ![a] = @ - 1],
           \/ refcnt[a] > 1 /\ content' = content
           \/ ~(refcnt[a] > 1) /\ content' = [content EXCEPT ![a] = NULL]
    PROVE  /\ <<a, refcnt[a]>> \in References(c.aspath)
           /\ References(c.aspath)' = References(c.aspath) \ {<<a, refcnt[a]>>}
           /\ \A x \in ASPaths : x # c.aspath => References(x)' = References(x)
<1> USE AttrHashAssumption, NoContent
<1>0. PICK n \in Nat : refcnt[a] = n + 1
  <2>1. refcnt[a] \in Nat
    BY Zenon DEF HeapInv
  <2>2. refcnt[a] - 1 \in Nat /\ refcnt[a] = (refcnt[a] - 1) + 1
    BY <2>1
  <2>3. QED
    BY <2>2, Zenon
<1>1. /\ refcnt'[a] = n
      /\ content'[a] \in {NULL, c} /\ (content'[a] = NULL <=> n = 0)
      /\ \A b \in Addresses : b # a => refcnt'[b] = refcnt[b] /\ content'[b] = content[b]
  BY <1>0 DEF HeapInv
<1>2. <<a, n + 1>> \in References(c.aspath)
  BY <1>0, InReferences, Upto, Zenon
<1>3. References(c.aspath)' = References(c.aspath) \ {<<a, n + 1>>}
  <2> SUFFICES ASSUME NEW t
               PROVE  t \in References(c.aspath)'
                          <=> t \in References(c.aspath) /\ t # <<a, n + 1>>
    BY Zenon
  <2>1. ASSUME NEW b \in Addresses, NEW i
        PROVE  (content'[b] # NULL /\ content'[b].aspath = c.aspath /\ i \in 1 .. refcnt'[b])
                   <=> /\ content[b] # NULL /\ content[b].aspath = c.aspath /\ i \in 1 .. refcnt[b]
                       /\ ~(b = a /\ i = n + 1)
    <3>1. CASE b = a
      BY <1>0, <1>1, <3>1
    <3>2. CASE b # a
      BY <1>1, <3>2, Zenon
    <3>3. QED
      BY <3>1, <3>2, Zenon
  <2>2. ASSUME t \in References(c.aspath)'
        PROVE  t \in References(c.aspath) /\ t # <<a, n + 1>>
    <3>0. PICK b \in Addresses : /\ content'[b] # NULL /\ content'[b].aspath = c.aspath
                                 /\ \E i \in 1 .. refcnt'[b] : t = <<b, i>>
      BY <2>2, InReferencesNext
    <3>1. PICK i \in 1 .. refcnt'[b] : t = <<b, i>>
      BY <3>0, Zenon
    <3>2. /\ content[b] # NULL /\ content[b].aspath = c.aspath /\ i \in 1 .. refcnt[b]
          /\ ~(b = a /\ i = n + 1)
      BY <2>1, <3>0, <3>1, Zenon
    <3>3. t # <<a, n + 1>>
      BY <3>1, <3>2, Zenon
    <3>4. QED
      BY <3>1, <3>2, <3>3, InReferences, Zenon
  <2>3. ASSUME t \in References(c.aspath), t # <<a, n + 1>>
        PROVE  t \in References(c.aspath)'
    <3>0. PICK b \in Addresses : /\ content[b] # NULL /\ content[b].aspath = c.aspath
                                 /\ \E i \in 1 .. refcnt[b] : t = <<b, i>>
      BY <2>3, InReferences
    <3>1. PICK i \in 1 .. refcnt[b] : t = <<b, i>>
      BY <3>0, Zenon
    <3>2. content'[b] # NULL /\ content'[b].aspath = c.aspath /\ i \in 1 .. refcnt'[b]
      BY <2>1, <2>3, <3>0, <3>1, Zenon
    <3>3. QED
      BY <3>0, <3>1, <3>2, InReferencesNext, ZenonT(60)
  <2>4. QED
    BY <2>2, <2>3, Zenon
<1>4. ASSUME NEW x \in ASPaths, x # c.aspath PROVE References(x)' = References(x)
  <2>1. {b \in Addresses : content'[b] # NULL /\ content'[b].aspath = x}
            = {b \in Addresses : content[b] # NULL /\ content[b].aspath = x}
    BY <1>1, <1>4
  <2>2. ASSUME NEW b \in {b \in Addresses : content[b] # NULL /\ content[b].aspath = x}
        PROVE  refcnt'[b] = refcnt[b]
    BY <1>1, <1>4, ZenonT(60)
  <2>3. QED
    BY <2>1, <2>2 DEF References
<1>5. QED
  BY <1>0, <1>2, <1>3, <1>4, ZenonT(60)

\* A counter that moves with the number of references stays exact.
LEMMA CountedBy ==
    ASSUME AspathInv, parsed' = parsed, NEW y \in ASPaths, NEW d \in {-1, 1},
           aspath_refcnt' = [aspath_refcnt EXCEPT ![y] = @ + d],
           IsFiniteSet(References(y)'),
           Cardinality(References(y)') = Cardinality(References(y)) + d,
           Cardinality(References(y)) \in Nat,
           \A x \in ASPaths : x # y => References(x)' = References(x)
    PROVE  AspathInv'
<1>1. aspath_refcnt' \in [ASPaths -> Int]
  BY DEF AspathInv
<1>2. \A x \in ASPaths : IsFiniteSet(References(x)')
  BY Zenon DEF AspathInv
<1>3. ASSUME NEW x \in ASPaths
      PROVE  aspath_refcnt'[x] = Cardinality(References(x)') + (IF parsed = x THEN 1 ELSE 0)
  <2>1. aspath_refcnt[x] = Cardinality(References(x)) + (IF parsed = x THEN 1 ELSE 0)
    BY Zenon DEF AspathInv, AspathRefcountExact
  <2>2. CASE x = y
    BY <2>1, <2>2 DEF AspathInv
  <2>3. CASE x # y
    BY <2>1, <2>3, ZenonT(60) DEF AspathInv
  <2>4. QED
    BY <2>2, <2>3, Zenon
<1>4. QED
  BY <1>1, <1>2, <1>3, ZenonT(60) DEF AspathInv, AspathRefcountExact

\* bgp_attr_intern counts the AS path with the reference.
LEMMA InternCounts ==
    ASSUME HeapInv, AspathInv, NEW h \in Holders, NEW c \in Contents,
           bgp_attr_intern(h, c), parsed' = parsed
    PROVE  AspathInv'
<1> USE AttrHashAssumption, NoContent
<1>1. PICK a \in Addresses :
          /\ \/ content[a] = c /\ content' = content
             \/ content[a] = NULL /\ content' = [content EXCEPT ![a] = c]
          /\ refcnt' = [refcnt EXCEPT ![a] = @ + 1]
          /\ aspath_refcnt' = [aspath_refcnt EXCEPT ![c.aspath] = @ + 1]
  BY Zenon DEF bgp_attr_intern, Found
<1>2. /\ <<a, refcnt[a] + 1>> \notin References(c.aspath)
      /\ References(c.aspath)' = References(c.aspath) \cup {<<a, refcnt[a] + 1>>}
      /\ \A x \in ASPaths : x # c.aspath => References(x)' = References(x)
  BY <1>1, OneReferenceMore, ZenonT(60)
<1>3. c.aspath \in ASPaths
  BY Zenon DEF Contents
<1>4. IsFiniteSet(References(c.aspath))
  BY <1>3, Zenon DEF AspathInv
<1>5. /\ IsFiniteSet(References(c.aspath)')
      /\ Cardinality(References(c.aspath)') = Cardinality(References(c.aspath)) + 1
      /\ Cardinality(References(c.aspath)) \in Nat
  BY <1>2, <1>4, FS_AddElement, FS_CardinalityType
<1>6. QED
  BY <1>1, <1>2, <1>3, <1>5, CountedBy, ZenonT(60)

\* bgp_attr_unintern gives it back with the reference.
LEMMA UninternCounts ==
    ASSUME HeapInv, AspathInv, NEW a \in Addresses, refcnt[a] # 0, NEW next,
           bgp_attr_unintern(a, next), parsed' = parsed
    PROVE  AspathInv'
<1> USE AttrHashAssumption, NoContent
<1>1. PICK c \in Contents : content[a] = c
  BY Zenon DEF HeapInv, RefcountExact
<1>2. /\ refcnt' = [refcnt EXCEPT ![a] = @ - 1]
      /\ \/ refcnt[a] > 1 /\ content' = content
         \/ ~(refcnt[a] > 1) /\ content' = [content EXCEPT ![a] = NULL]
      /\ aspath_refcnt' = [aspath_refcnt EXCEPT ![c.aspath] = @ - 1]
  BY <1>1, Zenon DEF bgp_attr_unintern
<1>3. /\ <<a, refcnt[a]>> \in References(c.aspath)
      /\ References(c.aspath)' = References(c.aspath) \ {<<a, refcnt[a]>>}
      /\ \A x \in ASPaths : x # c.aspath => References(x)' = References(x)
  BY <1>1, <1>2, OneReferenceLess, ZenonT(60)
<1>4. c.aspath \in ASPaths
  BY Zenon DEF Contents
<1>5. /\ IsFiniteSet(References(c.aspath)')
      /\ Cardinality(References(c.aspath)') = Cardinality(References(c.aspath)) - 1
      /\ Cardinality(References(c.aspath)) \in Nat
  BY <1>3, <1>4, FS_RemoveElement, FS_CardinalityType DEF AspathInv
<1>6. aspath_refcnt' = [aspath_refcnt EXCEPT ![c.aspath] = @ + (-1)]
  BY <1>2, <1>4, Zenon DEF AspathInv
<1>7. Cardinality(References(c.aspath)') = Cardinality(References(c.aspath)) + (-1)
  BY <1>5, Zenon
<1>8. QED
  BY <1>3, <1>4, <1>5, <1>6, <1>7, CountedBy, Zenon

\* What a step of a handler may do to the AS path counters: nothing, or one
\* bgp_attr_intern, or one bgp_attr_unintern.
LEMMA StepCounts ==
    ASSUME IInv, AspathInv, ParserInv, parsed' = parsed, pc' = "idle" => pc = "idle",
           \/ UNCHANGED <<content, refcnt, aspath_refcnt>>
           \/ \E h \in Holders, c \in Contents : bgp_attr_intern(h, c)
           \/ \E h \in Holders, next \in Labels : ref[h] # NULL /\ bgp_attr_unintern(ref[h], next)
    PROVE  AspathInv' /\ ParserInv'
<1>1. ParserInv'
  BY Zenon DEF ParserInv
<1>2. CASE UNCHANGED <<content, refcnt, aspath_refcnt>>
  <2>1. \A x \in ASPaths : References(x)' = References(x)
    BY <1>2, SameReferences, Zenon
  <2>2. QED
    BY <1>1, <1>2, <2>1, ZenonT(60) DEF AspathInv, AspathRefcountExact
<1>3. ASSUME NEW h \in Holders, NEW c \in Contents, bgp_attr_intern(h, c) PROVE AspathInv'
  BY <1>3, InternCounts, Zenon DEF IInv
<1>4. ASSUME NEW h \in Holders, NEW next \in Labels, ref[h] # NULL, bgp_attr_unintern(ref[h], next)
      PROVE  AspathInv'
  <2>1. ref[h] \in Addresses /\ refcnt[ref[h]] # 0
    BY <1>4, HeldIsThere, Zenon DEF IInv
  <2>2. QED
    BY <1>4, <2>1, UninternCounts, ZenonT(60) DEF IInv
<1>5. QED
  BY <1>1, <1>2, <1>3, <1>4, ZenonT(60)

\* The parser's own reference: bgp_attr_parse takes it, bgp_attr_unintern_sub
\* gives it back.
LEMMA ParserCounts ==
    ASSUME IInv, AspathInv, ParserInv,
           (\E r \in Routes : bgp_update_receive(r)) \/ bgp_attr_unintern_sub
    PROVE  AspathInv' /\ ParserInv'
<1> USE AttrHashAssumption
<1>1. UNCHANGED <<content, refcnt>>
  BY Zenon DEF bgp_update_receive, bgp_attr_unintern_sub
<1>2. \A x \in ASPaths : References(x)' = References(x)
  BY <1>1, SameReferences, Zenon
<1>3. \A x \in ASPaths : Cardinality(References(x)) \in Nat
  BY FS_CardinalityType, Zenon DEF AspathInv
<1>4. CASE \E r \in Routes : bgp_update_receive(r)
  <2>1. PICK y \in ASPaths : /\ parsed' = y /\ pc = "idle" /\ pc' # "idle"
                             /\ aspath_refcnt' = [aspath_refcnt EXCEPT ![y] = @ + 1]
    BY <1>4, Zenon DEF bgp_update_receive, At
  <2>2. parsed = NULL
    BY <2>1, Zenon DEF ParserInv
  <2>3. ASSUME NEW x \in ASPaths
        PROVE  aspath_refcnt'[x] = Cardinality(References(x)') + (IF parsed' = x THEN 1 ELSE 0)
    <3>1. aspath_refcnt[x] = Cardinality(References(x)) + (IF parsed = x THEN 1 ELSE 0)
      BY Zenon DEF AspathInv, AspathRefcountExact
    <3>2. aspath_refcnt[x] = Cardinality(References(x)) /\ References(x)' = References(x)
      BY <1>2, <1>3, <2>2, <3>1
    <3>3. QED
      BY <1>3, <2>1, <3>2 DEF AspathInv
  <2>4. aspath_refcnt' \in [ASPaths -> Int]
    BY <2>1 DEF AspathInv
  <2>5. QED
    BY <1>2, <2>1, <2>3, <2>4, ZenonT(60) DEF AspathInv, AspathRefcountExact, ParserInv
<1>5. CASE bgp_attr_unintern_sub
  <2>1. /\ parsed' = NULL
        /\ aspath_refcnt' = IF parsed = NULL THEN aspath_refcnt
                            ELSE [aspath_refcnt EXCEPT ![parsed] = @ - 1]
    BY <1>5, Zenon DEF bgp_attr_unintern_sub
  <2>2. ASSUME NEW x \in ASPaths
        PROVE  aspath_refcnt'[x] = Cardinality(References(x)') + (IF parsed' = x THEN 1 ELSE 0)
    <3>1. aspath_refcnt[x] = Cardinality(References(x)) + (IF parsed = x THEN 1 ELSE 0)
      BY Zenon DEF AspathInv, AspathRefcountExact
    <3>2. References(x)' = References(x) /\ parsed' # x
      BY <1>2, <2>1, Zenon
    <3>3. aspath_refcnt'[x] = IF parsed = x THEN aspath_refcnt[x] - 1 ELSE aspath_refcnt[x]
      BY <2>1, Zenon DEF AspathInv
    <3>4. QED
      BY <1>3, <3>1, <3>2, <3>3
  <2>3. aspath_refcnt' \in [ASPaths -> Int]
    BY <2>1 DEF AspathInv, ParserInv
  <2>4. QED
    BY <1>2, <2>1, <2>2, <2>3, Zenon DEF AspathInv, AspathRefcountExact, ParserInv
<1>6. QED
  BY <1>4, <1>5, Zenon

\* A comparison leaves the AS paths of the attributes alone.
LEMMA CompareCounts ==
    ASSUME IInv, AspathInv, ParserInv, NEW k \in {"path", "import"}, NEW r \in Routes, NEW s \in Routes,
           bgp_path_info_cmp(k, r, s)
    PROVE  AspathInv' /\ ParserInv'
<1> USE AttrHashAssumption, NoContent
<1>1. PICK a \in Addresses, b \in Addresses, v \in Weights, w \in Weights :
          /\ content[a] \in Contents /\ content[b] \in Contents
          /\ content' = [content EXCEPT ![a].weight = v, ![b].weight = w]
  <2>1. /\ ref[<<k, r>>] \in Addresses /\ content[ref[<<k, r>>]] \in Contents
        /\ ref[<<k, s>>] \in Addresses /\ content[ref[<<k, s>>]] \in Contents
    BY HolderTuples, HeldIsThere, Zenon DEF bgp_path_info_cmp, Held, IInv
  <2>2. PICK w \in {<<LATENCY_WEIGHT, LATENCY_WEIGHT>>, <<LATENCY_WEIGHT, 0>>, <<0, LATENCY_WEIGHT>>} :
            content' = [content EXCEPT ![ref[<<k, r>>]].weight = w[1],
                                       ![ref[<<k, s>>]].weight = w[2]]
    BY Zenon DEF bgp_path_info_cmp
  <2>3. w[1] \in Weights /\ w[2] \in Weights
    BY DEF Weights
  <2>4. QED
    BY <2>1, <2>2, <2>3, Zenon
<1>2. content \in [Addresses -> Contents \cup {NULL}]
  BY Zenon DEF IInv, HeapInv
<1>3. UNCHANGED <<refcnt, aspath_refcnt, parsed, pc>>
  BY Zenon DEF bgp_path_info_cmp, handler, call
<1>4. ASSUME NEW x \in Addresses
      PROVE  /\ content'[x] = NULL <=> content[x] = NULL
             /\ content[x] # NULL => content'[x].aspath = content[x].aspath
  <2>1. PICK c \in Contents : c = [content[a] EXCEPT !.weight = v]
    BY <1>1, NewContent, Zenon
  <2>2. PICK first : first = [content EXCEPT ![a] = c]
    BY Zenon
  <2>3. first[b] \in Contents /\ first \in [Addresses -> Contents \cup {NULL}]
    BY <1>1, <1>2, <2>2, ZenonT(60)
  <2>4. PICK d \in Contents : d = [first[b] EXCEPT !.weight = w]
    BY <2>3, <1>1, NewContent, ZenonT(60)
  <2>5. content' = [first EXCEPT ![b] = d]
    BY <1>1, <2>1, <2>2, <2>4, ZenonT(60)
  <2>6. c.aspath = content[a].aspath /\ d.aspath = first[b].aspath
    BY <1>1, <2>1, <2>3, <2>4, Zenon DEF Contents
  <2>7. QED
    BY <1>1, <1>2, <2>2, <2>3, <2>5, <2>6
<1>5. \A x \in ASPaths : References(x)' = References(x)
  BY <1>3, <1>4, SameReferences, Zenon
<1>6. QED
  BY <1>3, <1>5, Zenon DEF AspathInv, AspathRefcountExact, ParserInv

\* Every step of every handler keeps the AS path counters exact.
LEMMA NextAspath ==
    ASSUME IInv, AspathInv, ParserInv, [Next]_vars
    PROVE  AspathInv' /\ ParserInv'
<1> USE AttrHashAssumption
<1> DEFINE None == UNCHANGED <<content, refcnt, aspath_refcnt>>
           Intern == \E h \in Holders, c \in Contents : bgp_attr_intern(h, c)
           Unintern == \E h \in Holders, next \in Labels :
                           ref[h] # NULL /\ bgp_attr_unintern(ref[h], next)
           Goal == AspathInv' /\ ParserInv'
           Quiet == parsed' = parsed /\ (pc' = "idle" => pc = "idle")
<1>1. Quiet /\ (None \/ Intern \/ Unintern) => Goal
  BY StepCounts, Zenon
<1> HIDE DEF None, Intern, Unintern, Goal, Quiet
<1>2. ASSUME NEW k \in {"path", "adj_in", "import", "mp_attr", "attr_new"}, NEW r \in Routes,
             ref[<<k, r>>] # NULL, NEW next \in Labels, bgp_attr_unintern(ref[<<k, r>>], next),
             parsed' = parsed, next = "idle" => pc = "idle"
      PROVE  Goal
  <2>1. Unintern
    BY <1>2, Zenon DEF Unintern, Holders
  <2>2. Quiet
    BY <1>2, Zenon DEF Quiet, bgp_attr_unintern, Goto
  <2>3. QED
    BY <1>1, <2>1, <2>2, Zenon
<1>3. cur \in Routes \/ pc \in {"idle", "done"} \cup Bad
  BY Zenon DEF IInv, Control
<1>4. ASSUME bgp_adj_in_set PROVE Goal
  <2>1. cur \in Routes /\ got \in Contents /\ parsed' = parsed
    BY <1>4, Zenon DEF bgp_adj_in_set, At, call, IInv, Control, Bad
  <2>2. CASE ref[<<"adj_in", cur>>] # NULL
    <3>1. bgp_attr_unintern(ref[<<"adj_in", cur>>], "adj_in")
      BY <1>4, <2>2, Zenon DEF bgp_adj_in_set, Held, Release
    <3>2. QED
      BY <1>2, <2>1, <2>2, <3>1, Zenon DEF Labels
  <2>3. CASE ref[<<"adj_in", cur>>] = NULL
    <3>1. bgp_attr_intern(<<"adj_in", cur>>, got) /\ pc' = "policy"
      BY <1>4, <2>3, Zenon DEF bgp_adj_in_set, Held, Goto
    <3>2. Intern
      BY <2>1, <3>1, HolderTuples, Zenon DEF Intern
    <3>3. Quiet
      BY <2>1, <3>1, Zenon DEF Quiet
    <3>4. QED
      BY <1>1, <3>2, <3>3, Zenon
  <2>4. QED
    BY <2>2, <2>3, Zenon
<1>5. ASSUME bgp_update_filtered PROVE Goal
  <2>1. None /\ Quiet
    BY <1>5, Zenon DEF None, Quiet, bgp_update_filtered, Goto, heap, call
  <2>2. QED
    BY <1>1, <2>1, Zenon
<1>6. ASSUME \/ bgp_update_permitted
             \/ vpn_leak_to_vrf_update_onevrf
             \/ \E r \in Routes : bgp_path_info_mpath_aggregate_update(r)
      PROVE  Goal
  <2>1. PICK r \in Routes, c \in Contents, next \in {"store", "leak_update", "mpath"} :
            bgp_attr_intern(<<"attr_new", r>>, c) /\ pc' = next /\ parsed' = parsed
    BY <1>6, InternsContent, Zenon
  <2>2. Intern
    BY <2>1, HolderTuples, Zenon DEF Intern
  <2>3. Quiet
    BY <2>1, Zenon DEF Quiet
  <2>4. QED
    BY <1>1, <2>2, <2>3, Zenon
<1>7. ASSUME \/ bgp_update_existing
             \/ bgp_update_new
             \/ bgp_maximum_prefix_overflow
             \/ leak_update
             \/ leak_update_removed
             \/ bgp_path_info_mpath_attr_set
      PROVE  Goal
  <2>1. /\ cur \in Routes /\ ref[<<"attr_new", cur>>] # NULL
        /\ parsed' = parsed
    BY <1>7, Zenon DEF bgp_update_existing, bgp_update_new, bgp_maximum_prefix_overflow, leak_update,
       leak_update_removed, bgp_path_info_mpath_attr_set, At, IInv, Control, Bad, call
  <2>2. \/ None /\ pc' \in {"leak", "done"}
        \/ \E k \in {"path", "import", "mp_attr", "attr_new"}, next \in {"leak", "done"} :
               ref[<<k, cur>>] # NULL /\ bgp_attr_unintern(ref[<<k, cur>>], next)
    <3>1. CASE bgp_update_existing
      BY <2>1, <3>1, Zenon DEF bgp_update_existing, Held, Release, Replace
    <3>2. CASE bgp_update_new \/ bgp_maximum_prefix_overflow \/ leak_update_removed
      BY <3>2, Zenon DEF None, bgp_update_new, bgp_maximum_prefix_overflow, leak_update_removed, Goto, heap
    <3>3. CASE leak_update
      BY <2>1, <3>3, Zenon DEF None, leak_update, Goto, heap, Release, Replace
    <3>4. CASE bgp_path_info_mpath_attr_set
      BY <2>1, <3>4, Zenon DEF None, bgp_path_info_mpath_attr_set, Goto, heap, Release, Replace
    <3>5. QED
      BY <1>7, <3>1, <3>2, <3>3, <3>4, Zenon
  <2>3. CASE None /\ pc' \in {"leak", "done"}
    BY <1>1, <2>1, <2>3, Zenon DEF Quiet
  <2>4. ASSUME NEW k \in {"path", "import", "mp_attr", "attr_new"}, NEW next \in {"leak", "done"},
               ref[<<k, cur>>] # NULL, bgp_attr_unintern(ref[<<k, cur>>], next)
        PROVE  Goal
    <3>1. next \in Labels /\ next # "idle"
      BY Zenon DEF Labels
    <3>2. QED
      BY <1>2, <2>1, <2>4, <3>1, Zenon
  <2>5. QED
    BY <2>2, <2>3, <2>4, Zenon
<1>8. ASSUME bgp_path_info_mpath_free PROVE Goal
  <2>1. /\ cur \in Routes /\ parsed' = parsed
        /\ \/ ref[<<"mp_attr", cur>>] # NULL /\ bgp_attr_unintern(ref[<<"mp_attr", cur>>], "done")
           \/ UNCHANGED heap /\ pc' = "done"
    BY <1>8, Zenon DEF bgp_path_info_mpath_free, At, IInv, Control, Bad, call, Held, Release, Goto
  <2>2. CASE ref[<<"mp_attr", cur>>] # NULL /\ bgp_attr_unintern(ref[<<"mp_attr", cur>>], "done")
    BY <1>2, <2>1, <2>2, Zenon DEF Labels
  <2>3. CASE UNCHANGED heap /\ pc' = "done"
    <3>1. None /\ Quiet
      BY <2>1, <2>3, Zenon DEF None, Quiet, heap
    <3>2. QED
      BY <1>1, <3>1, Zenon
  <2>4. QED
    BY <2>1, <2>2, <2>3, Zenon
<1>9. ASSUME NEW r \in Routes,
             \/ bgp_soft_reconfig_table(r)
             \/ vpn_leak_to_vrf_update_all(r)
      PROVE  Goal
  <2>1. None /\ Quiet
    BY <1>9, Zenon DEF None, Quiet, bgp_soft_reconfig_table, vpn_leak_to_vrf_update_all, heap
  <2>2. QED
    BY <1>1, <2>1, Zenon
<1>10. ASSUME NEW r \in Routes, bgp_withdraw(r) PROVE Goal
  <2>1. /\ pc = "idle" /\ parsed' = parsed
        /\ \/ ref[<<"adj_in", r>>] # NULL /\ bgp_attr_unintern(ref[<<"adj_in", r>>], "idle")
           \/ UNCHANGED heap
    BY <1>10, Zenon DEF bgp_withdraw, At, call, Held, Release
  <2>2. CASE ref[<<"adj_in", r>>] # NULL /\ bgp_attr_unintern(ref[<<"adj_in", r>>], "idle")
    BY <1>2, <2>1, <2>2, Zenon DEF Labels
  <2>3. CASE UNCHANGED heap
    <3>1. None /\ Quiet
      BY <2>1, <2>3, Zenon DEF None, Quiet, heap
    <3>2. QED
      BY <1>1, <3>1, Zenon
  <2>4. QED
    BY <2>1, <2>2, <2>3, Zenon
<1>11. ASSUME NEW r \in Routes, NEW k \in {"path", "import"}, bgp_path_info_free(k, r) PROVE Goal
  <2>1. PICK next \in {"idle", "mpath_free"} : next = IF k = "import" THEN "mpath_free" ELSE "idle"
    BY Zenon
  <2>2. /\ pc = "idle" /\ parsed' = parsed /\ <<k, r>> \in removed
        /\ bgp_attr_unintern(ref[<<k, r>>], next)
    BY <1>11, <2>1, Zenon DEF bgp_path_info_free, At, Release
  <2>3. ref[<<k, r>>] # NULL /\ next \in Labels
    BY <2>2, Zenon DEF IInv, Control, Labels
  <2>4. QED
    BY <1>2, <2>2, <2>3, Zenon
<1>12. ASSUME NEW r \in Routes, bgp_path_info_mpath_attr_clear(r) PROVE Goal
  BY <1>2, <1>12, Zenon DEF bgp_path_info_mpath_attr_clear, At, Held, Release, call, Labels
<1>13. ASSUME NEW k \in {"path", "import"}, NEW r \in Routes, NEW s \in Routes, bgp_path_info_cmp(k, r, s)
       PROVE  Goal
  BY <1>13, CompareCounts, Zenon DEF Goal
<1>14. ASSUME UNCHANGED vars PROVE Goal
  <2>1. None /\ Quiet
    BY <1>14, Zenon DEF None, Quiet, vars, heap, handler, call
  <2>2. QED
    BY <1>1, <2>1, Zenon
<1>15. ASSUME Handler PROVE Goal
  BY <1>4, <1>5, <1>6, <1>7, <1>8, <1>15, ParserCounts, Zenon DEF Handler, Goal
<1>16. ASSUME NEW r \in Routes, Event(r) PROVE Goal
  BY <1>6, <1>9, <1>10, <1>11, <1>12, <1>13, <1>16, ParserCounts, ZenonT(60) DEF Event, Goal
<1>17. QED
  BY <1>14, <1>15, <1>16, Zenon DEF Next, Goal

-----------------------------------------------------------------------------
(* The theorems.                                                           *)

\* An empty table has exact counts.
LEMMA InitIInv == Init => IInv
<1> SUFFICES ASSUME Init PROVE IInv
  BY Zenon
<1> USE AttrHashAssumption
<1>1. \A a \in Addresses : HoldersOf(a) = {}
  BY Zenon DEF Init, HoldersOf
<1>2. RefcountExact
  <2>1. Cardinality({}) = 0
    BY FS_EmptySet, Zenon
  <2>2. SUFFICES ASSUME NEW a \in Addresses
                 PROVE  refcnt[a] = Cardinality(HoldersOf(a)) + lost[a] /\ content[a] = NULL /\ refcnt[a] = 0
    BY Zenon DEF RefcountExact
  <2>3. Cardinality(HoldersOf(a)) = 0
    BY <1>1, <2>1, Zenon
  <2>4. QED
    BY <2>3 DEF Init
<1>3. TableCanonical
  BY Zenon DEF Init, TableCanonical
<1>4. HeapInv
  BY <1>2, <1>3, Zenon DEF Init, HeapInv
<1>5. Control
  BY HolderTuples, Zenon DEF Init, Control, Labels, Bad
<1>6. QED
  BY <1>4, <1>5, Zenon DEF IInv

\* Every step of every handler keeps them exact.
LEMMA NextIInv == IInv /\ [Next]_vars => IInv'
<1> SUFFICES ASSUME IInv, [Next]_vars PROVE IInv'
  BY Zenon
<1>1. CASE Handler
  <2>1. CASE bgp_path_info_mpath_free
    <3>1. cur \in Routes
      BY <2>1, Zenon DEF bgp_path_info_mpath_free, At, IInv, Control, Bad
    <3>2. QED
      BY <2>1, <3>1, RouteSteps, Zenon
  <2>2. QED
    BY <1>1, <2>1, AdjInStep, QuietStep, InternSteps, UseUpSteps, Zenon DEF Handler
<1>2. ASSUME NEW r \in Routes, Event(r) PROVE IInv'
  BY <1>2, EnterStep, RouteSteps, InternSteps, CompareStep, Zenon DEF Event
<1>3. CASE UNCHANGED vars
  <2>1. UNCHANGED <<content, bucket, refcnt, ref, removed, lost, rewrites, pc, cur, got>>
    BY <1>3, Zenon DEF vars, heap, history, handler, call
  <2>2. \A a \in Addresses : HoldersOf(a)' = HoldersOf(a)
    BY <2>1, Zenon DEF HoldersOf
  <2>3. QED
    BY <2>1, <2>2, Zenon DEF IInv, HeapInv, Control, RefcountExact, TableCanonical
<1>4. QED
  BY <1>1, <1>2, <1>3, Zenon DEF Next

\* No AS path is referenced at first.
LEMMA InitAspath == Init => AspathInv /\ ParserInv
<1> SUFFICES ASSUME Init PROVE AspathInv /\ ParserInv
  BY Zenon
<1> USE AttrHashAssumption
<1>1. \A x \in ASPaths : References(x) = {}
  BY Zenon DEF Init, References
<1>2. IsFiniteSet({}) /\ Cardinality({}) = 0
  BY FS_EmptySet, Zenon
<1>3. ASSUME NEW x \in ASPaths
      PROVE  /\ IsFiniteSet(References(x))
             /\ aspath_refcnt[x] = Cardinality(References(x)) + (IF parsed = x THEN 1 ELSE 0)
  <2>1. IsFiniteSet(References(x)) /\ Cardinality(References(x)) = 0
    BY <1>1, <1>2, Zenon
  <2>2. QED
    BY <2>1 DEF Init
<1>4. QED
  BY <1>3 DEF Init, AspathInv, AspathRefcountExact, ParserInv

\* The two invariants together.
LEMMA All == Spec => [](IInv /\ AspathInv /\ ParserInv)
<1>1. Init => IInv /\ AspathInv /\ ParserInv
  BY InitIInv, InitAspath, Zenon
<1>2. (IInv /\ AspathInv /\ ParserInv) /\ [Next]_vars => (IInv /\ AspathInv /\ ParserInv)'
  <2>1. IInv /\ [Next]_vars => IInv'
    BY NextIInv, Zenon
  <2>2. IInv /\ AspathInv /\ ParserInv /\ [Next]_vars => AspathInv' /\ ParserInv'
    BY NextAspath, Zenon
  <2>3. QED
    BY <2>1, <2>2, Zenon
<1>3. QED
  BY <1>1, <1>2, PTL DEF Spec

\* attr->refcnt is the number of references, the lost ones included, and an
\* object is there as long as one is left (bgp_attr_intern, bgp_attr_unintern
\* and every handler that calls them).
THEOREM CountsExact == Spec => []RefcountExact
<1>1. IInv => RefcountExact
  BY Zenon DEF IInv, HeapInv
<1>2. QED
  BY <1>1, InitIInv, NextIInv, PTL DEF Spec

\* As long as no comparison has written to an interned object, there is one
\* object per content, each in its bucket, and bgp_attr_unintern finds it.
THEOREM Canonical == Spec => []TableCanonical
<1>1. IInv => TableCanonical
  BY Zenon DEF IInv, HeapInv
<1>2. QED
  BY <1>1, InitIInv, NextIInv, PTL DEF Spec

\* So the assertion of bgp_attr_unintern can only fail after such a write.
THEOREM OnlyWritesBreakRelease == Spec => [](rewrites = 0 => ReleaseFindsObject)
<1>1. IInv => (rewrites = 0 => ReleaseFindsObject)
  BY Zenon DEF IInv, HeapInv, TableCanonical, ReleaseFindsObject
<1>2. QED
  BY <1>1, InitIInv, NextIInv, PTL DEF Spec

\* aspath->refcnt is the number of references to the attributes that have it,
\* plus the parser's, whatever bgp_update, the import, the multipath code and
\* the comparison do: no AS path is freed while an attribute points to it.
THEOREM AspathCountsExact == Spec => []AspathRefcountExact
<1>1. AspathInv => AspathRefcountExact
  BY Zenon DEF AspathInv
<1>2. QED
  BY <1>1, All, PTL

\* The variables stay in their ranges: no counter goes below zero, and only a
\* path_info that is there is flagged BGP_PATH_REMOVED.
THEOREM TypeCorrect == Spec => []TypeOK
<1>1. IInv /\ AspathInv /\ ParserInv => TypeOK
  <2> SUFFICES ASSUME IInv, AspathInv, ParserInv PROVE TypeOK
    BY Zenon
  <2>1. aspath_refcnt \in [ASPaths -> Nat]
    <3>1. \A x \in ASPaths : Cardinality(References(x)) \in Nat
      BY FS_CardinalityType, Zenon DEF AspathInv
    <3>2. \A x \in ASPaths : aspath_refcnt[x] \in Nat
      BY <3>1 DEF AspathInv, AspathRefcountExact
    <3>3. QED
      BY <3>2, Zenon DEF AspathInv
  <2>2. removed \subseteq {h \in Holders : ref[h] # NULL}
    BY Zenon DEF IInv, Control, Holders
  <2>3. QED
    BY <2>1, <2>2, Zenon DEF TypeOK, IInv, HeapInv, Control, ParserInv
<1>2. QED
  BY <1>1, All, PTL
=============================================================================
