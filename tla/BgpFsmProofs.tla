---------------------------- MODULE BgpFsmProofs ----------------------------
(***************************************************************************)
(* The session FSM, for any number of connection attempts, packets and     *)
(* troubles: an invariant that every step of the main thread, the I/O      *)
(* pthread, the timers, the neighbour and the operator keeps.              *)
(* BgpFsmSafetyProofs draws the theorems from it: established_peers is     *)
(* exact, no assertion fails, no connection is stranded, a                 *)
(* Clearing_Completed finds its peer Clearing, and routes do not outlive   *)
(* their session unless peer_xfer_conn fails.                              *)
(*                                                                         *)
(* During(t, c, e) holds while event e of connection c is being handled;   *)
(* Inv(t) is what it says between two tasks.  It is a predicate on states  *)
(* t, not on s, because a handler goes through many states:                *)
(* bgp_event_update calls a function of the FSM table, which cancels,      *)
(* arms, closes, deletes or exchanges, and then changes the status.  A     *)
(* lemma for each function says what it does, a lemma for each kind of row *)
(* that it takes During to Inv, and the lemmas of BgpFsmStepProofs, one    *)
(* for each step, put them together.                                       *)
(*                                                                         *)
(* What event_cancel leaves of the event list, CancelRests, is a           *)
(* hypothesis of the lemmas that need it.  Its proof is by induction and   *)
(* comes in BgpFsmSafetyProofs.                                            *)
(***************************************************************************)
EXTENDS BgpFsm, TLAPS

Fields == {"conf", "stub", "larger", "nht", "status", "fd", "sent", "check", "io",
           "timers", "ibuf", "queue", "task", "processed", "established_peers", "rib",
           "clear_node_queue", "abort", "xfer_failed"}

\* t is a record with these fields.
Rec(t) == t = [f \in Fields |-> t[f]]

-----------------------------------------------------------------------------
(* What the handlers do to the event list.                                 *)

Events == FsmEvents \cup Tasks

\* What may wait in the list: bgp_open_receive raises its event at once.
Task == [conn : Conns, event : Events \ {"Receive_OPEN_message"}]

\* r is what is left of the first n elements of q, in their order
Rest(r, q, D, n, S) ==
    /\ r \in Seq(S)
    /\ \A j \in 1 .. n : q[j] \notin D => \E k \in 1 .. Len(r) : r[k] = q[j]
    /\ \A k \in 1 .. Len(r) :
           \E j \in 1 .. n :
               /\ r[k] = q[j] /\ q[j] \notin D
               /\ \A i \in 1 .. j - 1 : q[i] \notin D => \E l \in 1 .. k - 1 : r[l] = q[i]

\* What event_cancel and event_cancel_event_ready leave of the event list is the
\* tasks outside D, in their order.
CancelRests == \A q \in Seq(Task) : \A D : Rest(Without(q, D), q, D, Len(q), Task)

Completion(d) == [conn |-> d, event |-> "Clearing_Completed"]

\* The events that stop a session.
Stops(d) == [conn : {d}, event : {"BGP_Stop", "TCP_fatal_error"}]

\* A Clearing_Completed for d only comes after an event that stops d.
Guarded(q, d) ==
    \A i \in DOMAIN q : q[i] = Completion(d) => \E j \in 1 .. i - 1 : q[j] \in Stops(d)

\* A task added at the end: the list has its type, one more element, and a
\* completion added behind an event that stops its connection is guarded.
LEMMA AppendQueue ==
    ASSUME NEW q \in Seq(Task), NEW x \in Task, NEW r, r = Append(q, x)
    PROVE  /\ r \in Seq(Task)
           /\ Waiting(r) = Waiting(q) \cup {x}
           /\ \A d : Guarded(q, d) /\ (x = Completion(d) => Waiting(q) \cap Stops(d) # {}) => Guarded(r, d)
<1>1. PICK n \in Nat : n = Len(q)
  OBVIOUS
<1>2. /\ r \in Seq(Task) /\ Len(r) = n + 1 /\ DOMAIN r = 1 .. n + 1 /\ DOMAIN q = 1 .. n
      /\ \A i \in 1 .. n : r[i] = q[i]
      /\ r[n + 1] = x
  BY <1>1
<1>3. Waiting(r) = Waiting(q) \cup {x}
  <2>1. ASSUME NEW y \in Waiting(r) PROVE y \in Waiting(q) \cup {x}
    BY <1>2 DEF Waiting
  <2>2. ASSUME NEW y \in Waiting(q) PROVE y \in Waiting(r)
    <3>1. PICK i \in 1 .. n : y = q[i]
      BY <1>2, Zenon DEF Waiting
    <3>2. i \in DOMAIN r /\ r[i] = y
      BY <1>2, <3>1
    <3>3. QED
      BY <3>2, Zenon DEF Waiting
  <2>3. x \in Waiting(r)
    <3>1. n + 1 \in DOMAIN r
      BY <1>2
    <3>2. QED
      BY <1>2, <3>1, Zenon DEF Waiting
  <2>4. QED
    BY <2>1, <2>2, <2>3, Zenon
<1>4. ASSUME NEW d, Guarded(q, d), x = Completion(d) => Waiting(q) \cap Stops(d) # {}
      PROVE  Guarded(r, d)
  <2> SUFFICES ASSUME NEW i \in DOMAIN r, r[i] = Completion(d)
               PROVE  \E j \in 1 .. i - 1 : r[j] \in Stops(d)
    BY Zenon DEF Guarded
  <2>1. CASE i \in 1 .. n
    <3>1. PICK j \in 1 .. i - 1 : q[j] \in Stops(d)
      BY <1>2, <1>4, <2>1, Zenon DEF Guarded
    <3>2. j \in 1 .. n
      BY <2>1
    <3>3. r[j] \in Stops(d)
      BY <1>2, <3>1, <3>2, Zenon
    <3>4. QED
      BY <3>3, Zenon
  <2>2. CASE i = n + 1
    <3>1. PICK y \in Waiting(q) : y \in Stops(d)
      BY <1>2, <1>4, <2>2, Zenon
    <3>2. PICK j \in 1 .. n : q[j] = y
      BY <1>2, <3>1, Zenon DEF Waiting
    <3>3. j \in 1 .. i - 1 /\ r[j] \in Stops(d)
      BY <1>2, <2>2, <3>1, <3>2
    <3>4. QED
      BY <3>3, Zenon
  <2>3. QED
    BY <1>2, <2>1, <2>2
<1>5. QED
  BY <1>2, <1>3, <1>4, Zenon

\* Tasks cancelled: the guards of completions stay unless they are cancelled.
LEMMA WithoutQueue ==
    ASSUME CancelRests, NEW q \in Seq(Task), NEW D, NEW r, r = Without(q, D)
    PROVE  /\ r \in Seq(Task)
           /\ Waiting(r) = Waiting(q) \ D
           /\ \A d : Guarded(q, d) /\ D \cap Stops(d) = {} => Guarded(r, d)
<1>1. PICK n \in Nat : n = Len(q) /\ DOMAIN q = 1 .. n
  OBVIOUS
<1>2. Rest(r, q, D, n, Task)
  BY <1>1, Zenon DEF CancelRests
<1>3. r \in Seq(Task)
  BY <1>2, Zenon DEF Rest
<1>4. PICK m \in Nat : m = Len(r) /\ DOMAIN r = 1 .. m
  BY <1>3
<1>5. /\ \A j \in 1 .. n : q[j] \notin D => \E k \in 1 .. m : r[k] = q[j]
      /\ \A k \in 1 .. m :
           \E j \in 1 .. n :
               /\ r[k] = q[j] /\ q[j] \notin D
               /\ \A i \in 1 .. j - 1 : q[i] \notin D => \E l \in 1 .. k - 1 : r[l] = q[i]
  BY <1>2, <1>4, Zenon DEF Rest
<1>6. Waiting(r) = Waiting(q) \ D
  <2>1. ASSUME NEW y \in Waiting(r) PROVE y \in Waiting(q) \ D
    <3>1. PICK k \in 1 .. m : r[k] = y
      BY <1>4, Zenon DEF Waiting
    <3>2. PICK j \in 1 .. n : r[k] = q[j] /\ q[j] \notin D
      BY <1>5, Zenon
    <3>3. QED
      BY <1>1, <3>1, <3>2, Zenon DEF Waiting
  <2>2. ASSUME NEW y \in Waiting(q) \ D PROVE y \in Waiting(r)
    <3>1. PICK j \in 1 .. n : q[j] = y
      BY <1>1, Zenon DEF Waiting
    <3>2. PICK k \in 1 .. m : r[k] = q[j]
      BY <1>5, <3>1, Zenon
    <3>3. QED
      BY <1>4, <3>1, <3>2, Zenon DEF Waiting
  <2>3. QED
    BY <2>1, <2>2, Zenon
<1>7. ASSUME NEW d, Guarded(q, d), D \cap Stops(d) = {} PROVE Guarded(r, d)
  <2> SUFFICES ASSUME NEW k \in DOMAIN r, r[k] = Completion(d)
               PROVE  \E l \in 1 .. k - 1 : r[l] \in Stops(d)
    BY Zenon DEF Guarded
  <2>1. PICK j \in 1 .. n :
               /\ r[k] = q[j] /\ q[j] \notin D
               /\ \A i \in 1 .. j - 1 : q[i] \notin D => \E l \in 1 .. k - 1 : r[l] = q[i]
    BY <1>4, <1>5, Zenon
  <2>2. PICK i \in 1 .. j - 1 : q[i] \in Stops(d)
    BY <1>1, <1>7, <2>1, Zenon DEF Guarded
  <2>3. q[i] \notin D
    BY <1>7, <2>2, Zenon
  <2>4. PICK l \in 1 .. k - 1 : r[l] = q[i]
    BY <2>1, <2>3, Zenon
  <2>5. QED
    BY <2>2, <2>4, Zenon
<1>8. QED
  BY <1>3, <1>6, <1>7, Zenon

\* The first task taken: it is no completion that was guarded, and unless it
\* stops d the completions of d behind it stay guarded.
LEMMA TailQueue ==
    ASSUME NEW q \in Seq(Task), q # <<>>, NEW r, r = Tail(q), NEW h, h = Head(q)
    PROVE  /\ h \in Task /\ r \in Seq(Task)
           /\ Waiting(q) = Waiting(r) \cup {h}
           /\ \A d : Guarded(q, d) => h # Completion(d) /\ (h \notin Stops(d) => Guarded(r, d))
<1>1. PICK n \in Nat : n = Len(q) /\ DOMAIN q = 1 .. n
  BY SMTT(60)
<1>2. /\ n # 0 /\ h = q[1] /\ h \in Task /\ r \in Seq(Task) /\ DOMAIN r = 1 .. n - 1
      /\ \A i \in 1 .. n - 1 : r[i] = q[i + 1]
  BY <1>1, SMTT(60)
<1>3. Waiting(q) = Waiting(r) \cup {h}
  <2>1. ASSUME NEW y \in Waiting(q) PROVE y \in Waiting(r) \cup {h}
    <3>1. PICK i \in 1 .. n : q[i] = y
      BY <1>1, Zenon DEF Waiting
    <3>2. CASE i = 1
      BY <1>2, <3>1, <3>2, Zenon
    <3>3. CASE i # 1
      <4>1. i - 1 \in 1 .. n - 1 /\ r[i - 1] = y
        BY <1>2, <3>1, <3>3
      <4>2. QED
        BY <1>2, <4>1, Zenon DEF Waiting
    <3>4. QED
      BY <3>2, <3>3, Zenon
  <2>2. ASSUME NEW y \in Waiting(r) PROVE y \in Waiting(q)
    <3>1. PICK i \in 1 .. n - 1 : r[i] = y
      BY <1>2, Zenon DEF Waiting
    <3>2. i + 1 \in 1 .. n /\ q[i + 1] = y
      BY <1>2, <3>1, SMTT(60)
    <3>3. QED
      BY <1>1, <3>2, Zenon DEF Waiting
  <2>3. h \in Waiting(q)
    <3>1. 1 \in DOMAIN q
      BY <1>1, <1>2, SMTT(60)
    <3>2. QED
      BY <1>2, <3>1, Zenon DEF Waiting
  <2>4. QED
    BY <2>1, <2>2, <2>3, Zenon
<1>4. ASSUME NEW d, Guarded(q, d) PROVE h # Completion(d)
  <2>1. 1 \in DOMAIN q /\ ~\E j \in 1 .. 1 - 1 : TRUE
    BY <1>1, <1>2, SMTT(60)
  <2>2. QED
    BY <1>2, <1>4, <2>1, Zenon DEF Guarded
<1>5. ASSUME NEW d, Guarded(q, d), h \notin Stops(d) PROVE Guarded(r, d)
  <2> SUFFICES ASSUME NEW i \in DOMAIN r, r[i] = Completion(d)
               PROVE  \E j \in 1 .. i - 1 : r[j] \in Stops(d)
    BY Zenon DEF Guarded
  <2>1. i \in 1 .. n - 1 /\ i + 1 \in DOMAIN q /\ q[i + 1] = Completion(d)
    BY <1>1, <1>2, SMTT(60)
  <2>2. PICK j \in 1 .. (i + 1) - 1 : q[j] \in Stops(d)
    BY <1>5, <2>1, Zenon DEF Guarded
  <2>3. j # 1
    BY <1>2, <1>5, <2>2, Zenon
  <2>4. j - 1 \in 1 .. i - 1 /\ r[j - 1] = q[j]
    BY <1>2, <2>1, <2>2, <2>3, SMTT(60)
  <2>5. QED
    BY <2>2, <2>4, Zenon
<1>6. QED
  BY <1>2, <1>3, <1>4, <1>5, Zenon

\* Without a completion for d in the list there is nothing to guard.
LEMMA NothingToGuard ==
    ASSUME NEW q, NEW d, Completion(d) \notin Waiting(q)
    PROVE  Guarded(q, d)
  BY Zenon DEF Guarded, Waiting

-----------------------------------------------------------------------------
(* What the handlers do to a state.                                        *)

\* n connections are Established.
Ups(n, status) ==
    n = (IF status[1] = "Established" THEN 1 ELSE 0) + (IF status[2] = "Established" THEN 1 ELSE 0)

\* A connection that changes its status changes the number by one at most.
LEMMA UpsChange ==
    ASSUME NEW f \in [Conns -> Statuses], NEW n, Ups(n, f), NEW c \in Conns, NEW st \in Statuses,
           f[c] # st, NEW g, g = [f EXCEPT ![c] = st]
    PROVE  Ups(IF st = "Established" THEN n + 1 ELSE IF f[c] = "Established" THEN n - 1 ELSE n, g)
  BY DEF Ups, Conns

\* Every field has its type, and the count of sessions is exact.
Typed(t) ==
    /\ Rec(t)
    /\ t.conf \in Conns
    /\ t.stub \in BOOLEAN /\ t.larger \in BOOLEAN /\ t.nht \in BOOLEAN
    /\ t.status \in [Conns -> Statuses]
    /\ t.fd \in [Conns -> {"none", "connecting", "up", "fin", "reset"}]
    /\ t.sent \in [Conns -> 0 .. MaxPackets]
    /\ t.check \in [Conns -> BOOLEAN]
    /\ t.io \in [Conns -> {"off", "on", "dead"}]
    /\ t.timers \in [Conns -> SUBSET {"start", "connect", "hold"}]
    /\ t.ibuf \in [Conns -> Seq(Packets)]
    /\ t.queue \in Seq(Task)
    /\ t.task \in {0} \cup Conns
    /\ t.processed \in 0 .. rpkt_quanta
    /\ Ups(t.established_peers, t.status)
    /\ t.rib \in BOOLEAN /\ t.clear_node_queue \in BOOLEAN
    /\ t.abort \in BOOLEAN /\ t.xfer_failed \in BOOLEAN

\* Event or task e of connection d is waiting.
Has(t, d, e) == [conn |-> d, event |-> e] \in Waiting(t.queue)

\* An event that stops d is waiting.
Doomed(t, d) == Has(t, d, "BGP_Stop") \/ Has(t, d, "TCP_fatal_error")

\* What connection d sees of its devices is the same in u and t.
SameDevices(u, t, d) ==
    /\ u.fd[d] = t.fd[d] /\ u.check[d] = t.check[d] /\ u.io[d] = t.io[d]
    /\ u.timers[d] = t.timers[d] /\ u.ibuf[d] = t.ibuf[d]

\* u differs from t in the status of connections and in what belongs to c only.
Apart(u, t, c) ==
    /\ Typed(u)
    /\ u.conf = t.conf /\ u.stub = t.stub /\ u.task = t.task
    /\ u.rib = t.rib /\ u.xfer_failed = t.xfer_failed
    /\ \A d \in Conns : d # c =>
        /\ SameDevices(u, t, d)
        /\ \A e : Has(u, d, e) <=> Has(t, d, e)
        /\ Guarded(t.queue, d) => Guarded(u.queue, d)

\* u differs from t in what belongs to c only, its status excepted.
Own(u, t, c) ==
    /\ Apart(u, t, c)
    /\ u.status = t.status
    /\ u.clear_node_queue = t.clear_node_queue

\* u is t with an event or task e added for c.
Adds(u, t, c, e) ==
    /\ Own(u, t, c)
    /\ SameDevices(u, t, c)
    /\ u.abort = t.abort
    /\ \A g : Has(u, c, g) <=> Has(t, c, g) \/ g = e
    /\ Guarded(t.queue, c) /\ (e = "Clearing_Completed" => Doomed(t, c)) => Guarded(u.queue, c)

\* A state differs from itself in nothing.
LEMMA OwnSelf == ASSUME NEW t, Typed(t), NEW c PROVE Own(t, t, c)
  BY Zenon DEF Own, Apart, SameDevices

\* Two changes of what belongs to c, one after the other.
LEMMA OwnTrans == ASSUME NEW t, NEW u, NEW v, NEW c, Own(u, t, c), Own(v, u, c) PROVE Own(v, t, c)
  BY SMTT(60) DEF Own, Apart, SameDevices

\* A task appended to the list is all that changes, for a connection that exists.
LEMMA Appends ==
    ASSUME NEW t, Typed(t), NEW c \in Conns,
           NEW e \in Events \ {"Receive_OPEN_message"},
           NEW u, u = [t EXCEPT !.queue = Append(@, [conn |-> c, event |-> e])]
    PROVE  Adds(u, t, c, e)
<1>1. PICK q \in Seq(Task) : q = t.queue
  BY Zenon DEF Typed
<1>2. PICK x \in Task : x = [conn |-> c, event |-> e]
  BY Zenon DEF Task
<1>3. PICK r : r = Append(q, x)
  BY Zenon
<1>4. /\ r \in Seq(Task)
      /\ Waiting(r) = Waiting(q) \cup {x}
      /\ \A d : Guarded(q, d) /\ (x = Completion(d) => Waiting(q) \cap Stops(d) # {}) => Guarded(r, d)
  BY <1>3, AppendQueue, Zenon
<1>5. u = [t EXCEPT !.queue = r]
  BY <1>1, <1>2, <1>3, Zenon
<1>6. u.queue = r /\ Typed(u)
  BY <1>4, <1>5, ZenonT(60) DEF Typed, Rec, Fields
<1>7. /\ u.conf = t.conf /\ u.stub = t.stub /\ u.status = t.status /\ u.task = t.task
      /\ u.rib = t.rib /\ u.clear_node_queue = t.clear_node_queue /\ u.xfer_failed = t.xfer_failed
      /\ u.abort = t.abort
      /\ \A d : SameDevices(u, t, d)
  BY <1>5 DEF Typed, Rec, Fields, SameDevices
<1>8. \A d, g : Has(u, d, g) <=> Has(t, d, g) \/ (d = c /\ g = e)
  <2>1. \A d, g : [conn |-> d, event |-> g] = x <=> d = c /\ g = e
    BY <1>2, Zenon
  <2>2. \A y : y \in Waiting(u.queue) <=> y \in Waiting(t.queue) \/ y = x
    BY <1>1, <1>4, <1>6, Zenon
  <2>3. QED
    BY <2>1, <2>2, Zenon DEF Has
<1>9. \A d : d # c => (Guarded(q, d) => Guarded(r, d))
  BY <1>2, <1>4, Zenon DEF Completion
<1>10. (e = "Clearing_Completed" => Doomed(t, c)) => (Guarded(q, c) => Guarded(r, c))
  <2>1. Doomed(t, c) => Waiting(q) \cap Stops(c) # {}
    BY <1>1, SMTT(60) DEF Doomed, Has, Stops
  <2>2. x = Completion(c) => e = "Clearing_Completed"
    BY <1>2, Zenon DEF Completion
  <2>3. QED
    BY <1>4, <2>1, <2>2, Zenon
<1>11. QED
  BY <1>1, <1>6, <1>7, <1>8, <1>9, <1>10, Zenon DEF Adds, Own, Apart

\* BGP_EVENT_ADD adds its event behind the waiting ones and changes nothing else.
LEMMA EventAdds ==
    ASSUME NEW t, Typed(t), NEW c \in Conns, t.status[c] # "Deleted",
           NEW e \in FsmEvents \ {"Receive_OPEN_message"},
           NEW u, u = BGP_EVENT_ADD(t, c, e)
    PROVE  Adds(u, t, c, e)
  BY Appends, Zenon DEF BGP_EVENT_ADD, Events

\* event_add_event adds a task of the packet code unless it is waiting already.
LEMMA TaskAdds ==
    ASSUME NEW t, Typed(t), NEW c \in Conns, NEW e \in Tasks, NEW u, u = AddTask(t, c, e)
    PROVE  Adds(u, t, c, e)
<1>1. CASE Has(t, c, e)
  <2>1. u = t /\ e # "Clearing_Completed"
    BY <1>1, Zenon DEF AddTask, Has, Tasks
  <2>2. QED
    BY <1>1, <2>1, OwnSelf, Zenon DEF Adds, SameDevices
<1>2. CASE ~Has(t, c, e)
  <2>1. e \in Events \ {"Receive_OPEN_message"}
    BY Zenon DEF Events, Tasks
  <2>2. u = [t EXCEPT !.queue = Append(@, [conn |-> c, event |-> e])]
    BY <1>2, Zenon DEF AddTask, Has
  <2>3. QED
    BY <2>1, <2>2, Appends, Zenon
<1>3. QED
  BY <1>1, <1>2, Zenon

\* bgp_notify_send only adds an event that stops the connection.
LEMMA NotifyAdds ==
    ASSUME NEW t, Typed(t), NEW c \in Conns, t.status[c] # "Deleted",
           NEW u, u = bgp_notify_send(t, c)
    PROVE  \E e \in {"BGP_Stop", "TCP_fatal_error"} :
               Adds(u, t, c, e) /\ (t.fd[c] \in {"up", "fin"} => e = "BGP_Stop")
<1>1. PICK e \in {"BGP_Stop", "TCP_fatal_error"} :
         e = IF t.fd[c] \in {"up", "fin"} THEN "BGP_Stop" ELSE "TCP_fatal_error"
  BY Zenon
<1>2. u = BGP_EVENT_ADD(t, c, e) /\ e \in FsmEvents
  BY <1>1, Zenon DEF bgp_notify_send, FsmEvents
<1>3. Adds(u, t, c, e)
  BY <1>2, EventAdds, Zenon
<1>4. QED
  BY <1>1, <1>3, Zenon

\* u is t without the tasks in E of c.
Dropped(u, t, c, E) ==
    /\ Own(u, t, c) /\ SameDevices(u, t, c) /\ u.abort = t.abort
    /\ \A e \in Events : Has(u, c, e) <=> Has(t, c, e) /\ e \notin E
    /\ E \cap {"BGP_Stop", "TCP_fatal_error"} = {} /\ Guarded(t.queue, c) => Guarded(u.queue, c)

\* Taking tasks of c out of the list.
LEMMA Drops ==
    ASSUME CancelRests, NEW t, Typed(t), NEW c \in Conns, NEW E \in SUBSET Events,
           NEW u, u = [t EXCEPT !.queue = Without(@, [conn : {c}, event : E])]
    PROVE  Dropped(u, t, c, E)
<1>1. PICK q \in Seq(Task) : q = t.queue
  BY Zenon DEF Typed
<1>2. PICK D : D = [conn : {c}, event : E]
  BY Zenon
<1>3. PICK r : r = Without(q, D)
  BY Zenon
<1>4. /\ r \in Seq(Task)
      /\ Waiting(r) = Waiting(q) \ D
      /\ \A d : Guarded(q, d) /\ D \cap Stops(d) = {} => Guarded(r, d)
  BY <1>3, WithoutQueue, Zenon
<1>5. u = [t EXCEPT !.queue = r]
  BY <1>1, <1>2, <1>3, Zenon
<1>6. u.queue = r /\ Typed(u)
  BY <1>4, <1>5, ZenonT(60) DEF Typed, Rec, Fields
<1>7. /\ u.conf = t.conf /\ u.stub = t.stub /\ u.status = t.status /\ u.task = t.task
      /\ u.rib = t.rib /\ u.clear_node_queue = t.clear_node_queue /\ u.xfer_failed = t.xfer_failed
      /\ u.abort = t.abort
      /\ \A d : SameDevices(u, t, d)
  BY <1>5 DEF Typed, Rec, Fields, SameDevices
<1>8. \A d, g : [conn |-> d, event |-> g] \in D <=> d = c /\ g \in E
  BY <1>2, Zenon
<1>9. \A d, g : Has(u, d, g) <=> Has(t, d, g) /\ ~(d = c /\ g \in E)
  BY <1>1, <1>4, <1>6, <1>8, Zenon DEF Has
<1>10. \A d : d # c => (Guarded(q, d) => Guarded(r, d))
  <2>1. \A d : d # c => D \cap Stops(d) = {}
    BY <1>2, Zenon DEF Stops
  <2>2. QED
    BY <1>4, <2>1, Zenon
<1>11. E \cap {"BGP_Stop", "TCP_fatal_error"} = {} /\ Guarded(q, c) => Guarded(r, c)
  <2>1. E \cap {"BGP_Stop", "TCP_fatal_error"} = {} => D \cap Stops(c) = {}
    BY <1>2, Zenon DEF Stops
  <2>2. QED
    BY <1>4, <2>1, Zenon
<1>12. QED
  BY <1>1, <1>6, <1>7, <1>9, <1>10, <1>11, Zenon DEF Dropped, Own, Apart

\* event_cancel_event_ready leaves nothing waiting for c and the rest as it was.
LEMMA Cancels ==
    ASSUME CancelRests, NEW t, Typed(t), NEW c \in Conns, NEW u, u = event_cancel_event_ready(t, c)
    PROVE  /\ Own(u, t, c) /\ SameDevices(u, t, c) /\ u.abort = t.abort
           /\ \A e \in Events : ~Has(u, c, e)
<1>1. PICK E \in SUBSET Events : E = FsmEvents \cup Tasks
  BY Zenon DEF Events
<1>2. u = [t EXCEPT !.queue = Without(@, [conn : {c}, event : E])]
  BY <1>1, Zenon DEF event_cancel_event_ready
<1>3. /\ Own(u, t, c) /\ SameDevices(u, t, c) /\ u.abort = t.abort
      /\ \A e \in Events : Has(u, c, e) <=> Has(t, c, e) /\ e \notin E
  <2>1. Dropped(u, t, c, E)
    BY <1>2, Drops, Zenon
  <2>2. QED
    BY <2>1, Zenon DEF Dropped
<1>4. QED
  BY <1>1, <1>3, Zenon DEF Events

\* u and t agree on all that is not a device or a counter.
Shares(u, t) ==
    /\ u.conf = t.conf /\ u.stub = t.stub /\ u.status = t.status /\ u.task = t.task
    /\ u.rib = t.rib /\ u.clear_node_queue = t.clear_node_queue /\ u.xfer_failed = t.xfer_failed
    /\ u.queue = t.queue

\* A write to the devices of c.
LEMMA Devices ==
    ASSUME NEW t, NEW u, NEW c, Typed(u), Shares(u, t),
           \A d \in Conns : d # c => SameDevices(u, t, d)
    PROVE  Own(u, t, c) /\ \A e : Has(u, c, e) <=> Has(t, c, e)
  BY Zenon DEF Own, Apart, Shares, Has

\* A function on the connections, changed at c.
LEMMA Update ==
    ASSUME NEW S, NEW f \in [Conns -> S], NEW c \in Conns, NEW x \in S,
           NEW g, g = [f EXCEPT ![c] = x]
    PROVE  g \in [Conns -> S] /\ g[c] = x /\ \A d \in Conns : d # c => g[d] = f[d]
  BY Zenon

\* bgp_reads_on, where its assertion holds.
LEMMA ReadsOn ==
    ASSUME NEW t, Typed(t), NEW c \in Conns, ~t.abort, ~t.check[c], t.status[c] # "Deleted",
           NEW u, u = bgp_reads_on(t, c)
    PROVE  /\ Own(u, t, c) /\ u.queue = t.queue /\ ~u.abort /\ u.io[c] = "on"
           /\ u.fd = t.fd /\ u.check = t.check /\ u.timers = t.timers /\ u.ibuf = t.ibuf
<1>1. PICK io : io = [t.io EXCEPT ![c] = "on"]
  BY Zenon
<1>2. /\ io \in [Conns -> {"off", "on", "dead"}] /\ io[c] = "on"
      /\ \A d \in Conns : d # c => io[d] = t.io[d]
  BY <1>1, Update, SMTT(60) DEF Typed
<1>3. u = [t EXCEPT !.io = io, !.abort = FALSE]
  BY <1>1, Zenon DEF bgp_reads_on
<1>4. /\ Typed(u) /\ Shares(u, t) /\ u.abort = FALSE /\ u.io = io
      /\ u.fd = t.fd /\ u.check = t.check /\ u.timers = t.timers /\ u.ibuf = t.ibuf
  BY <1>2, <1>3, ZenonT(60) DEF Typed, Rec, Fields, Shares
<1>5. Own(u, t, c)
  BY <1>2, <1>4, Devices, Zenon DEF SameDevices
<1>6. QED
  BY <1>2, <1>4, <1>5, Zenon DEF Shares

\* bgp_reads_off takes the tasks of c out, and none of its events.
LEMMA ReadsOff ==
    ASSUME CancelRests, NEW t, Typed(t), NEW c \in Conns, NEW u, u = bgp_reads_off(t, c)
    PROVE  /\ Own(u, t, c) /\ u.abort = t.abort /\ u.io[c] = "off"
           /\ u.fd = t.fd /\ u.check = t.check /\ u.timers = t.timers /\ u.ibuf = t.ibuf
           /\ \A e \in Events : Has(u, c, e) => Has(t, c, e)
           /\ \A e \in FsmEvents : Has(u, c, e) <=> Has(t, c, e)
           /\ Guarded(t.queue, c) => Guarded(u.queue, c)
<1>1. PICK E \in SUBSET Events : E = Tasks
  BY Zenon DEF Events
<1>2. PICK v : v = [t EXCEPT !.queue = Without(@, [conn : {c}, event : E])]
  BY Zenon
<1>3. /\ Own(v, t, c) /\ SameDevices(v, t, c) /\ v.abort = t.abort
      /\ \A e \in Events : Has(v, c, e) <=> Has(t, c, e) /\ e \notin E
      /\ E \cap {"BGP_Stop", "TCP_fatal_error"} = {} /\ Guarded(t.queue, c) => Guarded(v.queue, c)
  <2>1. Dropped(v, t, c, E)
    BY <1>2, Drops, Zenon
  <2>2. QED
    BY <2>1, Zenon DEF Dropped
<1>4. v.fd = t.fd /\ v.check = t.check /\ v.timers = t.timers /\ v.ibuf = t.ibuf /\ v.io = t.io
  BY <1>2, Zenon DEF Typed, Rec, Fields
<1>5. Typed(v)
  BY <1>3, Zenon DEF Own, Apart
<1>6. PICK io : io = [v.io EXCEPT ![c] = "off"]
  BY Zenon
<1>7. /\ io \in [Conns -> {"off", "on", "dead"}] /\ io[c] = "off"
      /\ \A d \in Conns : d # c => io[d] = v.io[d]
  BY <1>5, <1>6, Update, ZenonT(60) DEF Typed
<1>8. u = [v EXCEPT !.io = io]
  <2>1. PICK q : q = Without(t.queue, [conn : {c}, event : E])
    BY Zenon
  <2>2. u = [t EXCEPT !.io = io, !.queue = q]
    BY <1>1, <1>4, <1>6, <2>1, Zenon DEF bgp_reads_off
  <2>3. v = [t EXCEPT !.queue = q]
    BY <1>2, <2>1, Zenon
  <2>4. QED
    BY <2>2, <2>3, Zenon DEF Typed, Rec, Fields
<1>9. /\ Typed(u) /\ Shares(u, v) /\ u.abort = v.abort /\ u.io = io
      /\ u.fd = v.fd /\ u.check = v.check /\ u.timers = v.timers /\ u.ibuf = v.ibuf
  BY <1>5, <1>7, <1>8, ZenonT(60) DEF Typed, Rec, Fields, Shares
<1>10. Own(u, v, c) /\ \A e : Has(u, c, e) <=> Has(v, c, e)
  BY <1>7, <1>9, Devices, Zenon DEF SameDevices
<1>11. \A e \in FsmEvents : e \in Events /\ e \notin E
  BY <1>1, Zenon DEF Events, FsmEvents, Tasks
<1>12. E \cap {"BGP_Stop", "TCP_fatal_error"} = {}
  BY <1>1, Zenon DEF Tasks
<1>13. Own(u, t, c)
  BY <1>3, <1>10, OwnTrans, Zenon
<1>14. QED
  BY <1>3, <1>4, <1>7, <1>9, <1>10, <1>11, <1>12, <1>13, ZenonT(60) DEF Shares

\* The part of bgp_stop before the stub is deleted.
TornDown(u, t, c) ==
    /\ Own(u, t, c) /\ u.abort = t.abort
    /\ u.io[c] = "off" /\ u.check[c] = FALSE /\ u.timers[c] = {} /\ u.ibuf[c] = <<>>
    /\ u.fd[c] = "none"
    /\ t.status[c] # "Clearing" => \A e \in Events : ~Has(u, c, e)
    /\ t.status[c] = "Clearing" =>
         /\ \A e \in FsmEvents : Has(u, c, e) <=> Has(t, c, e)
         /\ Guarded(t.queue, c) => Guarded(u.queue, c)

\* TearDown, the part of bgp_stop that takes a connection's devices away.
LEMMA TearsDown ==
    ASSUME CancelRests, NEW t, Typed(t), NEW c \in Conns, NEW u, u = TearDown(t, c)
    PROVE  TornDown(u, t, c)
<1>1. PICK kept : kept = IF t.status[c] = "Clearing" THEN t ELSE event_cancel_event_ready(t, c)
  BY Zenon
<1>2. /\ Own(kept, t, c) /\ kept.abort = t.abort
      /\ t.status[c] # "Clearing" => \A e \in Events : ~Has(kept, c, e)
      /\ t.status[c] = "Clearing" => kept = t
  BY <1>1, Cancels, OwnSelf, Zenon
<1>3. PICK off : off = bgp_reads_off(kept, c)
  BY Zenon
<1>4. Typed(kept)
  BY <1>2, Zenon DEF Own, Apart
<1>5. /\ Own(off, kept, c) /\ off.abort = kept.abort /\ off.io[c] = "off"
      /\ \A e \in Events : Has(off, c, e) => Has(kept, c, e)
      /\ \A e \in FsmEvents : Has(off, c, e) <=> Has(kept, c, e)
      /\ Guarded(kept.queue, c) => Guarded(off.queue, c)
  BY <1>3, <1>4, ReadsOff, SMTT(60)
<1>6. Typed(off)
  BY <1>5, Zenon DEF Own, Apart
<1>7. PICK fd : fd = [off.fd EXCEPT ![c] = "none"]
  BY Zenon
<1>8. PICK sent : sent = [off.sent EXCEPT ![c] = 0]
  BY Zenon
<1>9. PICK check : check = [off.check EXCEPT ![c] = FALSE]
  BY Zenon
<1>10. PICK timers : timers = [off.timers EXCEPT ![c] = {}]
  BY Zenon
<1>11. PICK ibuf : ibuf = [off.ibuf EXCEPT ![c] = <<>>]
  BY Zenon
<1>12. u = [off EXCEPT !.check = check, !.timers = timers, !.ibuf = ibuf, !.fd = fd, !.sent = sent]
  BY <1>1, <1>3, <1>7, <1>8, <1>9, <1>10, <1>11, SMTT(60) DEF TearDown
<1>13. /\ fd \in [Conns -> {"none", "connecting", "up", "fin", "reset"}] /\ fd[c] = "none"
       /\ \A d \in Conns : d # c => fd[d] = off.fd[d]
  BY <1>6, <1>7, Update, ZenonT(60) DEF Typed
<1>14. sent \in [Conns -> 0 .. MaxPackets]
  <2>1. off.sent \in [Conns -> 0 .. MaxPackets] /\ 0 \in 0 .. MaxPackets
    BY <1>6, FsmAssumption, SMTT(60) DEF Typed
  <2>2. QED
    BY <1>8, <2>1, Update, Zenon
<1>15. /\ check \in [Conns -> BOOLEAN] /\ check[c] = FALSE
       /\ \A d \in Conns : d # c => check[d] = off.check[d]
  BY <1>6, <1>9, Update, SMTT(60) DEF Typed
<1>16. /\ timers \in [Conns -> SUBSET {"start", "connect", "hold"}] /\ timers[c] = {}
       /\ \A d \in Conns : d # c => timers[d] = off.timers[d]
  BY <1>6, <1>10, Update, ZenonT(60) DEF Typed
<1>17. /\ ibuf \in [Conns -> Seq(Packets)] /\ ibuf[c] = <<>>
       /\ \A d \in Conns : d # c => ibuf[d] = off.ibuf[d]
  <2>1. off.ibuf \in [Conns -> Seq(Packets)] /\ <<>> \in Seq(Packets)
    BY <1>6, SMTT(60) DEF Typed
  <2>2. QED
    BY <1>11, <2>1, Update, Zenon
<1>18. /\ Typed(u) /\ Shares(u, off) /\ u.abort = off.abort /\ u.io = off.io
       /\ u.fd = fd /\ u.check = check /\ u.timers = timers /\ u.ibuf = ibuf
  <2>1. /\ Rec(u) /\ Shares(u, off) /\ u.abort = off.abort /\ u.io = off.io
        /\ u.fd = fd /\ u.check = check /\ u.timers = timers /\ u.ibuf = ibuf /\ u.sent = sent
        /\ u.larger = off.larger /\ u.nht = off.nht /\ u.processed = off.processed
        /\ u.established_peers = off.established_peers
    <3>1. Rec(off)
      BY <1>6, Zenon DEF Typed
    <3>2. QED
      <4>1. Rec(u)
        BY <1>12, <3>1, Zenon DEF Rec
      <4>2. Shares(u, off)
        BY <1>12, <3>1 DEF Rec, Fields, Shares
      <4>3. /\ u.abort = off.abort /\ u.io = off.io /\ u.larger = off.larger /\ u.nht = off.nht
            /\ u.processed = off.processed /\ u.established_peers = off.established_peers
        BY <1>12, <3>1 DEF Rec, Fields
      <4>4. u.fd = fd /\ u.check = check /\ u.timers = timers /\ u.ibuf = ibuf /\ u.sent = sent
        BY <1>12, <3>1, SMTT(60) DEF Rec, Fields
      <4>5. QED
        BY <4>1, <4>2, <4>3, <4>4, Zenon
  <2>2. Typed(u)
    <3>1. /\ u.fd \in [Conns -> {"none", "connecting", "up", "fin", "reset"}]
          /\ u.sent \in [Conns -> 0 .. MaxPackets] /\ u.check \in [Conns -> BOOLEAN]
          /\ u.timers \in [Conns -> SUBSET {"start", "connect", "hold"}]
          /\ u.ibuf \in [Conns -> Seq(Packets)]
      BY <1>13, <1>14, <1>15, <1>16, <1>17, <2>1, Zenon
    <3>2. QED
      BY <1>6, <2>1, <3>1, ZenonT(60) DEF Typed, Shares
  <2>3. QED
    BY <2>1, <2>2, Zenon
<1>19. Own(u, off, c) /\ \A e : Has(u, c, e) <=> Has(off, c, e)
  <2>1. \A d \in Conns : d # c => SameDevices(u, off, d)
    BY <1>13, <1>15, <1>16, <1>17, <1>18, Zenon DEF SameDevices
  <2>2. QED
    BY <1>18, <2>1, Devices, Zenon
<1>20. Own(u, t, c)
  BY <1>2, <1>5, <1>19, OwnTrans, Zenon
<1>21. QED
  BY <1>2, <1>5, <1>13, <1>15, <1>16, <1>17, <1>18, <1>19, <1>20, SMTT(60) DEF TornDown, Shares

\* The timer bgp_timer_set arms for a status.
Armed(st) ==
    IF st = "Idle" THEN {"start"}
    ELSE IF st \in {"Connect", "Active"} THEN {"connect"}
    ELSE IF st \in {"OpenSent", "OpenConfirm", "Established"} THEN {"hold"}
    ELSE {}

\* bgp_timer_set arms the timers of the status and cancels the others.
LEMMA TimersSet ==
    ASSUME NEW t, Typed(t), NEW c \in Conns, NEW u, u = bgp_timer_set(t, c)
    PROVE  /\ Own(u, t, c) /\ u.queue = t.queue /\ u.abort = t.abort
           /\ u.fd = t.fd /\ u.check = t.check /\ u.io = t.io /\ u.ibuf = t.ibuf
           /\ u.timers[c] = Armed(t.status[c])
<1>1. PICK on \in SUBSET {"start", "connect", "hold"} : on = Armed(t.status[c])
  BY Zenon DEF Armed
<1>2. PICK timers : timers = [t.timers EXCEPT ![c] = on]
  BY Zenon
<1>3. /\ timers \in [Conns -> SUBSET {"start", "connect", "hold"}] /\ timers[c] = on
      /\ \A d \in Conns : d # c => timers[d] = t.timers[d]
  BY <1>2, Update, SMTT(60) DEF Typed
<1>4. u = [t EXCEPT !.timers = timers]
  <2>1. on = CASE t.status[c] = "Idle" -> {"start"}
                [] t.status[c] \in {"Connect", "Active"} -> {"connect"}
                [] t.status[c] \in {"OpenSent", "OpenConfirm", "Established"} -> {"hold"}
                [] OTHER -> {}
    BY <1>1, Zenon DEF Armed
  <2>2. QED
    BY <1>2, <2>1, Zenon DEF bgp_timer_set
<1>5. /\ Typed(u) /\ Shares(u, t) /\ u.abort = t.abort
      /\ u.fd = t.fd /\ u.check = t.check /\ u.io = t.io /\ u.ibuf = t.ibuf /\ u.timers = timers
  BY <1>3, <1>4, ZenonT(60) DEF Typed, Rec, Fields, Shares
<1>6. Own(u, t, c)
  BY <1>3, <1>5, Devices, Zenon DEF SameDevices
<1>7. QED
  BY <1>1, <1>3, <1>5, <1>6, Zenon DEF Shares

\* bgp_start, where its assertion holds: it adds an event that says how the
\* connect went, or arms the connect check.
LEMMA Starts ==
    ASSUME NEW t, Typed(t), NEW c \in Conns, NEW result \in Results, ~t.abort, t.io[c] = "off",
           t.status[c] # "Deleted", NEW r, r = bgp_start(t, c, result)
    PROVE  /\ r.ret = "SUCCESS"
           /\ Own(r.s, t, c) /\ ~r.s.abort /\ r.s.io[c] = "off" /\ r.s.ibuf[c] = t.ibuf[c]
           /\ \/ /\ r.s.check[c] = t.check[c]
                 /\ \E e \in {"TCP_connection_open", "TCP_connection_open_failed"} :
                        \A g : Has(r.s, c, g) <=> Has(t, c, g) \/ g = e
              \/ \A g : Has(r.s, c, g) <=> Has(t, c, g)
           /\ Guarded(t.queue, c) => Guarded(r.s.queue, c)
<1>0. "TCP_connection_open" \in FsmEvents /\ "TCP_connection_open_failed" \in FsmEvents
  BY Zenon DEF FsmEvents
<1>1. CASE ~t.nht
  <2>1. PICK u : u = BGP_EVENT_ADD(t, c, "TCP_connection_open_failed")
    BY Zenon
  <2>2. r.s = u /\ r.ret = "SUCCESS"
    BY <1>1, <2>1, Zenon DEF bgp_start, Success
  <2>3. Adds(u, t, c, "TCP_connection_open_failed")
    BY <1>0, <2>1, EventAdds, Zenon
  <2>4. QED
    BY <2>2, <2>3, Zenon DEF Adds, SameDevices
<1>2. CASE t.nht
  <2>1. [t EXCEPT !.abort = @ \/ t.io[c] # "off"] = t
    BY Zenon DEF Typed, Rec, Fields
  <2>2. PICK u : u = ConnectStarted(t, c, result)
    BY Zenon
  <2>3. r.s = u /\ r.ret = "SUCCESS"
    BY <1>2, <2>1, <2>2, Zenon DEF bgp_start, Success
  <2>4. CASE result = "connect_error"
    <3>1. u = BGP_EVENT_ADD(t, c, "TCP_connection_open_failed")
      BY <2>2, <2>4, Zenon DEF ConnectStarted
    <3>2. Adds(u, t, c, "TCP_connection_open_failed")
      BY <1>0, <3>1, EventAdds, Zenon
    <3>3. QED
      BY <2>3, <3>2, Zenon DEF Adds, SameDevices
  <2>5. CASE result = "connect_success"
    <3>1. PICK v : v = BGP_EVENT_ADD(t, c, "TCP_connection_open")
      BY Zenon
    <3>2. Adds(v, t, c, "TCP_connection_open") /\ Typed(v)
      BY <1>0, <3>1, EventAdds, SMTT(60) DEF Adds, Own, Apart
    <3>3. PICK fd : fd = [v.fd EXCEPT ![c] = "up"]
      BY Zenon
    <3>4. /\ fd \in [Conns -> {"none", "connecting", "up", "fin", "reset"}]
          /\ \A d \in Conns : d # c => fd[d] = v.fd[d]
      BY <3>2, <3>3, Update, Zenon DEF Typed
    <3>5. u = [v EXCEPT !.fd = fd]
      BY <2>2, <2>5, <3>1, <3>3, Zenon DEF ConnectStarted
    <3>6. /\ Typed(u) /\ Shares(u, v) /\ u.abort = v.abort /\ u.fd = fd
          /\ u.check = v.check /\ u.timers = v.timers /\ u.io = v.io /\ u.ibuf = v.ibuf
      BY <3>2, <3>4, <3>5, ZenonT(60) DEF Typed, Rec, Fields, Shares
    <3>7. Own(u, v, c) /\ \A e : Has(u, c, e) <=> Has(v, c, e)
      BY <3>4, <3>6, Devices, Zenon DEF SameDevices
    <3>8. Own(u, t, c)
      BY <3>2, <3>7, OwnTrans, Zenon DEF Adds
    <3>9. QED
      BY <2>3, <3>2, <3>6, <3>7, <3>8, Zenon DEF Adds, SameDevices, Shares
  <2>6. CASE result = "connect_in_progress"
    <3>1. PICK fd : fd = [t.fd EXCEPT ![c] = "connecting"]
      BY Zenon
    <3>2. PICK check : check = [t.check EXCEPT ![c] = TRUE]
      BY Zenon
    <3>3. /\ fd \in [Conns -> {"none", "connecting", "up", "fin", "reset"}]
          /\ \A d \in Conns : d # c => fd[d] = t.fd[d]
      BY <3>1, Update, Zenon DEF Typed
    <3>4. check \in [Conns -> BOOLEAN] /\ \A d \in Conns : d # c => check[d] = t.check[d]
      BY <3>2, Update, Zenon DEF Typed
    <3>5. u = [t EXCEPT !.fd = fd, !.check = check]
      BY <2>2, <2>6, <3>1, <3>2, Zenon DEF ConnectStarted
    <3>6. /\ Typed(u) /\ Shares(u, t) /\ u.abort = t.abort /\ u.fd = fd
          /\ u.check = check /\ u.timers = t.timers /\ u.io = t.io /\ u.ibuf = t.ibuf
      BY <3>3, <3>4, <3>5, ZenonT(60) DEF Typed, Rec, Fields, Shares
    <3>7. Own(u, t, c) /\ \A e : Has(u, c, e) <=> Has(t, c, e)
      BY <3>3, <3>4, <3>6, Devices, ZenonT(60) DEF SameDevices
    <3>8. QED
      BY <2>3, <3>6, <3>7, Zenon DEF Shares
  <2>7. QED
    BY <2>4, <2>5, <2>6, Zenon DEF Results
<1>3. QED
  BY <1>1, <1>2, Zenon

\* u is t with the status of c changed by bgp_fsm_change_status.
ChangedTo(u, t, c, st) ==
    /\ Apart(u, t, c) /\ SameDevices(u, t, c) /\ u.abort = t.abort
    /\ u.status = [t.status EXCEPT ![c] = st]
    /\ u.clear_node_queue <=> \/ t.clear_node_queue
                              \/ st \in {"Clearing", "Deleted"} /\ c = t.conf /\ t.rib
    /\ \A e : Has(u, c, e) <=>
           \/ Has(t, c, e)
           \/ /\ e = "Clearing_Completed" /\ st = "Clearing"
              /\ ~(c = t.conf /\ u.clear_node_queue)
    /\ st # "Clearing" /\ Guarded(t.queue, c) => Guarded(u.queue, c)

\* What bgp_fsm_change_status does.
LEMMA Changes ==
    ASSUME NEW t, Typed(t), NEW c \in Conns, t.status[c] # "Deleted", NEW st \in Statuses \ {t.status[c]},
           NEW u, u = bgp_fsm_change_status(t, c, st)
    PROVE  ChangedTo(u, t, c, st)
<1>1. PICK n : n = IF st = "Established" THEN t.established_peers + 1
                   ELSE IF t.status[c] = "Established" THEN t.established_peers - 1
                   ELSE t.established_peers
  BY Zenon
<1>2. PICK cnq \in BOOLEAN :
          cnq <=> t.clear_node_queue \/ (st \in {"Clearing", "Deleted"} /\ c = t.conf /\ t.rib)
  BY Zenon
<1>3. PICK cleared : cleared = [t EXCEPT !.clear_node_queue = cnq]
  BY Zenon
<1>4. /\ Typed(cleared) /\ cleared.abort = t.abort /\ cleared.status = t.status
      /\ cleared.clear_node_queue = cnq /\ cleared.queue = t.queue
      /\ cleared.conf = t.conf /\ cleared.stub = t.stub /\ cleared.task = t.task
      /\ cleared.rib = t.rib /\ cleared.xfer_failed = t.xfer_failed
      /\ \A d : SameDevices(cleared, t, d)
  BY <1>3, ZenonT(60) DEF Typed, Rec, Fields, SameDevices
<1>5. PICK told : told = IF st = "Clearing" /\ ~(c = t.conf /\ cnq)
                         THEN BGP_EVENT_ADD(cleared, c, "Clearing_Completed") ELSE cleared
  BY Zenon
<1>6. /\ Own(told, cleared, c) /\ SameDevices(told, cleared, c) /\ told.abort = cleared.abort
      /\ \A e : Has(told, c, e) <=>
             \/ Has(cleared, c, e)
             \/ e = "Clearing_Completed" /\ st = "Clearing" /\ ~(c = t.conf /\ cnq)
      /\ st # "Clearing" => told = cleared
  <2>1. CASE st = "Clearing" /\ ~(c = t.conf /\ cnq)
    <3>1. "Clearing_Completed" \in FsmEvents
      BY Zenon DEF FsmEvents
    <3>2. Adds(told, cleared, c, "Clearing_Completed")
      BY <1>4, <1>5, <2>1, <3>1, EventAdds, Zenon
    <3>3. QED
      BY <2>1, <3>2, Zenon DEF Adds
  <2>2. CASE ~(st = "Clearing" /\ ~(c = t.conf /\ cnq))
    <3>1. told = cleared
      BY <1>5, <2>2, Zenon
    <3>2. QED
      BY <1>4, <2>2, <3>1, OwnSelf, Zenon DEF SameDevices
  <2>3. QED
    BY <2>1, <2>2, Zenon
<1>7. Typed(told) /\ told.status = t.status
  BY <1>4, <1>6, Zenon DEF Own, Apart
<1>8. PICK status : status = [t.status EXCEPT ![c] = st]
  BY Zenon
<1>9. status \in [Conns -> Statuses]
  BY <1>8, Zenon DEF Typed
<1>10. Ups(n, status)
  <2>1. t.status \in [Conns -> Statuses] /\ Ups(t.established_peers, t.status)
    BY DEF Typed
  <2>2. Ups(IF st = "Established" THEN t.established_peers + 1
            ELSE IF t.status[c] = "Established" THEN t.established_peers - 1
            ELSE t.established_peers, status)
    BY <1>8, <2>1, UpsChange
  <2>3. QED
    BY <1>1, <2>2
<1>11. u = [told EXCEPT !.established_peers = n, !.status = status]
  <2>1. PICK counted : counted = [t EXCEPT !.established_peers = IF st = "Established" THEN @ + 1
                                          ELSE IF t.status[c] = "Established" THEN @ - 1 ELSE @]
    BY Zenon
  <2>2. PICK x : x = [cleared EXCEPT !.established_peers = n]
    BY Zenon
  <2>3. counted = [t EXCEPT !.established_peers = n]
    BY <1>1, <2>1, Zenon
  <2>4. /\ counted.conf = t.conf /\ counted.rib = t.rib /\ counted.status = t.status
        /\ counted.clear_node_queue = t.clear_node_queue
    BY <2>3, Zenon DEF Typed, Rec, Fields
  <2>5. x = [counted EXCEPT !.clear_node_queue = cnq]
    BY <1>3, <2>2, <2>3, Zenon DEF Typed, Rec, Fields
  <2>6. x = IF st \in {"Clearing", "Deleted"} THEN bgp_clear_route_all(counted, c) ELSE counted
    <3>1. CASE st \in {"Clearing", "Deleted"}
      <4>1. cnq = (counted.clear_node_queue \/ (c = counted.conf /\ counted.rib))
        BY <1>2, <2>4, <3>1, Zenon DEF Typed
      <4>2. QED
        BY <2>4, <2>5, <3>1, <4>1, Zenon DEF bgp_clear_route_all
    <3>2. CASE st \notin {"Clearing", "Deleted"}
      <4>1. cnq = t.clear_node_queue
        BY <1>2, <3>2, Zenon DEF Typed
      <4>2. x = counted
        BY <2>3, <2>5, <4>1, Zenon DEF Typed, Rec, Fields
      <4>3. QED
        BY <3>2, <4>2, Zenon
    <3>3. QED
      BY <3>1, <3>2, Zenon
  <2>7. x.clear_node_queue = cnq /\ x.status = t.status /\ x.queue = cleared.queue
    BY <1>4, <2>2, Zenon DEF Typed, Rec, Fields
  <2>8. PICK y : y = IF st = "Clearing" /\ ~(c = t.conf /\ cnq)
                     THEN BGP_EVENT_ADD(x, c, "Clearing_Completed") ELSE x
    BY Zenon
  <2>9. u = [y EXCEPT !.status[c] = st]
    <3>1. y = IF st = "Clearing" /\ ~(c = t.conf /\ x.clear_node_queue)
              THEN BGP_EVENT_ADD(x, c, "Clearing_Completed") ELSE x
      BY <2>7, <2>8, Zenon
    <3>2. QED
      BY <2>1, <2>6, <3>1, Zenon DEF bgp_fsm_change_status
  <2>10. y = [told EXCEPT !.established_peers = n]
    <3>1. CASE st = "Clearing" /\ ~(c = t.conf /\ cnq)
      <4>1. PICK q : q = Append(cleared.queue, [conn |-> c, event |-> "Clearing_Completed"])
        BY Zenon
      <4>2. y = [x EXCEPT !.queue = q]
        BY <2>7, <2>8, <3>1, <4>1, Zenon DEF BGP_EVENT_ADD
      <4>3. told = [cleared EXCEPT !.queue = q]
        BY <1>4, <1>5, <3>1, <4>1, Zenon DEF BGP_EVENT_ADD
      <4>4. QED
        BY <1>4, <2>2, <4>2, <4>3, Zenon DEF Typed, Rec, Fields
    <3>2. CASE ~(st = "Clearing" /\ ~(c = t.conf /\ cnq))
      BY <1>5, <2>2, <2>8, <3>2, Zenon
    <3>3. QED
      BY <3>1, <3>2, Zenon
  <2>11. y.status = t.status
    BY <1>7, <2>10, Zenon DEF Typed, Rec, Fields
  <2>12. QED
    BY <1>7, <1>8, <2>9, <2>10, <2>11, Zenon DEF Typed, Rec, Fields
<1>12. /\ Typed(u) /\ u.queue = told.queue /\ u.status = status /\ u.abort = told.abort
       /\ u.conf = told.conf /\ u.stub = told.stub /\ u.task = told.task /\ u.rib = told.rib
       /\ u.clear_node_queue = told.clear_node_queue /\ u.xfer_failed = told.xfer_failed
       /\ \A d : SameDevices(u, told, d)
  BY <1>7, <1>9, <1>10, <1>11, ZenonT(60) DEF Typed, Rec, Fields, SameDevices
<1>13. \A d, e : (Has(u, d, e) <=> Has(told, d, e)) /\ (Has(cleared, d, e) <=> Has(t, d, e))
  BY <1>4, <1>12, Zenon DEF Has
<1>14. Apart(u, t, c)
  BY <1>4, <1>6, <1>12, <1>13, SMTT(60) DEF Own, Apart, SameDevices
<1>15. u.clear_node_queue = cnq
  BY <1>4, <1>6, <1>12, Zenon DEF Own
<1>16. SameDevices(u, t, c) /\ u.abort = t.abort
  BY <1>4, <1>6, <1>12, SMTT(60) DEF SameDevices
<1>17. QED
  BY <1>2, <1>4, <1>6, <1>8, <1>12, <1>13, <1>14, <1>15, <1>16, ZenonT(60) DEF ChangedTo

\* u is t after connection c has been moved to a status.
MovedTo(u, t, c, next) ==
    /\ Apart(u, t, c)
    /\ u.fd[c] = t.fd[c] /\ u.check[c] = t.check[c] /\ u.io[c] = t.io[c] /\ u.ibuf[c] = t.ibuf[c]
    /\ u.abort = t.abort
    /\ u.timers[c] = Armed(next)
    /\ u.status = [t.status EXCEPT ![c] = next]
    /\ u.clear_node_queue <=> \/ t.clear_node_queue
                              \/ next = "Clearing" /\ t.status[c] # next /\ c = t.conf /\ t.rib
    /\ \A e : Has(u, c, e) <=>
           \/ Has(t, c, e)
           \/ /\ e = "Clearing_Completed" /\ next = "Clearing" /\ t.status[c] # next
              /\ ~(c = t.conf /\ u.clear_node_queue)
    /\ next # "Clearing" /\ Guarded(t.queue, c) => Guarded(u.queue, c)

\* The end of bgp_event_update after a call that succeeded.
LEMMA Moves ==
    ASSUME NEW t, Typed(t), NEW c \in Conns, t.status[c] # "Deleted",
           NEW next \in Statuses \ {"Deleted"}, NEW u, u = Moved(t, c, next)
    PROVE  MovedTo(u, t, c, next)
<1>1. PICK v : v = IF t.status[c] = next THEN t ELSE bgp_fsm_change_status(t, c, next)
  BY Zenon
<1>2. u = bgp_timer_set(v, c)
  BY <1>1, Zenon DEF Moved
<1>3. /\ Apart(v, t, c) /\ SameDevices(v, t, c) /\ v.abort = t.abort
      /\ v.status = [t.status EXCEPT ![c] = next]
      /\ v.clear_node_queue <=> \/ t.clear_node_queue
                                \/ next = "Clearing" /\ t.status[c] # next /\ c = t.conf /\ t.rib
      /\ \A e : Has(v, c, e) <=>
             \/ Has(t, c, e)
             \/ /\ e = "Clearing_Completed" /\ next = "Clearing" /\ t.status[c] # next
                /\ ~(c = t.conf /\ v.clear_node_queue)
      /\ next # "Clearing" /\ Guarded(t.queue, c) => Guarded(v.queue, c)
  <2>1. CASE t.status[c] = next
    <3>1. v = t
      BY <1>1, <2>1, Zenon
    <3>2. v.status = [t.status EXCEPT ![c] = next]
      BY <2>1, <3>1, Zenon DEF Typed
    <3>3. Apart(v, t, c) /\ SameDevices(v, t, c)
      BY <3>1, OwnSelf, Zenon DEF Own, SameDevices
    <3>4. QED
      BY <2>1, <3>1, <3>2, <3>3, Zenon
  <2>2. CASE t.status[c] # next
    <3>1. v = bgp_fsm_change_status(t, c, next) /\ next \in Statuses \ {t.status[c]}
      BY <1>1, <2>2
    <3>2. /\ Apart(v, t, c) /\ SameDevices(v, t, c) /\ v.abort = t.abort
          /\ v.status = [t.status EXCEPT ![c] = next]
          /\ v.clear_node_queue <=> \/ t.clear_node_queue
                                    \/ next \in {"Clearing", "Deleted"} /\ c = t.conf /\ t.rib
          /\ \A e : Has(v, c, e) <=>
                 \/ Has(t, c, e)
                 \/ /\ e = "Clearing_Completed" /\ next = "Clearing"
                    /\ ~(c = t.conf /\ v.clear_node_queue)
          /\ next # "Clearing" /\ Guarded(t.queue, c) => Guarded(v.queue, c)
      <4>1. ChangedTo(v, t, c, next)
        BY <3>1, Changes, SMTT(60)
      <4>2. QED
        BY <4>1, Zenon DEF ChangedTo
    <3>3. QED
      BY <2>2, <3>2, Zenon
  <2>3. QED
    BY <2>1, <2>2, Zenon
<1>4. Typed(v) /\ v.status[c] = next
  BY <1>3, Zenon DEF Apart, Typed
<1>5. /\ Own(u, v, c) /\ u.queue = v.queue /\ u.abort = v.abort
      /\ u.fd = v.fd /\ u.check = v.check /\ u.io = v.io /\ u.ibuf = v.ibuf
      /\ u.timers[c] = Armed(next)
  BY <1>2, <1>4, TimersSet, SMTT(60)
<1>6. Apart(u, t, c)
  BY <1>3, <1>5, SMTT(60) DEF Own, Apart, SameDevices
<1>7. \A e : Has(u, c, e) <=> Has(v, c, e)
  BY <1>5, Zenon DEF Has
<1>8. u.clear_node_queue = v.clear_node_queue /\ u.status = v.status
  BY <1>5, Zenon DEF Own
<1>9. QED
  BY <1>3, <1>5, <1>6, <1>7, <1>8, ZenonT(60) DEF MovedTo, SameDevices

\* u is t after the stub, which owned c, has been deleted.
Gone(u, t, c) ==
    /\ Typed(u)
    /\ u.conf = t.conf /\ ~u.stub /\ u.task = t.task /\ u.rib = t.rib
    /\ u.clear_node_queue = t.clear_node_queue /\ u.xfer_failed = t.xfer_failed
    /\ u.status = [t.status EXCEPT ![c] = "Deleted"]
    /\ u.abort = t.abort
    /\ u.check[c] = FALSE /\ u.io[c] = "off" /\ u.timers[c] = {} /\ u.ibuf[c] = <<>>
    /\ \A e \in Events : ~Has(u, c, e)
    /\ \A d \in Conns : d # c =>
        /\ SameDevices(u, t, d)
        /\ \A e : Has(u, d, e) <=> Has(t, d, e)
        /\ Guarded(t.queue, d) => Guarded(u.queue, d)

\* peer_delete of a stub that exists leaves nothing of it behind.
LEMMA Deletes ==
    ASSUME CancelRests, NEW t, Typed(t), NEW c \in Conns, t.status[c] # "Deleted", c # t.conf,
           NEW u, u = peer_delete(t, c)
    PROVE  Gone(u, t, c)
<1>1. [t EXCEPT !.abort = @ \/ t.status[c] = "Deleted"] = t
  BY Zenon DEF Typed, Rec, Fields
<1>2. PICK v : v = event_cancel_event_ready(t, c)
  BY Zenon
<1>3. Own(v, t, c) /\ v.abort = t.abort /\ \A e \in Events : ~Has(v, c, e)
  BY <1>2, Cancels, Zenon
<1>4. Typed(v)
  BY <1>3, Zenon DEF Own, Apart
<1>5. PICK w : w = TearDown(v, c)
  BY Zenon
<1>6. TornDown(w, v, c)
  BY <1>4, <1>5, TearsDown, Zenon
<1>7. /\ Own(w, t, c) /\ w.abort = t.abort
      /\ w.io[c] = "off" /\ w.check[c] = FALSE /\ w.timers[c] = {} /\ w.ibuf[c] = <<>>
  BY <1>3, <1>6, OwnTrans, Zenon DEF TornDown
<1>8. \A e \in Events : ~Has(w, c, e)
  <2>1. CASE v.status[c] # "Clearing"
    BY <1>6, <2>1, Zenon DEF TornDown
  <2>2. CASE v.status[c] = "Clearing"
    <3>1. PICK off : off = bgp_reads_off(v, c)
      BY Zenon
    <3>2. \A e \in Events : Has(off, c, e) => Has(v, c, e)
      BY <1>4, <3>1, ReadsOff, Zenon
    <3>3. w = [off EXCEPT !.check[c] = FALSE, !.timers[c] = {}, !.ibuf[c] = <<>>,
                          !.fd[c] = "none", !.sent[c] = 0]
      BY <1>5, <2>2, <3>1, Zenon DEF TearDown
    <3>4. Typed(off)
      BY <1>4, <3>1, ReadsOff, Zenon DEF Own, Apart
    <3>5. w.queue = off.queue
      BY <3>3, <3>4, Zenon DEF Typed, Rec, Fields
    <3>6. QED
      BY <1>3, <3>2, <3>5, Zenon DEF Has
  <2>3. QED
    BY <2>1, <2>2, Zenon
<1>9. PICK x : x = bgp_fsm_change_status(w, c, "Deleted")
  BY Zenon
<1>10. /\ Typed(w) /\ w.status = t.status /\ w.conf = t.conf /\ w.status[c] # "Deleted"
       /\ "Deleted" \in Statuses /\ c # w.conf
  BY <1>7, Zenon DEF Own, Apart, Statuses
<1>11. /\ Apart(x, w, c) /\ SameDevices(x, w, c) /\ x.abort = w.abort
       /\ x.status = [w.status EXCEPT ![c] = "Deleted"]
       /\ x.clear_node_queue <=> w.clear_node_queue
       /\ \A e : Has(x, c, e) <=> Has(w, c, e)
  <2>1. ChangedTo(x, w, c, "Deleted")
    BY <1>9, <1>10, Changes, Zenon
  <2>2. QED
    BY <1>10, <2>1, Zenon DEF ChangedTo
<1>12. PICK y : y = [x EXCEPT !.stub = FALSE]
  BY Zenon
<1>13. Typed(x)
  BY <1>11, Zenon DEF Apart
<1>14. /\ Typed(y) /\ y.conf = x.conf /\ y.stub = FALSE /\ y.task = x.task /\ y.rib = x.rib
       /\ y.clear_node_queue = x.clear_node_queue /\ y.xfer_failed = x.xfer_failed
       /\ y.status = x.status /\ y.abort = x.abort /\ y.queue = x.queue
       /\ \A d : SameDevices(y, x, d)
  BY <1>12, <1>13, ZenonT(60) DEF Typed, Rec, Fields, SameDevices
<1>15. u = bgp_timer_set(y, c)
  BY <1>1, <1>2, <1>5, <1>9, <1>12, Zenon DEF peer_delete
<1>16. y.status[c] = "Deleted"
  BY <1>10, <1>11, <1>14, SMTT(60) DEF Typed
<1>17. /\ Own(u, y, c) /\ u.queue = y.queue /\ u.abort = y.abort
       /\ u.fd = y.fd /\ u.check = y.check /\ u.io = y.io /\ u.ibuf = y.ibuf
       /\ u.timers[c] = {}
  <2>1. /\ Own(u, y, c) /\ u.queue = y.queue /\ u.abort = y.abort
        /\ u.fd = y.fd /\ u.check = y.check /\ u.io = y.io /\ u.ibuf = y.ibuf
        /\ u.timers[c] = Armed(y.status[c])
    BY <1>14, <1>15, TimersSet, SMTT(60)
  <2>2. QED
    BY <1>16, <2>1, Zenon DEF Armed
<1>18. \A d, e : Has(u, d, e) <=> Has(x, d, e)
  BY <1>14, <1>17, Zenon DEF Has
<1>19. /\ u.conf = t.conf /\ ~u.stub /\ u.task = t.task /\ u.rib = t.rib
       /\ u.xfer_failed = t.xfer_failed /\ u.status = [t.status EXCEPT ![c] = "Deleted"]
       /\ u.abort = t.abort /\ Typed(u)
  BY <1>7, <1>11, <1>14, <1>17, SMTT(60) DEF Own, Apart
<1>20. u.clear_node_queue = t.clear_node_queue
  <2>1. x.clear_node_queue = w.clear_node_queue
    BY <1>10, <1>11, <1>13, Zenon DEF Typed
  <2>2. QED
    BY <1>7, <1>14, <1>17, <2>1, Zenon DEF Own
<1>21. u.check[c] = FALSE /\ u.io[c] = "off" /\ u.ibuf[c] = <<>>
  BY <1>7, <1>11, <1>14, <1>17 DEF SameDevices
<1>22. \A e \in Events : ~Has(u, c, e)
  BY <1>8, <1>11, <1>18, Zenon
<1>23. \A d \in Conns : d # c =>
          /\ SameDevices(u, t, d)
          /\ \A e : Has(u, d, e) <=> Has(t, d, e)
          /\ Guarded(t.queue, d) => Guarded(u.queue, d)
  <2>1. ASSUME NEW d \in Conns, d # c
        PROVE  /\ SameDevices(u, t, d)
               /\ \A e : Has(u, d, e) <=> Has(t, d, e)
               /\ Guarded(t.queue, d) => Guarded(u.queue, d)
    <3>1. SameDevices(u, y, d) /\ SameDevices(y, x, d) /\ SameDevices(x, w, d) /\ SameDevices(w, t, d)
      BY <1>7, <1>11, <1>14, <1>17, <2>1, Zenon DEF Own, Apart
    <3>2. \A e : (Has(x, d, e) <=> Has(w, d, e)) /\ (Has(w, d, e) <=> Has(t, d, e))
      BY <1>7, <1>11, <2>1, Zenon DEF Own, Apart
    <3>3. (Guarded(t.queue, d) => Guarded(w.queue, d)) /\ (Guarded(w.queue, d) => Guarded(x.queue, d))
      BY <1>7, <1>11, <2>1, Zenon DEF Own, Apart
    <3>4. QED
      BY <1>14, <1>17, <1>18, <3>1, <3>2, <3>3, SMTT(60) DEF SameDevices
  <2>2. QED
    BY <2>1, Zenon
<1>24. QED
  BY <1>17, <1>19, <1>20, <1>21, <1>22, <1>23, Zenon DEF Gone

\* bgp_stop of the stub deletes it and says so to its caller.
LEMMA StopDeletes ==
    ASSUME CancelRests, NEW t, Typed(t), NEW c \in Conns, t.status[c] # "Deleted", IsStub(t, c),
           NEW r, r = bgp_stop(t, c)
    PROVE  r.ret = "FAILURE_AND_DELETE" /\ Gone(r.s, t, c)
<1>1. PICK v : v = TearDown(t, c)
  BY Zenon
<1>2. TornDown(v, t, c)
  BY <1>1, TearsDown, Zenon
<1>3. Own(v, t, c) /\ v.abort = t.abort /\ Typed(v)
  BY <1>2, Zenon DEF TornDown, Own, Apart
<1>4. PICK u : u = peer_delete(v, c)
  BY Zenon
<1>5. r.s = u /\ r.ret = "FAILURE_AND_DELETE"
  BY <1>1, <1>4, Zenon DEF bgp_stop
<1>6. Gone(u, v, c)
  BY <1>3, <1>4, Deletes, Zenon DEF IsStub, Own, Apart
<1>7. Gone(u, t, c)
  BY <1>3, <1>6, SMTT(60) DEF Gone, Own, Apart, SameDevices
<1>8. QED
  BY <1>5, <1>7, Zenon

\* bgp_stop of the configured peer's connection takes its devices away and keeps it.
LEMMA StopKeeps ==
    ASSUME CancelRests, NEW t, Typed(t), NEW c \in Conns, ~IsStub(t, c), NEW r, r = bgp_stop(t, c)
    PROVE  r.ret = "SUCCESS" /\ TornDown(r.s, t, c) /\ r = [s |-> r.s, ret |-> r.ret]
<1>1. PICK v : v = TearDown(t, c)
  BY Zenon
<1>2. TornDown(v, t, c)
  BY <1>1, TearsDown, Zenon
<1>3. r = [s |-> v, ret |-> "SUCCESS"]
  BY <1>1, Zenon DEF bgp_stop
<1>4. QED
  BY <1>2, <1>3, SMTT(60)

-----------------------------------------------------------------------------
(* The inductive invariant.                                                *)

Open == {"OpenSent", "OpenConfirm", "Established"}

\* An event or task g of d is waiting, or is event e of c, which is being handled.
Pends(t, c, e, d, g) == Has(t, d, g) \/ (d = c /\ g = e)

\* What holds of each connection d while event e of c is being handled.
Local(t, c, e, d) ==
    /\ t.io[d] # "off" => t.status[d] \in Open
    /\ t.ibuf[d] # <<>> => t.status[d] \in Open
    /\ t.check[d] => t.status[d] = "Connect"
    /\ "connect" \in t.timers[d] => t.status[d] \in {"Connect", "Active"}
    /\ t.status[d] = "Idle" => "start" \in t.timers[d] \/ (d = c /\ e = "BGP_Start")
    /\ t.status[d] \in Open => "hold" \in t.timers[d] \/ (d = c /\ e = "Hold_Timer_expired")
    /\ t.status[d] \in {"Connect", "Active"} =>
         "connect" \in t.timers[d] \/ \E g \in FsmEvents : Pends(t, c, e, d, g)
    /\ t.status[d] = "Clearing" =>
         \/ Pends(t, c, e, d, "Clearing_Completed")
         \/ d = t.conf /\ t.clear_node_queue
         \/ d # t.conf /\ Pends(t, c, e, d, "BGP_Stop")
    /\ Pends(t, c, e, d, "TCP_connection_open") =>
         /\ ~t.check[d]
         /\ \/ t.status[d] \in {"Connect", "Clearing"} \cup Open
            \/ /\ t.status[d] = "Active" /\ d # t.conf
               /\ ~Pends(t, c, e, d, "ConnectRetry_timer_expired")
    /\ t.status[d] = "Deleted" => t.timers[d] = {} /\ \A g \in Events : ~Has(t, d, g)

\* The configured peer's connection exists, the other one just while the stub does.
Owners(t) ==
    /\ t.status[t.conf] # "Deleted"
    /\ t.stub <=> t.status[Other(t.conf)] # "Deleted"

\* An event that stops d is waiting or being handled.
Dooms(t, c, e, d) == Doomed(t, d) \/ (d = c /\ e \in {"BGP_Stop", "TCP_fatal_error"})

\* A second connection that gets to OpenConfirm beside a session is told to stop.
Pair(t, c, e) ==
    /\ t.stub
    /\ t.status[t.conf] \in {"Established", "Clearing"}
    /\ t.status[Other(t.conf)] \in {"OpenConfirm", "Established"}
    => Dooms(t, c, e, Other(t.conf))

\* What holds of the routes and of Clearing_Completed until an exchange fails.
Routes(t, c, e) ==
    /\ \A d \in Conns : t.status[d] # "Clearing" =>
         Guarded(t.queue, d) \/ (d = c /\ e \in {"BGP_Stop", "TCP_fatal_error"})
    /\ t.clear_node_queue =>
         \/ t.status[t.conf] = "Clearing" /\ ~Pends(t, c, e, t.conf, "Clearing_Completed")
         \/ t.status[t.conf] = "Established" /\ Dooms(t, c, e, t.conf)
    /\ t.rib => \/ t.status[t.conf] = "Established"
                \/ t.status[t.conf] = "Clearing" /\ t.clear_node_queue
    /\ c \in Conns /\ e = "Clearing_Completed" => t.status[c] = "Clearing"

\* The invariant without Pair.
Sound(t, c, e) ==
    /\ Typed(t)
    /\ ~t.abort
    /\ Owners(t)
    /\ \A d \in Conns : Local(t, c, e, d)
    /\ t.xfer_failed \/ Routes(t, c, e)

\* The invariant while event e of c is being handled.
During(t, c, e) == Sound(t, c, e) /\ Pair(t, c, e)

\* Between two tasks nothing is being handled.
Inv(t) == During(t, 0, "none")

\* There are two connections, each the other's other.
LEMMA Two ==
    ASSUME NEW c \in Conns
    PROVE  /\ Other(c) \in Conns /\ Other(c) # c /\ Other(Other(c)) = c
           /\ \A d \in Conns : d = c \/ d = Other(c)
           /\ c # 0
  BY DEF Other, Conns

\* The events of the FSM and the tasks of the packet code are told apart.
LEMMA Named ==
    /\ FsmEvents \subseteq Events /\ Tasks \subseteq Events
    /\ "none" \notin Events
    /\ {"BGP_Stop", "TCP_fatal_error", "Clearing_Completed", "TCP_connection_open",
        "ConnectRetry_timer_expired", "TCP_connection_open_failed", "BGP_Start",
        "Hold_Timer_expired"} \subseteq FsmEvents
    /\ Tasks \cap FsmEvents = {}
  BY Zenon DEF FsmEvents, Tasks, Events

\* When nothing is being handled, what pends is what waits.
LEMMA Waits ==
    ASSUME NEW t, NEW d \in Conns
    PROVE  /\ \A g : Pends(t, 0, "none", d, g) <=> Has(t, d, g)
           /\ Dooms(t, 0, "none", d) <=> Doomed(t, d)
           /\ d # 0
  BY SMTT(60) DEF Pends, Dooms, Conns

\* A connection that a step leaves alone stays as it was.
LEMMA LocalKept ==
    ASSUME NEW t, NEW u, NEW c, NEW e, NEW d \in Conns, d # c,
           Local(t, c, e, d), SameDevices(u, t, d),
           u.status[d] = t.status[d], u.conf = t.conf,
           d = t.conf /\ t.clear_node_queue => u.clear_node_queue,
           \A g : Has(u, d, g) <=> Has(t, d, g)
    PROVE  Local(u, 0, "none", d)
<1>1. \A g : Pends(u, 0, "none", d, g) <=> Pends(t, c, e, d, g)
  BY SMTT(60) DEF Pends, Conns
<1>2. QED
  BY <1>1, ZenonT(60) DEF Local, SameDevices

\* What must hold of c for a move to status next to leave it in order.
Ready(u, c, next) ==
    /\ u.io[c] # "off" => next \in Open
    /\ u.ibuf[c] # <<>> => next \in Open
    /\ u.check[c] => next = "Connect"
    /\ Has(u, c, "TCP_connection_open") =>
         /\ ~u.check[c]
         /\ \/ next \in {"Connect", "Clearing"} \cup Open
            \/ next = "Active" /\ c # u.conf /\ ~Has(u, c, "ConnectRetry_timer_expired")
    /\ next = "Clearing" =>
         \/ u.status[c] # "Clearing" /\ c = u.conf /\ ~Has(u, c, "Clearing_Completed")
         \/ /\ u.status[c] = "Clearing"
            /\ \/ Has(u, c, "Clearing_Completed")
               \/ c = u.conf /\ u.clear_node_queue
               \/ c # u.conf /\ Has(u, c, "BGP_Stop")

\* The same of the routes.
ReadyRoutes(u, c, next) ==
    /\ next # "Clearing" => Guarded(u.queue, c)
    /\ c = u.conf /\ u.clear_node_queue =>
         \/ next = "Clearing" /\ ~Has(u, c, "Clearing_Completed")
         \/ next = "Established" /\ Doomed(u, c)
    /\ c = u.conf /\ u.rib =>
         \/ next = "Established"
         \/ next = "Clearing" /\ (u.clear_node_queue \/ u.status[c] # "Clearing")

\* A step of c's own, and then a move.
LEMMA SettledLocal ==
    ASSUME NEW u, Typed(u), NEW c \in Conns, u.status[c] # "Deleted",
           NEW next \in Statuses \ {"Deleted"}, Ready(u, c, next), NEW v, MovedTo(v, u, c, next)
    PROVE  Local(v, 0, "none", c)
<1>1. /\ v.status[c] = next /\ v.conf = u.conf /\ v.timers[c] = Armed(next)
      /\ v.io[c] = u.io[c] /\ v.ibuf[c] = u.ibuf[c] /\ v.check[c] = u.check[c]
  BY ZenonT(60) DEF MovedTo, Apart, Typed
<1>2. \A g : Pends(v, 0, "none", c, g) <=> Has(v, c, g)
  BY Waits, Zenon
<1>3. /\ Has(v, c, "TCP_connection_open") <=> Has(u, c, "TCP_connection_open")
      /\ Has(v, c, "ConnectRetry_timer_expired") <=> Has(u, c, "ConnectRetry_timer_expired")
      /\ Has(u, c, "Clearing_Completed") => Has(v, c, "Clearing_Completed")
      /\ Has(u, c, "BGP_Stop") => Has(v, c, "BGP_Stop")
      /\ u.clear_node_queue => v.clear_node_queue
  BY SMTT(60) DEF MovedTo
<1>4. next = "Clearing" =>
         \/ Has(v, c, "Clearing_Completed")
         \/ c = v.conf /\ v.clear_node_queue
         \/ c # v.conf /\ Has(v, c, "BGP_Stop")
  <2>1. CASE u.status[c] # "Clearing"
    BY <1>1, <2>1, Zenon DEF MovedTo
  <2>2. CASE u.status[c] = "Clearing"
    BY <1>1, <1>3, <2>2, Zenon DEF Ready
  <2>3. QED
    BY <2>1, <2>2, Zenon
<1>5. /\ "connect" \in Armed(next) <=> next \in {"Connect", "Active"}
      /\ "start" \in Armed(next) <=> next = "Idle"
      /\ "hold" \in Armed(next) <=> next \in Open
  BY Zenon DEF Armed, Open
<1>6. QED
  BY <1>1, <1>2, <1>3, <1>4, <1>5, Zenon DEF Local, Ready, Open

\* The routes when a handler has settled on the next status of c.
LEMMA SettledRoutes ==
    ASSUME NEW t, NEW c \in Conns, NEW e, Typed(t), Routes(t, c, e), NEW u, Own(u, t, c),
           NEW next \in Statuses \ {"Deleted"}, Ready(u, c, next),
           ReadyRoutes(u, c, next), NEW v, MovedTo(v, u, c, next)
    PROVE  Routes(v, 0, "none")
<1>1. /\ v.status = [t.status EXCEPT ![c] = next] /\ v.conf = t.conf /\ v.rib = t.rib
      /\ u.status = t.status /\ u.conf = t.conf /\ u.rib = t.rib
      /\ u.clear_node_queue = t.clear_node_queue
  BY Zenon DEF MovedTo, Apart, Own
<1>2. v.status[c] = next /\ \A d \in Conns : d # c => v.status[d] = t.status[d]
  BY <1>1, Zenon DEF Typed
<1>3. \A d \in Conns : d # c =>
         /\ \A g : Has(v, d, g) <=> Has(t, d, g)
         /\ Guarded(t.queue, d) => Guarded(v.queue, d)
  BY Zenon DEF MovedTo, Apart, Own
<1>4. \A d \in Conns : v.status[d] # "Clearing" => Guarded(v.queue, d)
  <2>1. next # "Clearing" => Guarded(v.queue, c)
    BY Zenon DEF MovedTo, ReadyRoutes
  <2>2. QED
    BY <1>2, <1>3, <2>1, Zenon DEF Routes
<1>5. t.conf \in Conns
  BY Zenon DEF Typed
<1>6. \A d \in Conns : \A g : Pends(v, 0, "none", d, g) <=> Has(v, d, g)
  BY Waits, Zenon
<1>7. ASSUME t.conf # c
      PROVE  /\ v.clear_node_queue <=> t.clear_node_queue
             /\ \A g : Pends(v, 0, "none", t.conf, g) <=> Pends(t, c, e, t.conf, g)
             /\ Dooms(v, 0, "none", t.conf) <=> Dooms(t, c, e, t.conf)
             /\ v.status[v.conf] = t.status[t.conf]
  <2>1. v.clear_node_queue <=> t.clear_node_queue
    BY <1>1, <1>7, Zenon DEF MovedTo
  <2>2. \A g : Has(v, t.conf, g) <=> Has(t, t.conf, g)
    BY <1>3, <1>5, <1>7, Zenon
  <2>3. QED
    BY <1>1, <1>2, <1>5, <1>7, <2>1, <2>2, Waits, ZenonT(60) DEF Pends, Dooms, Doomed
<1>8. ASSUME t.conf = c, v.clear_node_queue
      PROVE  \/ next = "Clearing" /\ ~Has(v, c, "Clearing_Completed")
             \/ next = "Established" /\ Doomed(v, c)
  <2>1. CASE next = "Clearing" /\ t.status[c] # "Clearing"
    BY <1>1, <1>8, <2>1, Zenon DEF MovedTo, Ready
  <2>2. CASE ~(next = "Clearing" /\ t.status[c] # "Clearing")
    <3>1. t.clear_node_queue /\ \A g : Has(v, c, g) <=> Has(u, c, g)
      BY <1>1, <1>8, <2>2, Zenon DEF MovedTo
    <3>2. QED
      BY <1>1, <1>8, <3>1, Zenon DEF ReadyRoutes, Doomed
  <2>3. QED
    BY <2>1, <2>2, Zenon
<1>9. v.clear_node_queue =>
         \/ v.status[v.conf] = "Clearing" /\ ~Pends(v, 0, "none", v.conf, "Clearing_Completed")
         \/ v.status[v.conf] = "Established" /\ Dooms(v, 0, "none", v.conf)
  <2>1. CASE t.conf = c
    BY <1>1, <1>2, <1>6, <1>8, <2>1, Waits, ZenonT(60)
  <2>2. CASE t.conf # c
    BY <1>1, <1>7, <2>2, Zenon DEF Routes
  <2>3. QED
    BY <2>1, <2>2, Zenon
<1>10. v.rib => \/ v.status[v.conf] = "Established"
                \/ v.status[v.conf] = "Clearing" /\ v.clear_node_queue
  <2>1. CASE t.conf = c
    BY <1>1, <1>2, <2>1, ZenonT(60) DEF ReadyRoutes, MovedTo
  <2>2. CASE t.conf # c
    BY <1>1, <1>7, <2>2, Zenon DEF Routes
  <2>3. QED
    BY <2>1, <2>2, Zenon
<1>11. QED
  BY <1>4, <1>9, <1>10, Zenon DEF Routes, Conns

\* A handler that left u ready for the next status of c, which bgp_event_update
\* moves it to, restores the invariant.
LEMMA Settles ==
    ASSUME NEW t, NEW c \in Conns, NEW e, Sound(t, c, e), t.status[c] # "Deleted",
           NEW u, Own(u, t, c), ~u.abort,
           NEW next \in Statuses \ {"Deleted"}, Ready(u, c, next),
           t.xfer_failed \/ ReadyRoutes(u, c, next), NEW v, v = Moved(u, c, next)
    PROVE  Sound(v, 0, "none") /\ MovedTo(v, u, c, next)
<1>1. Typed(u) /\ u.status = t.status
  BY Zenon DEF Own, Apart
<1>2. MovedTo(v, u, c, next)
  BY <1>1, Moves, Zenon
<1>3. /\ Typed(v) /\ ~v.abort /\ v.conf = t.conf /\ v.stub = t.stub
      /\ v.xfer_failed = t.xfer_failed
      /\ v.status = [t.status EXCEPT ![c] = next]
  BY <1>1, <1>2, ZenonT(60) DEF MovedTo, Apart, Own
<1>4. v.status[c] = next /\ \A d \in Conns : d # c => v.status[d] = t.status[d]
  BY <1>3, ZenonT(60) DEF Sound, Typed
<1>5. Owners(v)
  <2>1. t.conf \in Conns /\ Other(t.conf) \in Conns
    BY Two, Zenon DEF Sound, Typed
  <2>2. \A d \in Conns : v.status[d] = "Deleted" <=> t.status[d] = "Deleted"
    BY <1>4, Zenon
  <2>3. QED
    BY <1>3, <2>1, <2>2, ZenonT(60) DEF Owners, Sound
<1>6. \A d \in Conns : Local(v, 0, "none", d)
  <2>1. ASSUME NEW d \in Conns, d # c PROVE Local(v, 0, "none", d)
    <3>1. Local(t, c, e, d)
      BY Zenon DEF Sound
    <3>2. SameDevices(v, t, d) /\ \A g : Has(v, d, g) <=> Has(t, d, g)
      BY <1>2, <2>1, SMTT(60) DEF MovedTo, Apart, Own, SameDevices
    <3>3. t.clear_node_queue => v.clear_node_queue
      BY <1>2, Zenon DEF MovedTo, Own
    <3>4. QED
      BY <1>3, <1>4, <2>1, <3>1, <3>2, <3>3, LocalKept, ZenonT(60)
  <2>2. Local(v, 0, "none", c)
    BY <1>1, <1>2, SettledLocal, Zenon
  <2>3. QED
    BY <2>1, <2>2, Zenon
<1>7. t.xfer_failed \/ Routes(v, 0, "none")
  BY <1>2, SettledRoutes, Zenon DEF Sound
<1>8. QED
  BY <1>2, <1>3, <1>5, <1>6, <1>7, Zenon DEF Sound

\* An event that is no completion and no open connection is added or, below,
\* taken in hand.
Plain(t, c, e) ==
    /\ e \notin {"Clearing_Completed", "TCP_connection_open"}
    /\ e = "ConnectRetry_timer_expired" => c = t.conf

\* Adding an event keeps the invariant, and an event that stops the stub makes
\* the pair of connections safe.
LEMMA AddsSound ==
    ASSUME NEW t, Sound(t, 0, "none"), NEW c \in Conns, t.status[c] # "Deleted", NEW e,
           Plain(t, c, e), NEW u, Adds(u, t, c, e)
    PROVE  /\ Sound(u, 0, "none")
           /\ Pair(t, 0, "none") => Pair(u, 0, "none")
           /\ c = Other(t.conf) /\ e \in {"BGP_Stop", "TCP_fatal_error"} => Pair(u, 0, "none")
<1>1. /\ Typed(u) /\ ~u.abort /\ u.conf = t.conf /\ u.stub = t.stub /\ u.status = t.status
      /\ u.clear_node_queue = t.clear_node_queue /\ u.rib = t.rib /\ u.xfer_failed = t.xfer_failed
  BY Zenon DEF Adds, Own, Apart, Sound
<1>2. t.conf \in Conns /\ Other(t.conf) \in Conns
  BY Two, Zenon DEF Sound, Typed
<1>3. \A d \in Conns : \A g : Has(u, d, g) <=> Has(t, d, g) \/ (d = c /\ g = e)
  BY Zenon DEF Adds, Own, Apart
<1>4. \A d \in Conns : \A g : /\ Pends(u, 0, "none", d, g) <=> Has(u, d, g)
                              /\ Pends(t, 0, "none", d, g) <=> Has(t, d, g)
  BY Waits, Zenon
<1>5. \A d \in Conns : /\ Dooms(u, 0, "none", d) <=> Doomed(u, d)
                       /\ Dooms(t, 0, "none", d) <=> Doomed(t, d)
  BY Waits, Zenon
<1>6. \A d \in Conns : Doomed(t, d) => Doomed(u, d)
  BY <1>3, Zenon DEF Doomed
<1>7. \A d \in Conns : Local(u, 0, "none", d)
  <2>1. ASSUME NEW d \in Conns PROVE Local(u, 0, "none", d)
    <3>1. SameDevices(u, t, d)
      BY Zenon DEF Adds, Own, Apart
    <3>2. Local(t, 0, "none", d)
      BY Zenon DEF Sound
    <3>3. /\ Has(u, d, "TCP_connection_open") <=> Has(t, d, "TCP_connection_open")
          /\ Has(u, d, "ConnectRetry_timer_expired") =>
               Has(t, d, "ConnectRetry_timer_expired") \/ d = t.conf
      BY <1>3, Zenon DEF Plain
    <3>4. t.status[d] = "Deleted" => \A g \in Events : ~Has(u, d, g)
      BY <1>3, <3>2, Zenon DEF Local
    <3>5. \A g : Pends(t, 0, "none", d, g) => Pends(u, 0, "none", d, g)
      BY <1>3, <1>4, Zenon
    <3>6. /\ Pends(u, 0, "none", d, "TCP_connection_open") => Pends(t, 0, "none", d, "TCP_connection_open")
          /\ Pends(u, 0, "none", d, "ConnectRetry_timer_expired") =>
               Pends(t, 0, "none", d, "ConnectRetry_timer_expired") \/ d = t.conf
      BY <1>4, <3>3, Zenon
    <3>7. QED
      BY <1>1, <3>1, <3>2, <3>4, <3>5, <3>6, ZenonT(60) DEF Local, SameDevices
  <2>2. QED
    BY <2>1, Zenon
<1>8. t.xfer_failed \/ Routes(u, 0, "none")
  <2>1. SUFFICES ASSUME Routes(t, 0, "none") PROVE Routes(u, 0, "none")
    BY Zenon DEF Sound
  <2>2. \A d \in Conns : Guarded(t.queue, d) => Guarded(u.queue, d)
    <3>1. Guarded(t.queue, c) => Guarded(u.queue, c)
      BY Zenon DEF Adds, Plain
    <3>2. \A d \in Conns : d # c => (Guarded(t.queue, d) => Guarded(u.queue, d))
      BY Zenon DEF Adds, Own, Apart
    <3>3. QED
      BY <3>1, <3>2, Zenon
  <2>3. Has(u, t.conf, "Clearing_Completed") => Has(t, t.conf, "Clearing_Completed")
    BY <1>2, <1>3, Zenon DEF Plain
  <2>4. QED
    BY <1>1, <1>2, <1>4, <1>5, <1>6, <2>1, <2>2, <2>3, ZenonT(60) DEF Routes, Conns
<1>9. Owners(u)
  BY <1>1, Zenon DEF Sound, Owners
<1>10. Pair(t, 0, "none") => Pair(u, 0, "none")
  BY <1>1, <1>2, <1>5, <1>6, Zenon DEF Pair
<1>11. c = Other(t.conf) /\ e \in {"BGP_Stop", "TCP_fatal_error"} => Pair(u, 0, "none")
  <2>1. e \in {"BGP_Stop", "TCP_fatal_error"} => Doomed(u, c)
    BY <1>3, Zenon DEF Doomed
  <2>2. QED
    BY <1>1, <1>5, <2>1, Zenon DEF Pair
<1>12. QED
  BY <1>1, <1>7, <1>8, <1>9, <1>10, <1>11, Zenon DEF Sound

\* The invariant survives such an event.
LEMMA AddsInv ==
    ASSUME NEW t, Inv(t), NEW c \in Conns, t.status[c] # "Deleted", NEW e, Plain(t, c, e),
           NEW u, Adds(u, t, c, e)
    PROVE  Inv(u) /\ u.task = t.task /\ u.status = t.status
<1>1. Sound(t, 0, "none") /\ Pair(t, 0, "none")
  BY Zenon DEF Inv, During
<1>2. Sound(u, 0, "none") /\ Pair(u, 0, "none")
  BY <1>1, AddsSound, Zenon
<1>3. QED
  BY <1>2, Zenon DEF Inv, During, Adds, Own, Apart

\* A timer that fires, or a packet that was received, raises such an event.
LEMMA Takes ==
    ASSUME NEW t, Inv(t), NEW c \in Conns, t.status[c] # "Deleted", NEW e \in FsmEvents,
           Plain(t, c, e), NEW u, Own(u, t, c), ~u.abort, u.queue = t.queue,
           u.io[c] = t.io[c], u.check[c] = t.check[c], u.ibuf[c] # <<>> => t.ibuf[c] # <<>>,
           u.timers[c] \subseteq t.timers[c],
           "start" \in t.timers[c] => "start" \in u.timers[c] \/ e = "BGP_Start",
           "hold" \in t.timers[c] => "hold" \in u.timers[c] \/ e = "Hold_Timer_expired"
    PROVE  During(u, c, e)
<1>1. /\ Typed(u) /\ u.conf = t.conf /\ u.stub = t.stub /\ u.status = t.status
      /\ u.clear_node_queue = t.clear_node_queue /\ u.rib = t.rib /\ u.xfer_failed = t.xfer_failed
  BY Zenon DEF Own, Apart
<1>2. t.conf \in Conns /\ Other(t.conf) \in Conns
  BY Two, Zenon DEF Inv, During, Sound, Typed
<1>3. \A d, g : Has(u, d, g) <=> Has(t, d, g)
  BY Zenon DEF Has
<1>4. \A d \in Conns : \A g : Pends(t, 0, "none", d, g) <=> Has(t, d, g)
  BY Waits, Zenon
<1>5. \A d \in Conns : /\ Dooms(t, 0, "none", d) => Dooms(u, c, e, d)
                       /\ Dooms(t, 0, "none", d) <=> Doomed(t, d)
  BY <1>3, Waits, Zenon DEF Dooms, Doomed
<1>6. \A d \in Conns : Local(u, c, e, d)
  <2>1. ASSUME NEW d \in Conns PROVE Local(u, c, e, d)
    <3>1. Local(t, 0, "none", d)
      BY Zenon DEF Inv, During, Sound
    <3>2. /\ Pends(u, c, e, d, "TCP_connection_open") <=> Has(t, d, "TCP_connection_open")
          /\ Pends(u, c, e, d, "ConnectRetry_timer_expired") =>
               Has(t, d, "ConnectRetry_timer_expired") \/ d = t.conf
          /\ \A g : Has(t, d, g) => Pends(u, c, e, d, g)
      BY <1>3, Zenon DEF Pends, Plain
    <3>3. CASE d # c
      <4>1. SameDevices(u, t, d)
        BY <3>3, Zenon DEF Own, Apart
      <4>2. QED
        BY <1>1, <1>3, <1>4, <3>1, <3>2, <4>1, ZenonT(60) DEF Local, SameDevices
    <3>4. CASE d = c
      <4>1. \E g \in FsmEvents : Pends(u, c, e, d, g)
        BY <3>4, Zenon DEF Pends
      <4>2. d # 0
        BY Two, Zenon
      <4>3. QED
        BY <1>1, <1>3, <1>4, <3>1, <3>2, <3>4, <4>1, <4>2, ZenonT(60) DEF Local
    <3>5. QED
      BY <3>3, <3>4, Zenon
  <2>2. QED
    BY <2>1, Zenon
<1>7. t.xfer_failed \/ Routes(u, c, e)
  <2>1. SUFFICES ASSUME Routes(t, 0, "none") PROVE Routes(u, c, e)
    BY Zenon DEF Inv, During, Sound
  <2>2. Pends(u, c, e, t.conf, "Clearing_Completed") => Has(t, t.conf, "Clearing_Completed")
    BY <1>3, Zenon DEF Pends, Plain
  <2>3. QED
    BY <1>1, <1>2, <1>4, <1>5, <2>1, <2>2, Zenon DEF Routes, Plain
<1>8. Owners(u)
  BY <1>1, Zenon DEF Inv, During, Sound, Owners
<1>9. Pair(u, c, e)
  BY <1>1, <1>2, <1>5, Zenon DEF Inv, During, Pair
<1>10. QED
  BY <1>1, <1>6, <1>7, <1>8, <1>9, Zenon DEF During, Sound

\* The invariant holds again when the stub is deleted, whatever it was doing.
LEMMA GoneInv ==
    ASSUME NEW t, NEW b, NEW e, Sound(t, b, e), b # t.conf, NEW c, c = Other(t.conf),
           NEW u, Gone(u, t, c)
    PROVE  Inv(u) /\ u.task = t.task
<1>1. /\ Typed(u) /\ ~u.abort /\ u.conf = t.conf /\ ~u.stub /\ u.rib = t.rib
      /\ u.clear_node_queue = t.clear_node_queue /\ u.xfer_failed = t.xfer_failed
      /\ u.status = [t.status EXCEPT ![c] = "Deleted"] /\ u.task = t.task
  BY Zenon DEF Gone, Sound
<1>2. /\ t.conf \in Conns /\ c \in Conns /\ t.conf # c
      /\ \A d \in Conns : d = c \/ d = t.conf
  BY Two, Zenon DEF Sound, Typed
<1>3. u.status[c] = "Deleted" /\ u.status[t.conf] = t.status[t.conf]
  BY <1>1, <1>2, SMTT(60) DEF Sound, Typed
<1>4. /\ SameDevices(u, t, t.conf)
      /\ \A g : Has(u, t.conf, g) <=> Has(t, t.conf, g)
      /\ Guarded(t.queue, t.conf) => Guarded(u.queue, t.conf)
  BY <1>2, Zenon DEF Gone
<1>5. Local(u, 0, "none", t.conf)
  <2>1. Local(t, b, e, t.conf)
    BY <1>2, Zenon DEF Sound
  <2>2. PICK d \in Conns : d = t.conf
    BY <1>2, Zenon
  <2>3. QED
    BY <1>1, <1>3, <1>4, <2>1, <2>2, LocalKept, Zenon
<1>6. \A g \in Events : ~Has(u, c, g)
  BY Zenon DEF Gone
<1>7. ~Has(u, c, "TCP_connection_open") /\ ~Has(u, c, "Clearing_Completed")
  BY <1>6, Named, Zenon
<1>8. Local(u, 0, "none", c)
  <2>1. \A g : Pends(u, 0, "none", c, g) <=> Has(u, c, g)
    BY <1>2, Waits, Zenon
  <2>2. u.check[c] = FALSE /\ u.io[c] = "off" /\ u.timers[c] = {} /\ u.ibuf[c] = <<>>
    BY Zenon DEF Gone
  <2>3. QED
    BY <1>3, <1>6, <1>7, <2>1, <2>2, Zenon DEF Local, Open
<1>9. t.xfer_failed \/ Routes(u, 0, "none")
  <2>1. SUFFICES ASSUME Routes(t, b, e) PROVE Routes(u, 0, "none")
    BY Zenon DEF Sound
  <2>2. Guarded(u.queue, c)
    BY <1>7, NothingToGuard, Zenon DEF Has, Completion
  <2>3. /\ \A g : Pends(u, 0, "none", t.conf, g) <=> Pends(t, b, e, t.conf, g)
        /\ Dooms(u, 0, "none", t.conf) <=> Dooms(t, b, e, t.conf)
    BY <1>2, <1>4, Waits, Zenon DEF Pends, Dooms, Doomed
  <2>4. QED
    BY <1>1, <1>2, <1>3, <1>4, <2>1, <2>2, <2>3, Zenon DEF Routes, Conns
<1>10. Owners(u)
  BY <1>1, <1>2, <1>3, Zenon DEF Owners, Sound
<1>11. Pair(u, 0, "none")
  BY <1>1, Zenon DEF Pair
<1>12. QED
  BY <1>1, <1>2, <1>5, <1>8, <1>9, <1>10, <1>11, Zenon DEF Inv, During, Sound

\* The devices of c are off.
Quieted(u, t, c) ==
    /\ Own(u, t, c) /\ ~u.abort
    /\ u.io[c] = "off" /\ u.check[c] = FALSE /\ u.ibuf[c] = <<>>

\* The events of c that are left when it is stopped and goes to status next.
Emptied(u, t, c, e, next) ==
    \/ /\ ~(next = "Clearing" /\ t.status[c] = "Clearing")
       /\ \A g \in Events : ~Has(u, c, g)
    \/ /\ next = "Clearing" /\ t.status[c] = "Clearing" /\ e # "Clearing_Completed"
       /\ \A g \in FsmEvents : Has(u, c, g) <=> Has(t, c, g)

\* A session goes to Clearing, and from there to Idle.
Leaves(t, c, e, next) ==
    /\ next \in {"Idle", "Active", "Clearing"}
    /\ next = "Clearing" => t.status[c] \in {"Established", "Clearing"}
    /\ t.status[c] \in {"Established", "Clearing"} => next = "Clearing" \/ e = "Clearing_Completed"

\* The configured peer's connection is stopped and moved to Idle, Active or
\* Clearing.
LEMMA StopSettles ==
    ASSUME NEW t, NEW c \in Conns, NEW e, During(t, c, e), c = t.conf,
           NEW u, Quieted(u, t, c), NEW next, Leaves(t, c, e, next), Emptied(u, t, c, e, next),
           NEW v, v = Moved(u, c, next)
    PROVE  Inv(v) /\ v.task = t.task /\ v.status[c] = next
<1>1. /\ Sound(t, c, e) /\ Pair(t, c, e) /\ Typed(t)
      /\ u.status = t.status /\ u.conf = t.conf /\ u.rib = t.rib
      /\ u.clear_node_queue = t.clear_node_queue /\ Own(u, t, c) /\ ~u.abort
  BY Zenon DEF During, Sound, Own, Apart, Quieted
<1>2. t.status[c] # "Deleted" /\ next \in Statuses \ {"Deleted"}
  BY <1>1, Zenon DEF Sound, Owners, Statuses, Leaves
<1>3. Has(u, c, "TCP_connection_open") => next = "Clearing"
  BY Named, Zenon DEF Emptied
<1>4. next = "Clearing" =>
         \/ t.status[c] # "Clearing" /\ ~Has(u, c, "Clearing_Completed")
         \/ /\ t.status[c] = "Clearing" /\ e # "Clearing_Completed"
            /\ Has(u, c, "Clearing_Completed") <=> Has(t, c, "Clearing_Completed")
  BY Named, Zenon DEF Emptied
<1>5. Ready(u, c, next)
  <2>1. t.status[c] = "Clearing" /\ e # "Clearing_Completed" =>
            Has(t, c, "Clearing_Completed") \/ t.clear_node_queue
    BY <1>1, Zenon DEF Sound, Local, Pends
  <2>2. QED
    BY <1>1, <1>3, <1>4, <2>1, Zenon DEF Ready, Quieted
<1>6. t.xfer_failed \/ ReadyRoutes(u, c, next)
  <2>1. SUFFICES ASSUME Routes(t, c, e) PROVE ReadyRoutes(u, c, next)
    BY <1>1, Zenon DEF Sound
  <2>2. next # "Clearing" => Guarded(u.queue, c)
    <3>1. next # "Clearing" => ~Has(u, c, "Clearing_Completed")
      BY Named, Zenon DEF Emptied
    <3>2. QED
      BY <3>1, NothingToGuard, Zenon DEF Has, Completion
  <2>3. e = "Clearing_Completed" => t.status[c] = "Clearing"
    BY <2>1, Zenon DEF Routes
  <2>4. t.clear_node_queue => next = "Clearing" /\ ~Has(u, c, "Clearing_Completed")
    BY <1>4, <2>1, <2>3, Zenon DEF Routes, Pends, Leaves
  <2>5. t.rib => next = "Clearing" /\ (t.clear_node_queue \/ t.status[c] # "Clearing")
    BY <2>1, <2>3, <2>4, Zenon DEF Routes, Leaves
  <2>6. QED
    BY <1>1, <2>2, <2>4, <2>5, Zenon DEF ReadyRoutes
<1>7. Sound(v, 0, "none") /\ MovedTo(v, u, c, next)
  BY <1>1, <1>2, <1>5, <1>6, Settles, Zenon
<1>8. v.conf = t.conf /\ v.stub = t.stub /\ v.task = t.task /\ v.status = [t.status EXCEPT ![c] = next]
  BY <1>1, <1>7, ZenonT(60) DEF MovedTo, Own, Apart
<1>9. v.status[c] = next
  BY <1>1, <1>8, Zenon DEF Typed
<1>10. Pair(v, 0, "none")
  <2>1. PICK d \in Conns : d = Other(c) /\ d # c
    BY Two, Zenon
  <2>2. Doomed(t, d) => Doomed(v, d)
    BY <1>1, <1>7, <2>1, Zenon DEF MovedTo, Own, Apart, Doomed
  <2>3. Dooms(t, c, e, d) => Doomed(t, d)
    BY <2>1, Zenon DEF Dooms
  <2>4. v.status[d] = t.status[d]
    BY <1>1, <1>8, <2>1, Zenon DEF Typed
  <2>5. QED
    BY <1>1, <1>8, <1>9, <2>1, <2>2, <2>3, <2>4, ZenonT(60) DEF Pair, Dooms, Leaves
<1>11. QED
  BY <1>7, <1>8, <1>9, <1>10, Zenon DEF Inv, During

-----------------------------------------------------------------------------
(* bgp_event_update, without bgp_establish.                                *)

Funcs == {"bgp_ignore", "bgp_fsm_open", "bgp_start", "bgp_stop", "bgp_stop_with_notify",
          "bgp_connect_success", "bgp_reconnect", "bgp_establish", "bgp_fsm_update",
          "bgp_clearing_completed"}

\* What FSM[st][e] may be for a connection that is not Deleted: the function f
\* and the next status n.
Row(st, e, f, n) ==
    /\ f \in Funcs /\ n \in Statuses \ {"Deleted"}
    /\ f = "bgp_ignore" =>
         /\ n = st /\ e \notin {"BGP_Stop", "TCP_fatal_error", "TCP_connection_open"}
         /\ st = "Clearing" => e # "Clearing_Completed"
    /\ f = "bgp_fsm_open" => n = "OpenConfirm" /\ e = "Receive_OPEN_message" /\ st # "Established"
    /\ f = "bgp_start" =>
         /\ n = "Connect"
         /\ \/ st = "Idle" /\ e = "BGP_Start"
            \/ st = "Active" /\ e = "ConnectRetry_timer_expired"
    /\ f \in {"bgp_stop", "bgp_stop_with_notify"} =>
         /\ n \in {"Idle", "Active", "Clearing"}
         /\ n = "Clearing" => st \in {"Established", "Clearing"}
         /\ st = "Established" => n = "Clearing" \/ e = "Clearing_Completed"
         /\ st = "Clearing" => n = "Clearing" /\ e # "Clearing_Completed" /\ f = "bgp_stop"
    /\ f = "bgp_connect_success" =>
         e = "TCP_connection_open" /\ st \in {"Connect", "Active"} /\ n = "OpenSent"
    /\ f = "bgp_reconnect" =>
         st = "Connect" /\ n = "Connect" /\ e = "ConnectRetry_timer_expired"
    /\ f = "bgp_establish" =>
         st = "OpenConfirm" /\ e = "Receive_KEEPALIVE_message" /\ n = "Established"
    /\ f = "bgp_fsm_update" =>
         /\ st = "Established" /\ n = st
         /\ e \in {"Receive_KEEPALIVE_message", "Receive_UPDATE_message"}
    /\ f = "bgp_clearing_completed" =>
         st = "Clearing" /\ e = "Clearing_Completed" /\ n = "Idle"

\* The table, row by row.
LEMMA Table ==
    ASSUME NEW st \in Statuses \ {"Deleted"}, NEW e \in FsmEvents,
           NEW f, f = FSM(st, e).func, NEW n, n = FSM(st, e).next
    PROVE  Row(st, e, f, n)
<1>1. CASE st = "Idle"
  BY <1>1, ZenonT(60) DEF FSM, Entry, Statuses, Funcs, FsmEvents, Row
<1>2. CASE st = "Connect"
  BY <1>2 DEF FSM, Entry, Statuses, Funcs, FsmEvents, Row
<1>3. CASE st = "Active"
  BY <1>3 DEF FSM, Entry, Statuses, Funcs, FsmEvents, Row
<1>4. CASE st = "OpenSent"
  BY <1>4 DEF FSM, Entry, Statuses, Funcs, FsmEvents, Row
<1>5. CASE st = "OpenConfirm"
  BY <1>5 DEF FSM, Entry, Statuses, Funcs, FsmEvents, Row
<1>6. CASE st = "Established"
  BY <1>6 DEF FSM, Entry, Statuses, Funcs, FsmEvents, Row
<1>7. CASE st = "Clearing"
  BY <1>7, ZenonT(60) DEF FSM, Entry, Statuses, Funcs, FsmEvents, Row
<1>8. QED
  BY <1>1, <1>2, <1>3, <1>4, <1>5, <1>6, <1>7, Zenon DEF Statuses

\* How bgp_event_update ends, for each way its function may end.
LEMMA Dispatch ==
    ASSUME NEW t, NEW c, NEW e, NEW result, NEW r, r = bgp_event_update(t, c, e, result),
           NEW f, f = FSM(t.status[c], e).func, NEW n, n = FSM(t.status[c], e).next,
           NEW done, done = Call(f, t, c, result)
    PROVE  /\ done.ret = "SUCCESS" => r.s = Moved(done.s, c, n) /\ r.ret = "OK"
           /\ done.ret = "SUCCESS_STATE_TRANSFER" =>
                r.s = Moved(done.s, c, n) /\ r.ret = "FSM_PEER_TRANSFERRED"
           /\ done.ret = "FAILURE" =>
                /\ r.s = IF IsStub(t, c) THEN done.s ELSE Moved(bgp_stop(done.s, c).s, c, "Idle")
                /\ r.ret = "FSM_PEER_STOPPED"
           /\ done.ret = "FAILURE_AND_DELETE" => r.s = done.s /\ r.ret = "FSM_PEER_STOPPED"
<1>1. r = CASE done.ret = "SUCCESS" -> [s |-> Moved(done.s, c, n), ret |-> "OK"]
            [] done.ret = "SUCCESS_STATE_TRANSFER" ->
                 [s |-> Moved(done.s, c, n), ret |-> "FSM_PEER_TRANSFERRED"]
            [] done.ret = "FAILURE" ->
                 [s |-> IF IsStub(t, c) THEN done.s ELSE Moved(bgp_stop(done.s, c).s, c, "Idle"),
                  ret |-> "FSM_PEER_STOPPED"]
            [] done.ret = "FAILURE_AND_DELETE" -> [s |-> done.s, ret |-> "FSM_PEER_STOPPED"]
  BY Zenon DEF bgp_event_update, Finish
<1>2. done.ret = "SUCCESS" => r = [s |-> Moved(done.s, c, n), ret |-> "OK"]
  BY <1>1, Zenon
<1>3. done.ret = "SUCCESS_STATE_TRANSFER" =>
        r = [s |-> Moved(done.s, c, n), ret |-> "FSM_PEER_TRANSFERRED"]
  BY <1>1, Zenon
<1>4. done.ret = "FAILURE" =>
        r = [s |-> IF IsStub(t, c) THEN done.s ELSE Moved(bgp_stop(done.s, c).s, c, "Idle"),
             ret |-> "FSM_PEER_STOPPED"]
  BY <1>1, Zenon
<1>5. done.ret = "FAILURE_AND_DELETE" => r = [s |-> done.s, ret |-> "FSM_PEER_STOPPED"]
  BY <1>1, Zenon
<1>6. QED
  BY <1>2, <1>3, <1>4, <1>5, SMTT(60)

\* When the function of the row succeeds bgp_event_update moves to the row's status.
LEMMA Succeeds ==
    ASSUME NEW t, NEW c, NEW e, NEW result, NEW r, r = bgp_event_update(t, c, e, result),
           NEW done, done = Call(FSM(t.status[c], e).func, t, c, result), done.ret = "SUCCESS",
           NEW v, v = Moved(done.s, c, FSM(t.status[c], e).next)
    PROVE  r.s = v /\ r.ret = "OK"
  BY Dispatch, SMTT(60)

\* When the function of the row deletes the stub bgp_event_update leaves it alone.
LEMMA Removes ==
    ASSUME NEW t, NEW c, NEW e, NEW result, NEW r, r = bgp_event_update(t, c, e, result),
           NEW done, done = Call(FSM(t.status[c], e).func, t, c, result),
           done.ret = "FAILURE_AND_DELETE"
    PROVE  r.s = done.s /\ r.ret = "FSM_PEER_STOPPED"
  BY Dispatch, SMTT(60)

\* bgp_event_update leaves the invariant, and leaves c if it says so.
Handled(r, t, c) ==
    /\ Inv(r.s)
    /\ r.s.task = t.task
    /\ r.ret = "OK" => r.s.status[c] # "Deleted"

\* A connection that exists is the configured peer's or the stub's.
LEMMA Whose ==
    ASSUME NEW t, NEW c \in Conns, Typed(t), Owners(t), t.status[c] # "Deleted"
    PROVE  /\ ~IsStub(t, c) => c = t.conf
           /\ IsStub(t, c) => c = Other(t.conf) /\ c # t.conf
<1>1. t.conf \in Conns
  BY Zenon DEF Typed
<1>2. c = t.conf \/ c = Other(t.conf)
  BY <1>1, Two, Zenon
<1>3. QED
  BY <1>1, <1>2, Two, Zenon DEF IsStub, Owners

\* A step of c's own, and then a move that does not bring two sessions about.
LEMMA OwnMove ==
    ASSUME NEW t, NEW c \in Conns, NEW e, During(t, c, e), t.status[c] # "Deleted",
           NEW u, Own(u, t, c), ~u.abort,
           NEW next \in Statuses \ {"Deleted"}, Ready(u, c, next),
           t.xfer_failed \/ ReadyRoutes(u, c, next),
           c = t.conf /\ next \in {"Established", "Clearing"} => t.status[c] = next,
           \/ c = t.conf
           \/ next \notin {"OpenConfirm", "Established"}
           \/ t.status[t.conf] \notin {"Established", "Clearing"}
           \/ Doomed(u, c),
           NEW v, v = Moved(u, c, next)
    PROVE  Inv(v) /\ v.task = t.task /\ v.status[c] # "Deleted"
<1>1. Sound(t, c, e) /\ Pair(t, c, e) /\ Typed(t)
  BY Zenon DEF During, Sound
<1>2. Sound(v, 0, "none") /\ MovedTo(v, u, c, next)
  BY <1>1, Settles, Zenon
<1>3. v.conf = t.conf /\ v.stub = t.stub /\ v.task = t.task /\ v.status = [t.status EXCEPT ![c] = next]
  BY <1>2, ZenonT(60) DEF MovedTo, Own, Apart
<1>4. v.status[c] = next /\ \A d \in Conns : d # c => v.status[d] = t.status[d]
  BY <1>1, <1>3, Zenon DEF Typed
<1>5. /\ t.conf \in Conns /\ Other(t.conf) \in Conns /\ Other(t.conf) # t.conf
      /\ c = t.conf \/ c = Other(t.conf)
  BY <1>1, Two, Zenon DEF Typed
<1>6. Pair(v, 0, "none")
  <2>1. CASE c = t.conf
    <3>1. Dooms(t, c, e, Other(c)) => Doomed(v, Other(c))
      BY <1>2, <1>5, <2>1, Zenon DEF Dooms, Doomed, MovedTo, Own, Apart
    <3>2. QED
      BY <1>1, <1>3, <1>4, <1>5, <2>1, <3>1, SMTT(60) DEF Pair, Dooms
  <2>2. CASE c # t.conf
    <3>1. Doomed(u, c) => Doomed(v, c)
      BY <1>2, Zenon DEF Doomed, MovedTo
    <3>2. c = Other(t.conf)
      BY <1>5, <2>2, Zenon
    <3>3. QED
      BY <1>3, <1>4, <1>5, <2>2, <3>1, <3>2, SMTT(60) DEF Pair, Dooms
  <2>3. QED
    BY <2>1, <2>2, Zenon
<1>7. QED
  BY <1>2, <1>3, <1>4, <1>6, Zenon DEF Inv, During

\* bgp_ignore and rows that stay in their status keep the invariant.
LEMMA StayMove ==
    ASSUME NEW t, NEW c \in Conns, NEW e, During(t, c, e), t.status[c] # "Deleted",
           e \notin {"BGP_Stop", "TCP_fatal_error", "TCP_connection_open"},
           t.status[c] = "Clearing" => e # "Clearing_Completed",
           NEW u, Own(u, t, c), ~u.abort, u.queue = t.queue,
           u.io[c] = t.io[c], u.check[c] = t.check[c], u.ibuf[c] = t.ibuf[c],
           NEW v, v = Moved(u, c, t.status[c])
    PROVE  Inv(v) /\ v.task = t.task /\ v.status[c] # "Deleted"
<1>1. PICK next \in Statuses \ {"Deleted"} : next = t.status[c]
  BY Zenon DEF During, Sound, Typed
<1>2. /\ u.status = t.status /\ u.conf = t.conf /\ u.clear_node_queue = t.clear_node_queue
      /\ u.rib = t.rib /\ \A g : Has(u, c, g) <=> Has(t, c, g)
  BY Zenon DEF Own, Apart, Has
<1>3. Local(t, c, e, c)
  BY Zenon DEF During, Sound
<1>4. /\ Pends(t, c, e, c, "TCP_connection_open") <=> Has(t, c, "TCP_connection_open")
      /\ Pends(t, c, e, c, "BGP_Stop") <=> Has(t, c, "BGP_Stop")
      /\ Has(t, c, "ConnectRetry_timer_expired") => Pends(t, c, e, c, "ConnectRetry_timer_expired")
      /\ t.status[c] = "Clearing" =>
           (Pends(t, c, e, c, "Clearing_Completed") <=> Has(t, c, "Clearing_Completed"))
  BY Zenon DEF Pends
<1>5. Ready(u, c, next)
  BY <1>1, <1>2, <1>3, <1>4, Zenon DEF Ready, Local
<1>6. Dooms(t, c, e, c) => Doomed(u, c)
  BY <1>2, Zenon DEF Dooms, Doomed
<1>7. t.xfer_failed \/ ReadyRoutes(u, c, next)
  BY <1>1, <1>2, <1>4, <1>6, Zenon DEF During, Sound, Routes, ReadyRoutes
<1>8. \/ c = t.conf
      \/ next \notin {"OpenConfirm", "Established"}
      \/ t.status[t.conf] \notin {"Established", "Clearing"}
      \/ Doomed(u, c)
  <2>1. c # t.conf => IsStub(t, c) /\ c = Other(t.conf)
    BY Whose, Zenon DEF During, Sound
  <2>2. QED
    BY <1>1, <1>6, <2>1, Zenon DEF During, Pair, IsStub
<1>9. QED
  BY <1>1, <1>5, <1>7, <1>8, OwnMove, SMTT(60)

\* bgp_fsm_open: the OPEN of a connection in OpenSent has been accepted.
LEMMA OpenMove ==
    ASSUME NEW t, NEW c \in Conns, NEW e, During(t, c, e), e = "Receive_OPEN_message",
           t.status[c] \in Open,
           ~(t.stub /\ t.status[Other(c)] \in {"Established", "Clearing"}),
           t.status[c] # "Established",
           NEW v, v = Moved(t, c, "OpenConfirm")
    PROVE  Inv(v) /\ v.task = t.task /\ v.status[c] # "Deleted"
<1>1. t.status[c] # "Deleted" /\ Typed(t) /\ ~t.abort
  BY Zenon DEF Open, During, Sound
<1>2. Own(t, t, c)
  BY <1>1, OwnSelf, Zenon
<1>3. PICK next \in Statuses \ {"Deleted"} : next = "OpenConfirm"
  BY Zenon DEF Statuses
<1>4. Ready(t, c, next)
  <2>1. Local(t, c, e, c)
    BY Zenon DEF During, Sound
  <2>2. QED
    BY <1>3, <2>1, Zenon DEF Ready, Local, Open, Pends
<1>5. t.xfer_failed \/ ReadyRoutes(t, c, next)
  BY <1>3, Zenon DEF During, Sound, Routes, ReadyRoutes, Open
<1>6. \/ c = t.conf
      \/ t.status[t.conf] \notin {"Established", "Clearing"}
  <2>1. c # t.conf => IsStub(t, c) /\ c = Other(t.conf)
    BY <1>1, Whose, Zenon DEF During, Sound
  <2>2. t.conf \in Conns
    BY <1>1, Zenon DEF Typed
  <2>3. QED
    BY <2>1, <2>2, Two, ZenonT(60) DEF IsStub
<1>7. QED
  BY <1>1, <1>2, <1>3, <1>4, <1>5, <1>6, OwnMove, SMTT(60)

\* bgp_start, and bgp_reconnect of the configured peer's connection: u is the
\* state in which the connect is started.
LEMMA StartMove ==
    ASSUME NEW t, NEW c \in Conns, NEW e, During(t, c, e),
           t.status[c] \in {"Idle", "Active", "Connect"},
           NEW u, Quieted(u, t, c), ~Has(u, c, "TCP_connection_open"),
           t.xfer_failed \/ Guarded(u.queue, c),
           NEW result \in Results, NEW r, r = bgp_start(u, c, result),
           NEW v, v = Moved(r.s, c, "Connect")
    PROVE  Inv(v) /\ v.task = t.task /\ v.status[c] # "Deleted"
<1>1. /\ Typed(u) /\ u.status = t.status /\ u.status[c] # "Deleted" /\ Own(u, t, c)
      /\ ~u.abort /\ u.io[c] = "off" /\ u.check[c] = FALSE /\ u.ibuf[c] = <<>>
  BY Zenon DEF Own, Apart, Quieted
<1>2. /\ Own(r.s, u, c) /\ ~r.s.abort /\ r.s.io[c] = "off" /\ r.s.ibuf[c] = u.ibuf[c]
      /\ \/ /\ r.s.check[c] = u.check[c]
            /\ \E g \in {"TCP_connection_open", "TCP_connection_open_failed"} :
                   \A h : Has(r.s, c, h) <=> Has(u, c, h) \/ h = g
         \/ \A h : Has(r.s, c, h) <=> Has(u, c, h)
      /\ Guarded(u.queue, c) => Guarded(r.s.queue, c)
  BY <1>1, Starts, SMTT(60)
<1>3. Own(r.s, t, c)
  BY <1>1, <1>2, OwnTrans, Zenon
<1>4. PICK w : w = r.s
  BY Zenon
<1>5. /\ w.status = t.status /\ w.conf = t.conf /\ w.clear_node_queue = t.clear_node_queue
      /\ w.rib = t.rib
  BY <1>3, <1>4, Zenon DEF Own, Apart
<1>6. PICK next \in Statuses \ {"Deleted"} : next = "Connect"
  BY Zenon DEF Statuses
<1>7. Has(w, c, "TCP_connection_open") => ~w.check[c]
  BY <1>1, <1>2, <1>4, Zenon
<1>8. Ready(w, c, next)
  BY <1>1, <1>2, <1>4, <1>6, <1>7, Zenon DEF Ready
<1>9. t.xfer_failed \/ ReadyRoutes(w, c, next)
  BY <1>2, <1>4, <1>5, <1>6, Zenon DEF During, Sound, Routes, ReadyRoutes
<1>10. QED
  BY <1>1, <1>2, <1>3, <1>4, <1>6, <1>8, <1>9, OwnMove, SMTT(60)

\* bgp_connect_success of a connection whose socket is up.
LEMMA ConnectedMove ==
    ASSUME NEW t, NEW c \in Conns, NEW e, During(t, c, e), e = "TCP_connection_open",
           t.status[c] \in {"Connect", "Active"},
           NEW u, u = bgp_reads_on(t, c), NEW v, v = Moved(u, c, "OpenSent")
    PROVE  Inv(v) /\ v.task = t.task /\ v.status[c] # "Deleted"
<1>1. Typed(t) /\ ~t.abort /\ t.status[c] # "Deleted" /\ Local(t, c, e, c)
  BY Zenon DEF During, Sound
<1>2. ~t.check[c]
  BY <1>1, Zenon DEF Local, Pends
<1>3. /\ Own(u, t, c) /\ u.queue = t.queue /\ ~u.abort
      /\ u.check = t.check /\ u.ibuf = t.ibuf
  BY <1>1, <1>2, ReadsOn, SMTT(60)
<1>4. /\ u.status = t.status /\ u.conf = t.conf /\ u.clear_node_queue = t.clear_node_queue
      /\ u.rib = t.rib
  BY <1>3, Zenon DEF Own, Apart
<1>5. PICK next \in Statuses \ {"Deleted"} : next = "OpenSent"
  BY Zenon DEF Statuses
<1>6. Ready(u, c, next)
  BY <1>2, <1>3, <1>5, ZenonT(60) DEF Ready, Open
<1>7. t.xfer_failed \/ ReadyRoutes(u, c, next)
  BY <1>3, <1>4, <1>5, Zenon DEF During, Sound, Routes, ReadyRoutes
<1>8. QED
  BY <1>1, <1>3, <1>5, <1>6, <1>7, OwnMove, SMTT(60)

\* bgp_connect_success of the stub's connection, which has been reset.
LEMMA ResetStub ==
    ASSUME NEW t, NEW c \in Conns, NEW e, During(t, c, e), e = "TCP_connection_open",
           t.status[c] \in {"Connect", "Active"}, NEW u, u = bgp_notify_send(t, c)
    PROVE  Inv(u) /\ u.task = t.task
<1>1. Typed(t) /\ ~t.abort /\ t.status[c] # "Deleted"
  BY Zenon DEF During, Sound
<1>2. PICK k \in {"BGP_Stop", "TCP_fatal_error"} : Adds(u, t, c, k)
  BY <1>1, NotifyAdds, Zenon
<1>3. /\ Typed(u) /\ ~u.abort /\ u.conf = t.conf /\ u.stub = t.stub /\ u.status = t.status
      /\ u.clear_node_queue = t.clear_node_queue /\ u.rib = t.rib /\ u.xfer_failed = t.xfer_failed
      /\ u.task = t.task
  BY <1>1, <1>2, Zenon DEF Adds, Own, Apart
<1>4. \A d \in Conns : \A g : Has(u, d, g) <=> Has(t, d, g) \/ (d = c /\ g = k)
  BY <1>2, Zenon DEF Adds, Own, Apart
<1>5. /\ t.conf \in Conns /\ Other(t.conf) \in Conns
      /\ c = t.conf \/ c = Other(t.conf)
  BY <1>1, Two, Zenon DEF Typed
<1>6. \A d \in Conns : \A g : Pends(u, 0, "none", d, g) <=> Has(u, d, g)
  BY Waits, Zenon
<1>7. Local(u, 0, "none", c)
  <2>1. Local(t, c, e, c) /\ SameDevices(u, t, c)
    BY <1>2, Zenon DEF During, Sound, Adds
  <2>2. \E g \in FsmEvents : Pends(u, 0, "none", c, g)
    BY <1>4, <1>6, Named, Zenon
  <2>3. /\ Pends(u, 0, "none", c, "TCP_connection_open") => Pends(t, c, e, c, "TCP_connection_open")
        /\ Pends(u, 0, "none", c, "ConnectRetry_timer_expired") =>
             Pends(t, c, e, c, "ConnectRetry_timer_expired")
    BY <1>4, <1>6, SMTT(60) DEF Pends
  <2>4. QED
    BY <1>3, <2>1, <2>2, <2>3, Zenon DEF Local, SameDevices
<1>8. \A d \in Conns : d # c => Local(u, 0, "none", d)
  <2>1. ASSUME NEW d \in Conns, d # c PROVE Local(u, 0, "none", d)
    <3>1. Local(t, c, e, d) /\ SameDevices(u, t, d) /\ \A g : Has(u, d, g) <=> Has(t, d, g)
      BY <1>2, <2>1, Zenon DEF During, Sound, Adds, Own, Apart
    <3>2. QED
      BY <1>3, <2>1, <3>1, LocalKept, Zenon
  <2>2. QED
    BY <2>1, Zenon
<1>9. t.xfer_failed \/ Routes(u, 0, "none")
  <2>1. SUFFICES ASSUME Routes(t, c, e) PROVE Routes(u, 0, "none")
    BY Zenon DEF During, Sound
  <2>2. \A d \in Conns : Guarded(t.queue, d) => Guarded(u.queue, d)
    <3>1. Guarded(t.queue, c) => Guarded(u.queue, c)
      BY <1>2, Zenon DEF Adds
    <3>2. \A d \in Conns : d # c => (Guarded(t.queue, d) => Guarded(u.queue, d))
      BY <1>2, Zenon DEF Adds, Own, Apart
    <3>3. QED
      BY <3>1, <3>2, Zenon
  <2>3. /\ Pends(u, 0, "none", t.conf, "Clearing_Completed") =>
             Pends(t, c, e, t.conf, "Clearing_Completed")
        /\ Dooms(t, c, e, t.conf) => Dooms(u, 0, "none", t.conf)
    BY <1>4, <1>5, <1>6, SMTT(60) DEF Pends, Dooms, Doomed
  <2>4. QED
    BY <1>3, <1>5, <2>1, <2>2, <2>3, Zenon DEF Routes, Conns
<1>10. Owners(u)
  BY <1>3, Zenon DEF During, Sound, Owners
<1>11. Pair(u, 0, "none")
  <2>1. Dooms(t, c, e, Other(t.conf)) => Dooms(u, 0, "none", Other(t.conf))
    BY <1>4, <1>5, Zenon DEF Dooms, Doomed
  <2>2. QED
    BY <1>3, <2>1, Zenon DEF During, Pair
<1>12. QED
  BY <1>3, <1>7, <1>8, <1>9, <1>10, <1>11, ZenonT(60) DEF Inv, During, Sound

-----------------------------------------------------------------------------
(* The functions that stop a connection.                                   *)

\* bgp_stop of the stub's connection deletes the stub, also when an event was
\* added for it first.
LEMMA StubStopped ==
    ASSUME CancelRests, NEW t, NEW c \in Conns, NEW e, During(t, c, e), t.status[c] # "Deleted", IsStub(t, c),
           NEW u, Own(u, t, c), u.abort = t.abort, NEW r, r = bgp_stop(u, c)
    PROVE  r.ret = "FAILURE_AND_DELETE" /\ Inv(r.s) /\ r.s.task = t.task
<1>1. Typed(u) /\ u.status = t.status /\ IsStub(u, c)
  BY Zenon DEF Own, Apart, IsStub
<1>2. r.ret = "FAILURE_AND_DELETE" /\ Gone(r.s, u, c)
  BY <1>1, StopDeletes, Zenon
<1>3. Gone(r.s, t, c)
  BY <1>2, SMTT(60) DEF Gone, Own, Apart, SameDevices
<1>4. c = Other(t.conf) /\ c # t.conf /\ Sound(t, c, e)
  BY Whose, Zenon DEF During, Sound
<1>5. QED
  BY <1>2, <1>3, <1>4, GoneInv, Zenon

\* bgp_stop and bgp_stop_with_notify of the configured peer's connection.
LEMMA PeerStopped ==
    ASSUME CancelRests, NEW t, NEW c \in Conns, NEW e, During(t, c, e), c = t.conf,
           NEW u, Own(u, t, c), u.abort = t.abort, NEW r, r = bgp_stop(u, c),
           NEW n, Leaves(t, c, e, n),
           t.status[c] = "Clearing" => n = "Clearing" /\ e # "Clearing_Completed" /\ u = t,
           NEW v, v = Moved(r.s, c, n)
    PROVE  r.ret = "SUCCESS" /\ Inv(v) /\ v.task = t.task /\ v.status[c] # "Deleted"
<1>1. Typed(u) /\ u.status = t.status /\ ~IsStub(u, c) /\ ~u.abort
  BY Zenon DEF Own, Apart, IsStub, During, Sound
<1>2. r.ret = "SUCCESS" /\ TornDown(r.s, u, c)
  BY <1>1, StopKeeps, Zenon
<1>3. PICK w : w = r.s
  BY Zenon
<1>4. Own(w, t, c)
  BY <1>2, <1>3, OwnTrans, SMTT(60) DEF TornDown
<1>5. Quieted(w, t, c)
  BY <1>1, <1>2, <1>3, <1>4, Zenon DEF TornDown, Quieted
<1>6. Emptied(w, t, c, e, n)
  BY <1>1, <1>2, <1>3, ZenonT(60) DEF TornDown, Emptied
<1>7. v = Moved(w, c, n)
  BY <1>3, Zenon
<1>8. Inv(v) /\ v.task = t.task /\ v.status[c] = n
  BY <1>5, <1>6, <1>7, StopSettles, SMTT(60)
<1>9. n # "Deleted"
  BY Zenon DEF Leaves
<1>10. QED
  BY <1>2, <1>8, <1>9, Zenon

\* The events that stop a connection.
LEMMA StopEvents ==
    ASSUME CancelRests, NEW t, NEW c \in Conns, NEW e \in FsmEvents, NEW result, During(t, c, e),
           t.status[c] # "Deleted", NEW f, NEW n, Row(t.status[c], e, f, n),
           f \in {"bgp_stop", "bgp_stop_with_notify"},
           f = FSM(t.status[c], e).func, n = FSM(t.status[c], e).next,
           NEW r, r = bgp_event_update(t, c, e, result)
    PROVE  Handled(r, t, c)
<1>1. PICK done : done = Call(f, t, c, result)
  BY Zenon
<1>2. Typed(t)
  BY Zenon DEF During, Sound
<1>3. PICK u : /\ done = bgp_stop(u, c) /\ Own(u, t, c) /\ u.abort = t.abort
               /\ f = "bgp_stop" => u = t
  <2>1. CASE f = "bgp_stop"
    BY <1>1, <1>2, <2>1, OwnSelf, Zenon DEF Call
  <2>2. CASE f = "bgp_stop_with_notify"
    <3>1. PICK u : u = bgp_notify_send(t, c)
      BY Zenon
    <3>2. Own(u, t, c) /\ u.abort = t.abort
      BY <1>2, <3>1, NotifyAdds, SMTT(60) DEF Adds
    <3>3. done = bgp_stop(u, c)
      BY <1>1, <2>2, <3>1, Zenon DEF Call, bgp_stop_with_notify
    <3>4. QED
      BY <2>2, <3>2, <3>3, Zenon
  <2>3. QED
    BY <2>1, <2>2, Zenon
<1>4. CASE IsStub(t, c)
  <2>1. done.ret = "FAILURE_AND_DELETE" /\ Inv(done.s) /\ done.s.task = t.task
    BY <1>3, <1>4, StubStopped, SMTT(60)
  <2>2. r.s = done.s /\ r.ret = "FSM_PEER_STOPPED"
    BY <1>1, <2>1, Removes, SMTT(60)
  <2>3. QED
    BY <2>1, <2>2, Zenon DEF Handled
<1>5. CASE ~IsStub(t, c)
  <2>1. c = t.conf
    BY <1>5, Whose, Zenon DEF During, Sound
  <2>2. /\ Leaves(t, c, e, n)
        /\ t.status[c] = "Clearing" => n = "Clearing" /\ e # "Clearing_Completed" /\ f = "bgp_stop"
    BY Zenon DEF Row, Leaves
  <2>3. PICK v : v = Moved(done.s, c, n)
    BY Zenon
  <2>4. done.ret = "SUCCESS" /\ Inv(v) /\ v.task = t.task /\ v.status[c] # "Deleted"
    BY <1>3, <2>1, <2>2, <2>3, PeerStopped, SMTT(60)
  <2>5. r.s = v /\ r.ret = "OK"
    <3>1. done = Call(FSM(t.status[c], e).func, t, c, result) /\ done.ret = "SUCCESS"
      BY <1>1, <2>3, <2>4, Zenon
    <3>2. v = Moved(done.s, c, FSM(t.status[c], e).next)
      BY <2>3, Zenon
    <3>3. QED
      BY <3>1, <3>2, Succeeds, SMTT(60)
  <2>6. QED
    BY <2>4, <2>5, Zenon DEF Handled
<1>6. QED
  BY <1>4, <1>5, Zenon

\* Clearing_Completed takes a Clearing connection to Idle and keeps the invariant.
LEMMA ClearingEvents ==
    ASSUME CancelRests, NEW t, NEW c \in Conns, NEW e, e = "Clearing_Completed", NEW result, During(t, c, e),
           t.status[c] = "Clearing",
           FSM(t.status[c], e).func = "bgp_clearing_completed", FSM(t.status[c], e).next = "Idle",
           NEW r, r = bgp_event_update(t, c, e, result)
    PROVE  Handled(r, t, c)
<1>1. PICK done : done = bgp_clearing_completed(t, c)
  BY Zenon
<1>2. Typed(t) /\ ~t.abort
  BY Zenon DEF During, Sound
<1>3. done = Call("bgp_clearing_completed", t, c, result)
  BY <1>1, Zenon DEF Call
<1>4. PICK stopped : stopped = bgp_stop(t, c)
  BY Zenon
<1>5. CASE IsStub(t, c)
  <2>1. stopped.ret = "FAILURE_AND_DELETE" /\ Inv(stopped.s) /\ stopped.s.task = t.task
    BY <1>2, <1>4, <1>5, StubStopped, OwnSelf, SMTT(60)
  <2>2. done = stopped
    BY <1>1, <1>4, <2>1, Zenon DEF bgp_clearing_completed
  <2>3. r.s = done.s /\ r.ret = "FSM_PEER_STOPPED"
    BY <1>3, <2>1, <2>2, Dispatch, SMTT(60)
  <2>4. QED
    BY <2>1, <2>2, <2>3, Zenon DEF Handled
<1>6. CASE ~IsStub(t, c)
  <2>1. c = t.conf
    BY <1>6, Whose, Zenon DEF During, Sound
  <2>2. /\ stopped.ret = "SUCCESS" /\ TornDown(stopped.s, t, c)
        /\ stopped = [s |-> stopped.s, ret |-> stopped.ret]
    BY <1>2, <1>4, <1>6, StopKeeps, Zenon
  <2>3. PICK w : w = stopped.s
    BY Zenon
  <2>4. PICK u : u = event_cancel_event_ready(w, c)
    BY Zenon
  <2>5. done.s = u /\ done.ret = "SUCCESS"
    BY <1>1, <1>4, <2>2, <2>3, <2>4, Zenon DEF bgp_clearing_completed
  <2>6. Own(w, t, c) /\ Typed(w)
    BY <2>2, <2>3, Zenon DEF TornDown, Own, Apart
  <2>7. /\ Own(u, w, c) /\ SameDevices(u, w, c) /\ u.abort = w.abort
        /\ \A g \in Events : ~Has(u, c, g)
    BY <2>4, <2>6, Cancels, Zenon
  <2>8. Own(u, t, c)
    BY <2>6, <2>7, OwnTrans, Zenon
  <2>9. Quieted(u, t, c)
    BY <1>2, <2>2, <2>3, <2>7, <2>8, Zenon DEF TornDown, SameDevices, Quieted
  <2>10. PICK v : v = Moved(u, c, "Idle")
    BY Zenon
  <2>11. Leaves(t, c, e, "Idle") /\ Emptied(u, t, c, e, "Idle")
    BY <2>7, Zenon DEF Leaves, Emptied
  <2>12. Inv(v) /\ v.task = t.task /\ v.status[c] = "Idle"
    BY <2>1, <2>9, <2>10, <2>11, StopSettles, SMTT(60)
  <2>13. r.s = v /\ r.ret = "OK"
    BY <1>3, <2>5, <2>10, Dispatch, SMTT(60)
  <2>14. QED
    BY <2>12, <2>13, Zenon DEF Handled
<1>7. QED
  BY <1>5, <1>6, Zenon

\* The state of a configured peer's connection that was stopped.
LEMMA Quiet ==
    ASSUME CancelRests, NEW t, NEW c \in Conns, Typed(t), ~t.abort, ~IsStub(t, c), t.status[c] # "Clearing",
           NEW r, r = bgp_stop(t, c)
    PROVE  /\ r.ret = "SUCCESS" /\ Quieted(r.s, t, c)
           /\ \A g \in Events : ~Has(r.s, c, g)
           /\ Guarded(r.s.queue, c)
<1>1. r.ret = "SUCCESS" /\ TornDown(r.s, t, c)
  BY StopKeeps, Zenon
<1>2. \A g \in Events : ~Has(r.s, c, g)
  BY <1>1, Zenon DEF TornDown
<1>3. Guarded(r.s.queue, c)
  <2>1. ~Has(r.s, c, "Clearing_Completed")
    BY <1>2, Named, Zenon
  <2>2. QED
    BY <2>1, NothingToGuard, Zenon DEF Has, Completion
<1>4. QED
  BY <1>1, <1>2, <1>3, Zenon DEF TornDown, Quieted

\* bgp_start and bgp_reconnect, with any result of the connect, keep the invariant.
LEMMA StartEvents ==
    ASSUME CancelRests, NEW t, NEW c \in Conns, NEW e, NEW result \in Results, During(t, c, e),
           t.status[c] # "Deleted", NEW f, NEW n, Row(t.status[c], e, f, n),
           f \in {"bgp_start", "bgp_reconnect"},
           f = FSM(t.status[c], e).func, n = FSM(t.status[c], e).next,
           NEW r, r = bgp_event_update(t, c, e, result)
    PROVE  Handled(r, t, c)
<1>1. Typed(t) /\ ~t.abort /\ Local(t, c, e, c) /\ (t.xfer_failed \/ Routes(t, c, e))
  BY Zenon DEF During, Sound
<1>2. n = "Connect"
  BY Zenon DEF Row
<1>3. CASE f = "bgp_start"
  <2>1. PICK done : done = bgp_start(t, c, result)
    BY Zenon
  <2>2. done = Call(f, t, c, result)
    BY <1>3, <2>1, Zenon DEF Call
  <2>3. \/ t.status[c] = "Idle" /\ e = "BGP_Start"
        \/ t.status[c] = "Active" /\ e = "ConnectRetry_timer_expired"
    BY <1>3, Zenon DEF Row
  <2>4. t.io[c] = "off" /\ t.check[c] = FALSE /\ t.ibuf[c] = <<>> /\ Quieted(t, t, c)
    <3>1. t.io[c] = "off" /\ t.check[c] = FALSE /\ t.ibuf[c] = <<>>
      BY <1>1, <2>3, Zenon DEF Local, Open, Typed
    <3>2. QED
      BY <1>1, <3>1, OwnSelf, Zenon DEF Quieted
  <2>5. ~Has(t, c, "TCP_connection_open")
    BY <1>1, <2>3, Zenon DEF Local, Open, Pends
  <2>6. t.xfer_failed \/ Guarded(t.queue, c)
    BY <1>1, <2>3, Zenon DEF Routes
  <2>7. done.ret = "SUCCESS"
    BY <1>1, <2>1, <2>4, Starts, SMTT(60)
  <2>8. PICK v : v = Moved(done.s, c, "Connect")
    BY Zenon
  <2>9. t.status[c] \in {"Idle", "Active", "Connect"}
    BY <2>3, Zenon
  <2>10. Inv(v) /\ v.task = t.task /\ v.status[c] # "Deleted"
    BY <2>1, <2>4, <2>5, <2>6, <2>8, <2>9, StartMove, SMTT(60)
  <2>11. r.s = v /\ r.ret = "OK"
    <3>1. done = Call(FSM(t.status[c], e).func, t, c, result) /\ done.ret = "SUCCESS"
      BY <1>2, <2>2, <2>7, <2>8, Zenon
    <3>2. v = Moved(done.s, c, FSM(t.status[c], e).next)
      BY <1>2, <2>8, Zenon
    <3>3. QED
      BY <3>1, <3>2, Succeeds, SMTT(60)
  <2>12. QED
    BY <2>10, <2>11, Zenon DEF Handled
<1>4. CASE f = "bgp_reconnect" /\ IsStub(t, c)
  <2>1. PICK done : done = bgp_stop(t, c)
    BY Zenon
  <2>2. done.ret = "FAILURE_AND_DELETE" /\ Inv(done.s) /\ done.s.task = t.task
    BY <1>1, <1>4, <2>1, StubStopped, OwnSelf, SMTT(60)
  <2>3. done = Call(f, t, c, result)
    BY <1>4, <2>1, <2>2, Zenon DEF Call, bgp_reconnect
  <2>4. r.s = done.s /\ r.ret = "FSM_PEER_STOPPED"
    BY <2>2, <2>3, Dispatch, SMTT(60)
  <2>5. QED
    BY <2>2, <2>4, Zenon DEF Handled
<1>5. CASE f = "bgp_reconnect" /\ ~IsStub(t, c)
  <2>1. PICK stopped : stopped = bgp_stop(t, c)
    BY Zenon
  <2>2. t.status[c] = "Connect"
    BY <1>5, Zenon DEF Row
  <2>3. /\ stopped.ret = "SUCCESS" /\ Quieted(stopped.s, t, c)
        /\ \A g \in Events : ~Has(stopped.s, c, g)
        /\ Guarded(stopped.s.queue, c)
    BY <1>1, <1>5, <2>1, <2>2, Quiet, ZenonT(60)
  <2>4. PICK u : u = stopped.s
    BY Zenon
  <2>5. PICK done : done = bgp_start(u, c, result)
    BY Zenon
  <2>6. done = Call(f, t, c, result)
    BY <1>5, <2>1, <2>3, <2>4, <2>5, Zenon DEF Call, bgp_reconnect
  <2>7. Typed(u) /\ u.status[c] # "Deleted" /\ ~u.abort /\ u.io[c] = "off"
    BY <2>3, <2>4, Zenon DEF Own, Apart, Quieted
  <2>8. done.ret = "SUCCESS"
    BY <2>5, <2>7, Starts, SMTT(60)
  <2>9. PICK v : v = Moved(done.s, c, "Connect")
    BY Zenon
  <2>10. Quieted(u, t, c) /\ Guarded(u.queue, c) /\ ~Has(u, c, "TCP_connection_open")
    BY <2>3, <2>4, Named, Zenon
  <2>11. t.status[c] \in {"Idle", "Active", "Connect"}
    BY <2>2, Zenon
  <2>12. Inv(v) /\ v.task = t.task /\ v.status[c] # "Deleted"
    BY <2>5, <2>9, <2>10, <2>11, StartMove, SMTT(60)
  <2>13. r.s = v /\ r.ret = "OK"
    <3>1. done = Call(FSM(t.status[c], e).func, t, c, result) /\ done.ret = "SUCCESS"
      BY <1>2, <2>6, <2>8, <2>9, Zenon
    <3>2. v = Moved(done.s, c, FSM(t.status[c], e).next)
      BY <1>2, <2>9, Zenon
    <3>3. QED
      BY <3>1, <3>2, Succeeds, SMTT(60)
  <2>14. QED
    BY <2>12, <2>13, Zenon DEF Handled
<1>6. QED
  BY <1>3, <1>4, <1>5, Zenon

\* bgp_connect_success sends an OPEN, or stops a connection whose socket is gone.
LEMMA ConnectEvents ==
    ASSUME CancelRests, NEW t, NEW c \in Conns, NEW e, e = "TCP_connection_open", NEW result, During(t, c, e),
           t.status[c] \in {"Connect", "Active"},
           FSM(t.status[c], e).func = "bgp_connect_success", FSM(t.status[c], e).next = "OpenSent",
           NEW r, r = bgp_event_update(t, c, e, result)
    PROVE  Handled(r, t, c)
<1>1. /\ Typed(t) /\ ~t.abort /\ t.status[c] # "Deleted" /\ Owners(t)
      /\ t.xfer_failed \/ Routes(t, c, e)
  BY Zenon DEF During, Sound
<1>2. PICK done : done = bgp_connect_success(t, c)
  BY Zenon
<1>3. done = Call("bgp_connect_success", t, c, result)
  BY <1>2, Zenon DEF Call
<1>4. CASE t.fd[c] = "none"
  <2>1. done = bgp_stop(t, c)
    BY <1>2, <1>4, Zenon DEF bgp_connect_success
  <2>2. CASE IsStub(t, c)
    <3>1. done.ret = "FAILURE_AND_DELETE" /\ Inv(done.s) /\ done.s.task = t.task
      BY <1>1, <2>1, <2>2, StubStopped, OwnSelf, SMTT(60)
    <3>2. r.s = done.s /\ r.ret = "FSM_PEER_STOPPED"
      BY <1>3, <3>1, Dispatch, SMTT(60)
    <3>3. QED
      BY <3>1, <3>2, Zenon DEF Handled
  <2>3. CASE ~IsStub(t, c)
    <3>1. c = t.conf
      BY <1>1, <2>3, Whose, Zenon
    <3>2. PICK u : u = done.s
      BY Zenon
    <3>3. /\ done.ret = "SUCCESS" /\ Own(u, t, c) /\ ~u.abort
          /\ u.io[c] = "off" /\ u.check[c] = FALSE /\ u.ibuf[c] = <<>>
          /\ \A g \in Events : ~Has(u, c, g)
          /\ Guarded(u.queue, c)
      <4>1. t.status[c] # "Clearing"
        BY Zenon
      <4>2. /\ done.ret = "SUCCESS" /\ Quieted(done.s, t, c)
            /\ \A g \in Events : ~Has(done.s, c, g)
            /\ Guarded(done.s.queue, c)
        BY <1>1, <2>1, <2>3, <4>1, Quiet, Zenon
      <4>3. QED
        BY <3>2, <4>2, Zenon DEF Quieted
    <3>4. PICK n \in Statuses \ {"Deleted"} : n = "OpenSent"
      BY Zenon DEF Statuses
    <3>5. Ready(u, c, n)
      BY <3>3, <3>4, Named, Zenon DEF Ready
    <3>6. t.xfer_failed \/ ReadyRoutes(u, c, n)
      <4>1. u.clear_node_queue = t.clear_node_queue /\ u.rib = t.rib
        BY <3>3, Zenon DEF Own, Apart
      <4>2. QED
        BY <1>1, <3>1, <3>3, <4>1, Zenon DEF Routes, ReadyRoutes
    <3>7. PICK v : v = Moved(u, c, n)
      BY Zenon
    <3>8. Inv(v) /\ v.task = t.task /\ v.status[c] # "Deleted"
      BY <1>1, <3>1, <3>3, <3>4, <3>5, <3>6, <3>7, OwnMove, SMTT(60)
    <3>9. r.s = v /\ r.ret = "OK"
      BY <1>3, <3>2, <3>3, <3>4, <3>7, Dispatch, SMTT(60)
    <3>10. QED
      BY <3>8, <3>9, Zenon DEF Handled
  <2>4. QED
    BY <2>2, <2>3, Zenon
<1>5. CASE t.fd[c] # "none" /\ ~bgp_getsockname(t, c)
  <2>1. PICK u : u = bgp_notify_send(t, c)
    BY Zenon
  <2>2. done.s = u /\ done.ret = "FAILURE"
    BY <1>2, <1>5, <2>1, Zenon DEF bgp_connect_success, Failure
  <2>3. /\ r.s = IF IsStub(t, c) THEN u ELSE Moved(bgp_stop(u, c).s, c, "Idle")
        /\ r.ret = "FSM_PEER_STOPPED"
    BY <1>3, <2>2, Dispatch, SMTT(60)
  <2>4. CASE IsStub(t, c)
    BY <2>1, <2>3, <2>4, ResetStub, Zenon DEF Handled
  <2>5. CASE ~IsStub(t, c)
    <3>1. c = t.conf
      BY <1>1, <2>5, Whose, Zenon
    <3>2. Own(u, t, c) /\ u.abort = t.abort
      BY <1>1, <2>1, NotifyAdds, Zenon DEF Adds
    <3>3. PICK stopped : stopped = bgp_stop(u, c)
      BY Zenon
    <3>4. Leaves(t, c, e, "Idle")
      BY Zenon DEF Leaves
    <3>5. PICK v : v = Moved(stopped.s, c, "Idle")
      BY Zenon
    <3>6. Inv(v) /\ v.task = t.task
      BY <3>1, <3>2, <3>3, <3>4, <3>5, PeerStopped, SMTT(60)
    <3>7. r.s = v
      BY <2>3, <2>5, <3>3, <3>4, <3>5, Zenon
    <3>8. QED
      BY <2>3, <3>6, <3>7, Zenon DEF Handled
  <2>6. QED
    BY <2>4, <2>5, Zenon
<1>6. CASE t.fd[c] # "none" /\ bgp_getsockname(t, c)
  <2>1. PICK u : u = bgp_reads_on(t, c)
    BY Zenon
  <2>2. done.s = u /\ done.ret = "SUCCESS"
    BY <1>2, <1>6, <2>1, Zenon DEF bgp_connect_success, Success
  <2>3. PICK v : v = Moved(u, c, "OpenSent")
    BY Zenon
  <2>4. Inv(v) /\ v.task = t.task /\ v.status[c] # "Deleted"
    BY <2>1, <2>3, ConnectedMove, SMTT(60)
  <2>5. r.s = v /\ r.ret = "OK"
    BY <1>3, <2>2, <2>3, Dispatch, SMTT(60)
  <2>6. QED
    BY <2>4, <2>5, Zenon DEF Handled
<1>7. QED
  BY <1>4, <1>5, <1>6, Zenon

-----------------------------------------------------------------------------
(* bgp_establish and peer_xfer_conn.                                       *)

\* u is t after peer_xfer_conn has given c, the stub's connection, to the
\* configured peer.
Swapped(u, t, c) ==
    /\ Typed(u)
    /\ u.conf = c /\ u.stub = t.stub /\ u.task = t.task /\ u.abort = t.abort
    /\ u.rib = t.rib /\ u.clear_node_queue = t.clear_node_queue
    /\ u.xfer_failed = t.xfer_failed /\ u.status = t.status
    /\ \A d \in Conns :
        /\ u.fd[d] = t.fd[d] /\ u.ibuf[d] = t.ibuf[d] /\ u.io[d] = "off" /\ u.check[d] = FALSE
        /\ u.timers[d] = t.timers[d] \ {"connect"}
        /\ \A g \in FsmEvents : Has(u, d, g) <=> Has(t, d, g)
        /\ Guarded(t.queue, d) => Guarded(u.queue, d)

\* What the two connections have after peer_xfer_conn has exchanged them.
LEMMA Swaps ==
    ASSUME CancelRests, NEW t, Typed(t), NEW c \in Conns, c # t.conf, NEW quiet,
           quiet = bgp_reads_off(bgp_reads_off(t, t.conf), c),
           NEW u, u = [quiet EXCEPT !.conf = c,
                          !.timers = [d \in Conns |-> @[d] \ {"connect"}],
                          !.check = [d \in Conns |-> FALSE]]
    PROVE  Swapped(u, t, c)
<1>1. PICK o \in Conns : o = t.conf
  BY Zenon DEF Typed
<1>2. PICK off : off = bgp_reads_off(t, o)
  BY Zenon
<1>3. /\ Own(off, t, o) /\ off.abort = t.abort /\ off.io[o] = "off"
      /\ off.fd = t.fd /\ off.check = t.check /\ off.timers = t.timers /\ off.ibuf = t.ibuf
      /\ \A g \in FsmEvents : Has(off, o, g) <=> Has(t, o, g)
      /\ Guarded(t.queue, o) => Guarded(off.queue, o)
  BY <1>2, ReadsOff, SMTT(60)
<1>4. quiet = bgp_reads_off(off, c) /\ Typed(off)
  BY <1>1, <1>2, <1>3, Zenon DEF Own, Apart
<1>5. /\ Own(quiet, off, c) /\ quiet.abort = off.abort /\ quiet.io[c] = "off"
      /\ quiet.fd = off.fd /\ quiet.check = off.check /\ quiet.timers = off.timers
      /\ quiet.ibuf = off.ibuf
      /\ \A g \in FsmEvents : Has(quiet, c, g) <=> Has(off, c, g)
      /\ Guarded(off.queue, c) => Guarded(quiet.queue, c)
  BY <1>4, ReadsOff, SMTT(60)
<1>6. Typed(quiet) /\ c # o /\ \A d \in Conns : d = c \/ d = o
  BY <1>1, <1>5, Two, SMTT(60) DEF Own, Apart
<1>7. /\ quiet.stub = t.stub /\ quiet.task = t.task /\ quiet.abort = t.abort
      /\ quiet.rib = t.rib /\ quiet.clear_node_queue = t.clear_node_queue
      /\ quiet.xfer_failed = t.xfer_failed /\ quiet.status = t.status
  BY <1>3, <1>5, Zenon DEF Own, Apart
<1>8. \A d \in Conns :
        /\ quiet.io[d] = "off"
        /\ \A g \in FsmEvents : Has(quiet, d, g) <=> Has(t, d, g)
        /\ Guarded(t.queue, d) => Guarded(quiet.queue, d)
  <2>1. /\ quiet.io[c] = "off" /\ quiet.io[o] = "off"
    BY <1>3, <1>5, <1>6, Zenon DEF Own, Apart, SameDevices
  <2>2. \A g \in FsmEvents : Has(quiet, c, g) <=> Has(t, c, g)
    BY <1>3, <1>5, <1>6, Zenon DEF Own, Apart
  <2>3. \A g \in FsmEvents : Has(quiet, o, g) <=> Has(t, o, g)
    BY <1>3, <1>5, <1>6, Zenon DEF Own, Apart
  <2>4. /\ Guarded(t.queue, c) => Guarded(quiet.queue, c)
        /\ Guarded(t.queue, o) => Guarded(quiet.queue, o)
    BY <1>3, <1>5, <1>6, Zenon DEF Own, Apart
  <2>5. QED
    BY <1>6, <2>1, <2>2, <2>3, <2>4, Zenon
<1>9. PICK timers : timers = [d \in Conns |-> quiet.timers[d] \ {"connect"}]
  BY Zenon
<1>10. PICK check : check = [d \in Conns |-> FALSE]
  BY Zenon
<1>11. timers \in [Conns -> SUBSET {"start", "connect", "hold"}] /\ check \in [Conns -> BOOLEAN]
  BY <1>6, <1>9, <1>10, Zenon DEF Typed
<1>12. u = [quiet EXCEPT !.conf = c, !.timers = timers, !.check = check]
  BY <1>9, <1>10, Zenon
<1>13. /\ Typed(u) /\ u.conf = c /\ u.timers = timers /\ u.check = check
       /\ u.stub = quiet.stub /\ u.task = quiet.task /\ u.abort = quiet.abort
       /\ u.rib = quiet.rib /\ u.clear_node_queue = quiet.clear_node_queue
       /\ u.xfer_failed = quiet.xfer_failed /\ u.status = quiet.status
       /\ u.fd = quiet.fd /\ u.ibuf = quiet.ibuf /\ u.io = quiet.io /\ u.queue = quiet.queue
  <2>1. Rec(quiet)
    BY <1>6, Zenon DEF Typed
  <2>2. Rec(u) /\ u.conf = c /\ u.timers = timers /\ u.check = check
    BY <1>12, <2>1 DEF Rec, Fields
  <2>3. /\ u.stub = quiet.stub /\ u.task = quiet.task /\ u.abort = quiet.abort
        /\ u.rib = quiet.rib /\ u.clear_node_queue = quiet.clear_node_queue
        /\ u.xfer_failed = quiet.xfer_failed /\ u.status = quiet.status
    BY <1>12, <2>1 DEF Rec, Fields
  <2>4. /\ u.fd = quiet.fd /\ u.ibuf = quiet.ibuf /\ u.io = quiet.io /\ u.queue = quiet.queue
        /\ u.larger = quiet.larger /\ u.nht = quiet.nht /\ u.sent = quiet.sent
        /\ u.processed = quiet.processed /\ u.established_peers = quiet.established_peers
    BY <1>12, <2>1 DEF Rec, Fields
  <2>5. QED
    BY <1>6, <1>11, <2>2, <2>3, <2>4, ZenonT(60) DEF Typed
<1>14. \A d \in Conns :
         /\ u.fd[d] = t.fd[d] /\ u.ibuf[d] = t.ibuf[d] /\ u.io[d] = "off" /\ u.check[d] = FALSE
         /\ u.timers[d] = t.timers[d] \ {"connect"}
  BY <1>3, <1>5, <1>8, <1>9, <1>10, <1>13
<1>15. \A d \in Conns :
         /\ \A g \in FsmEvents : Has(u, d, g) <=> Has(t, d, g)
         /\ Guarded(t.queue, d) => Guarded(u.queue, d)
  BY <1>8, <1>13, Zenon DEF Has
<1>16. QED
  BY <1>7, <1>13, <1>14, <1>15, ZenonT(60) DEF Swapped

\* A KEEPALIVE arrives on the stub's connection c.
Rising(t, c) ==
    /\ During(t, c, "Receive_KEEPALIVE_message")
    /\ t.status[c] = "OpenConfirm" /\ IsStub(t, c)

\* Both connections are told to stop.
Refused(y, u, t, c) ==
    y = [BGP_EVENT_ADD(BGP_EVENT_ADD(u, t.conf, "BGP_Stop"), c, "BGP_Stop")
            EXCEPT !.xfer_failed = TRUE]

\* The exchange fails: both connections are told to stop.
LEMMA ExchangeFails ==
    ASSUME NEW t, NEW c \in Conns, Rising(t, c), NEW u, Swapped(u, t, c),
           NEW y, Refused(y, u, t, c)
    PROVE  Inv(y) /\ y.task = t.task
<1> PICK e : e = "Receive_KEEPALIVE_message"
  BY Zenon
<1> During(t, c, e) /\ t.status[c] = "OpenConfirm" /\ IsStub(t, c)
  BY Zenon DEF Rising
<1>1. /\ Typed(t) /\ ~t.abort /\ Owners(t) /\ Typed(u) /\ \A d \in Conns : Local(t, c, e, d)
  BY Zenon DEF During, Sound, Swapped
<1>2. PICK o \in Conns : /\ o = t.conf /\ c # o /\ o = Other(c) /\ c = Other(o)
                         /\ \A d \in Conns : d = c \/ d = o
  BY <1>1, Two, ZenonT(60) DEF Typed, IsStub
<1>3. u.status = t.status /\ t.status[o] # "Deleted" /\ t.status[c] # "Deleted"
  BY <1>1, <1>2, Zenon DEF Swapped, Owners
<1>4. PICK a : a = BGP_EVENT_ADD(u, o, "BGP_Stop")
  BY Zenon
<1>5. Adds(a, u, o, "BGP_Stop")
  BY <1>1, <1>3, <1>4, EventAdds, Named, Zenon
<1>6. Typed(a) /\ a.status = t.status
  BY <1>3, <1>5, Zenon DEF Adds, Own, Apart
<1>7. PICK b : b = BGP_EVENT_ADD(a, c, "BGP_Stop")
  BY Zenon
<1>8. Adds(b, a, c, "BGP_Stop")
  BY <1>3, <1>6, <1>7, EventAdds, Named, Zenon
<1>9. Typed(b)
  BY <1>8, Zenon DEF Adds, Own, Apart
<1>10. y = [b EXCEPT !.xfer_failed = TRUE]
  BY <1>2, <1>4, <1>7, Zenon DEF Refused
<1>11. /\ Typed(y) /\ y.xfer_failed /\ y.queue = b.queue /\ y.conf = b.conf /\ y.stub = b.stub
       /\ y.status = b.status /\ y.abort = b.abort /\ y.task = b.task
       /\ \A d : SameDevices(y, b, d)
  BY <1>9, <1>10, Zenon DEF Typed, Rec, Fields, SameDevices
<1>12. /\ y.conf = c /\ y.stub = t.stub /\ y.status = t.status /\ ~y.abort /\ y.task = t.task
  BY <1>1, <1>5, <1>8, <1>11, SMTT(60) DEF Adds, Own, Apart, Swapped
<1>13. \A d \in Conns : SameDevices(y, u, d)
  <2>1. \A d \in Conns : SameDevices(a, u, d)
    BY <1>5, Zenon DEF Adds, Own, Apart
  <2>2. \A d \in Conns : SameDevices(b, a, d)
    BY <1>8, Zenon DEF Adds, Own, Apart
  <2>3. QED
    BY <1>11, <2>1, <2>2, SMTT(60) DEF SameDevices
<1>14. \A d \in Conns : \A g : Has(y, d, g) <=> Has(u, d, g) \/ g = "BGP_Stop"
  <2>1. \A d \in Conns : \A g : Has(a, d, g) <=> Has(u, d, g) \/ (d = o /\ g = "BGP_Stop")
    BY <1>5, Zenon DEF Adds, Own, Apart
  <2>2. \A d \in Conns : \A g : Has(b, d, g) <=> Has(a, d, g) \/ (d = c /\ g = "BGP_Stop")
    BY <1>8, Zenon DEF Adds, Own, Apart
  <2>3. \A d, g : Has(y, d, g) <=> Has(b, d, g)
    BY <1>11, Zenon DEF Has
  <2>4. QED
    BY <1>2, <2>1, <2>2, <2>3, Zenon
<1>15. \A d \in Conns : \A g : Pends(y, 0, "none", d, g) <=> Has(y, d, g)
  BY Waits, Zenon
<1>16. \A d \in Conns : Pends(y, 0, "none", d, "BGP_Stop") /\ Doomed(y, d)
  BY <1>14, <1>15, Zenon DEF Doomed
<1>17. ASSUME NEW d \in Conns PROVE Local(y, 0, "none", d)
  <2>1. Local(t, c, e, d)
    BY <1>1, Zenon
  <2>2. /\ y.io[d] = "off" /\ y.check[d] = FALSE /\ y.ibuf[d] = t.ibuf[d]
        /\ y.timers[d] = t.timers[d] \ {"connect"}
    BY <1>13, SMTT(60) DEF SameDevices, Swapped
  <2>3. Pends(y, 0, "none", d, "TCP_connection_open") => Pends(t, c, e, d, "TCP_connection_open")
    BY <1>14, <1>15, Named, Zenon DEF Swapped, Pends
  <2>4. "BGP_Stop" \in FsmEvents
    BY Named, Zenon
  <2>5. t.status[d] # "Deleted" /\ (d # c => d = t.conf)
    BY <1>2, <1>3, Zenon
  <2>6. QED
    BY <1>12, <1>16, <2>1, <2>2, <2>3, <2>4, <2>5, Zenon DEF Local, Open
<1>18. Owners(y) /\ Pair(y, 0, "none")
  BY <1>1, <1>2, <1>3, <1>12, <1>16, Zenon DEF Owners, Pair, Dooms, IsStub
<1>19. QED
  BY <1>11, <1>12, <1>17, <1>18, Zenon DEF Inv, During, Sound

\* The connection c that has won, after its session has come up.
Won(y, t, c) ==
    /\ Typed(y) /\ ~y.abort /\ y.conf = c /\ y.task = t.task
    /\ y.rib = t.rib /\ y.clear_node_queue = t.clear_node_queue /\ y.xfer_failed = t.xfer_failed
    /\ y.status[c] = "Established" /\ y.check[c] = FALSE /\ y.timers[c] = {"hold"}
    /\ \A g \in FsmEvents : Has(y, c, g) <=> Has(t, c, g)
    /\ Guarded(t.queue, c) => Guarded(y.queue, c)

\* The connection d that has lost: deleted, or told to stop.
Lost(y, t, d) ==
    /\ y.io[d] = "off" /\ y.check[d] = FALSE
    /\ \/ /\ ~y.stub /\ y.status[d] = "Deleted" /\ y.timers[d] = {} /\ y.ibuf[d] = <<>>
          /\ \A g \in Events : ~Has(y, d, g)
       \/ /\ y.stub /\ y.status[d] = t.status[d]
          /\ y.ibuf[d] = t.ibuf[d] /\ y.timers[d] = t.timers[d] \ {"connect"}
          /\ \A g \in FsmEvents : Has(y, d, g) <=> Has(t, d, g) \/ g = "BGP_Stop"
          /\ Guarded(t.queue, d) => Guarded(y.queue, d)

\* The invariant after a finished exchange: the winner is up, the loser stopped.
LEMMA Exchanged ==
    ASSUME NEW t, NEW c \in Conns, Rising(t, c), NEW y, Won(y, t, c), Lost(y, t, t.conf)
    PROVE  Inv(y) /\ y.task = t.task
<1> PICK e : e = "Receive_KEEPALIVE_message"
  BY Zenon
<1> During(t, c, e) /\ t.status[c] = "OpenConfirm" /\ IsStub(t, c)
  BY Zenon DEF Rising
<1>1. Typed(t) /\ Owners(t) /\ \A d \in Conns : Local(t, c, e, d)
  BY Zenon DEF During, Sound
<1>2. PICK o \in Conns : /\ o = t.conf /\ c # o /\ o = Other(c) /\ c = Other(o)
                         /\ \A d \in Conns : d = c \/ d = o
  BY <1>1, Two, Zenon DEF Typed, IsStub
<1>3. t.status[o] # "Deleted" /\ t.stub
  BY <1>1, <1>2, Zenon DEF Owners, IsStub
<1>4. \A d \in Conns : \A g : Pends(y, 0, "none", d, g) <=> Has(y, d, g)
  BY Waits, Zenon
<1>5. Lost(y, t, o)
  BY <1>2, Zenon
<1>6. Local(y, 0, "none", c)
  BY Zenon DEF Local, Won, Open
<1>7. Local(y, 0, "none", o)
  <2>1. CASE ~y.stub /\ y.status[o] = "Deleted" /\ y.timers[o] = {} /\ y.ibuf[o] = <<>>
             /\ \A g \in Events : ~Has(y, o, g)
    <3>1. ~Has(y, o, "TCP_connection_open")
      BY <2>1, Named, Zenon
    <3>2. QED
      BY <1>4, <1>5, <2>1, <3>1, Zenon DEF Local, Lost, Open
  <2>2. CASE /\ y.stub /\ y.status[o] = t.status[o]
             /\ y.ibuf[o] = t.ibuf[o] /\ y.timers[o] = t.timers[o] \ {"connect"}
             /\ \A g \in FsmEvents : Has(y, o, g) <=> Has(t, o, g) \/ g = "BGP_Stop"
    <3>1. Pends(y, 0, "none", o, "BGP_Stop") /\ "BGP_Stop" \in FsmEvents
      BY <1>4, <2>2, Named, Zenon
    <3>2. Pends(y, 0, "none", o, "TCP_connection_open") => Pends(t, c, e, o, "TCP_connection_open")
      BY <1>4, <2>2, Named, Zenon DEF Pends
    <3>3. y.conf # o /\ y.io[o] = "off" /\ y.check[o] = FALSE
      BY <1>2, <1>5, Zenon DEF Won, Lost
    <3>4. Local(t, c, e, o)
      BY <1>1, Zenon
    <3>5. QED
      BY <1>2, <1>3, <2>2, <3>1, <3>2, <3>3, <3>4, Zenon DEF Local, Open
  <2>3. QED
    BY <1>5, <2>1, <2>2, Zenon DEF Lost
<1>8. Owners(y)
  BY <1>2, <1>3, <1>5, SMTT(60) DEF Owners, Won, Lost
<1>9. Pair(y, 0, "none")
  <2>1. y.stub => Has(y, o, "BGP_Stop")
    BY <1>5, Named, Zenon DEF Lost
  <2>2. QED
    BY <1>2, <2>1, Zenon DEF Pair, Dooms, Doomed, Won
<1>10. t.xfer_failed \/ Routes(y, 0, "none")
  <2>1. SUFFICES ASSUME Routes(t, c, e) PROVE Routes(y, 0, "none")
    BY Zenon DEF During, Sound
  <2>2. Guarded(y.queue, c)
    BY <2>1, Zenon DEF Routes, Won
  <2>3. y.status[o] # "Clearing" => Guarded(y.queue, o)
    <3>1. CASE \A g \in Events : ~Has(y, o, g)
      <4>1. ~Has(y, o, "Clearing_Completed")
        BY <3>1, Named, Zenon
      <4>2. QED
        BY <4>1, NothingToGuard, Zenon DEF Has, Completion
    <3>2. CASE y.status[o] = t.status[o] /\ (Guarded(t.queue, o) => Guarded(y.queue, o))
      BY <1>2, <2>1, <3>2, Zenon DEF Routes
    <3>3. QED
      BY <1>5, <3>1, <3>2, Zenon DEF Lost
  <2>4. t.clear_node_queue => Doomed(y, c)
    <3>1. t.clear_node_queue => t.status[o] \in {"Established", "Clearing"}
      BY <1>2, <2>1, Zenon DEF Routes
    <3>2. t.clear_node_queue => Doomed(t, c)
      BY <1>2, <1>3, <3>1, Zenon DEF During, Pair, Dooms
    <3>3. QED
      BY <3>2, Named, Zenon DEF Doomed, Won
  <2>5. \A d \in Conns : y.status[d] # "Clearing" => Guarded(y.queue, d)
    BY <1>2, <2>2, <2>3, Zenon
  <2>6. y.clear_node_queue => Dooms(y, 0, "none", c)
    BY <2>4, Zenon DEF Won, Dooms
  <2>7. QED
    BY <2>5, <2>6, Zenon DEF Routes, Won, Conns
<1>11. \A d \in Conns : Local(y, 0, "none", d)
  BY <1>2, <1>6, <1>7, Zenon
<1>12. QED
  BY <1>8, <1>9, <1>10, <1>11, Zenon DEF Inv, During, Sound, Won

\* From the swap to the session: reads on, the packet task, the status.
LEMMA Rises ==
    ASSUME NEW t, Typed(t), ~t.abort, NEW c \in Conns, ~t.check[c], t.status[c] = "OpenConfirm",
           NEW u, u = bgp_reads_on(t, c), NEW w, w = AddTask(u, c, "bgp_process_packet"),
           NEW y, y = bgp_fsm_change_status(w, c, "Established")
    PROVE  /\ Apart(y, t, c) /\ ~y.abort /\ y.clear_node_queue = t.clear_node_queue
           /\ y.status = [t.status EXCEPT ![c] = "Established"]
           /\ ~y.check[c]
           /\ \A g \in FsmEvents : Has(y, c, g) <=> Has(t, c, g)
           /\ Guarded(t.queue, c) => Guarded(y.queue, c)
<1>1. /\ Own(u, t, c) /\ u.queue = t.queue /\ ~u.abort /\ u.check = t.check
  BY ReadsOn, Zenon
<1>2. Typed(u)
  BY <1>1, Zenon DEF Own, Apart
<1>3. PICK p \in Tasks : p = "bgp_process_packet"
  BY Zenon DEF Tasks
<1>4. Adds(w, u, c, p) /\ p # "Clearing_Completed"
  BY <1>2, <1>3, TaskAdds, Zenon
<1>5. /\ Own(w, t, c) /\ ~w.abort /\ ~w.check[c] /\ Typed(w)
      /\ w.status = t.status /\ w.clear_node_queue = t.clear_node_queue
  <2>1. Own(w, u, c) /\ w.abort = u.abort /\ SameDevices(w, u, c)
    BY <1>4, Zenon DEF Adds
  <2>2. Own(w, t, c)
    BY <1>1, <2>1, OwnTrans, Zenon
  <2>3. ~w.abort /\ ~w.check[c]
    BY <1>1, <2>1, Zenon DEF SameDevices
  <2>4. Typed(w) /\ w.status = t.status /\ w.clear_node_queue = t.clear_node_queue
    BY <2>2, Zenon DEF Own, Apart
  <2>5. QED
    BY <2>2, <2>3, <2>4, Zenon
<1>6. PICK st \in Statuses : st = "Established"
  BY Zenon DEF Statuses
<1>7. ChangedTo(y, w, c, st)
  BY <1>5, <1>6, Changes, Zenon
<1>8. y.clear_node_queue = w.clear_node_queue
  <2>1. Typed(y)
    BY <1>7, Zenon DEF ChangedTo, Apart
  <2>2. QED
    BY <1>5, <1>6, <1>7, <2>1, Zenon DEF ChangedTo, Typed
<1>9. Apart(y, t, c)
  BY <1>5, <1>7, SMTT(60) DEF ChangedTo, Own, Apart, SameDevices
<1>10. \A g \in FsmEvents : Has(y, c, g) <=> Has(t, c, g)
  <2>1. \A g : Has(u, c, g) <=> Has(t, c, g)
    BY <1>1, Zenon DEF Has
  <2>2. \A g \in FsmEvents : g # p
    BY Named, Zenon
  <2>3. \A g : Has(y, c, g) <=> Has(w, c, g)
    BY <1>6, <1>7, Zenon DEF ChangedTo
  <2>4. QED
    BY <1>4, <2>1, <2>2, <2>3, Zenon DEF Adds
<1>11. Guarded(t.queue, c) => Guarded(y.queue, c)
  BY <1>1, <1>4, <1>6, <1>7, Zenon DEF Adds, ChangedTo
<1>12. QED
  BY <1>5, <1>6, <1>7, <1>8, <1>9, <1>10, <1>11, Zenon DEF ChangedTo, SameDevices

\* The configured peer's own connection c comes up: the stub's, if there is
\* one, is deleted or told to stop.
LEMMA PeerUp ==
    ASSUME CancelRests, NEW t, NEW c \in Conns, NEW e, e = "Receive_KEEPALIVE_message", During(t, c, e),
           t.status[c] = "OpenConfirm", c = t.conf,
           NEW up, up = bgp_fsm_change_status(t, c, "Established"),
           NEW w, w = (IF up.stub THEN CloseOther(up, c) ELSE up),
           NEW y, y = Moved(w, c, "Established")
    PROVE  Inv(y) /\ y.task = t.task /\ y.status[c] # "Deleted"
<1>1. Typed(t) /\ ~t.abort /\ Owners(t) /\ Sound(t, c, e) /\ Local(t, c, e, c)
  BY Zenon DEF During, Sound
<1>2. PICK st \in Statuses \ {"Deleted"} : st = "Established"
  BY Zenon DEF Statuses
<1>3. PICK x : x = Moved(t, c, st)
  BY Zenon
<1>4. Sound(x, 0, "none") /\ MovedTo(x, t, c, st)
  <2>1. Ready(t, c, st)
    BY <1>1, <1>2, Zenon DEF Ready, Local, Open, Pends
  <2>2. t.xfer_failed \/ ReadyRoutes(t, c, st)
    BY <1>1, <1>2, Zenon DEF Sound, Routes, ReadyRoutes
  <2>3. QED
    BY <1>1, <1>3, <2>1, <2>2, OwnSelf, Settles, Zenon
<1>5. ChangedTo(up, t, c, st)
  BY <1>1, <1>2, Changes, Zenon
<1>6. /\ Typed(up) /\ up.conf = c /\ up.stub = t.stub /\ up.status[c] = "Established"
      /\ up.status = x.status /\ up.abort = x.abort
      /\ x.conf = c /\ x.stub = t.stub /\ x.task = t.task /\ Typed(x)
  <2>1. /\ Typed(up) /\ up.conf = t.conf /\ up.stub = t.stub /\ up.abort = t.abort
        /\ up.status = [t.status EXCEPT ![c] = st]
    BY <1>5, Zenon DEF ChangedTo, Apart
  <2>2. /\ Typed(x) /\ x.conf = t.conf /\ x.stub = t.stub /\ x.abort = t.abort /\ x.task = t.task
        /\ x.status = [t.status EXCEPT ![c] = st]
    BY <1>4, Zenon DEF MovedTo, Apart
  <2>3. t.status \in [Conns -> Statuses]
    BY <1>1, Zenon DEF Typed
  <2>4. up.status[c] = st
    BY <2>1, <2>3, Zenon
  <2>5. QED
    BY <1>2, <2>1, <2>2, <2>4, Zenon
<1>7. x = bgp_timer_set(up, c)
  BY <1>2, <1>3, Zenon DEF Moved
<1>8. /\ Own(x, up, c) /\ x.queue = up.queue /\ x.abort = up.abort
      /\ x.fd = up.fd /\ x.check = up.check /\ x.io = up.io /\ x.ibuf = up.ibuf
      /\ x.timers[c] = Armed("Established")
  BY <1>6, <1>7, TimersSet, SMTT(60)
<1>9. PICK o \in Conns : o = Other(c) /\ o # c /\ \A d \in Conns : d = c \/ d = o
  BY Two, Zenon
<1>10. CASE ~up.stub
  <2>1. y = x
    BY <1>6, <1>7, <1>10, Zenon DEF Moved
  <2>2. Pair(x, 0, "none")
    BY <1>6, <1>10, Zenon DEF Pair
  <2>3. QED
    BY <1>4, <1>6, <2>1, <2>2, Zenon DEF Inv, During
<1>11. CASE up.stub /\ up.status[o] \in {"OpenSent", "OpenConfirm", "Established", "Clearing"}
  <2>1. w = bgp_notify_send(up, o)
    BY <1>9, <1>11, Zenon DEF CloseOther
  <2>2. PICK k \in {"BGP_Stop", "TCP_fatal_error"} : Adds(w, up, o, k)
    BY <1>6, <1>11, <2>1, NotifyAdds, SMTT(60)
  <2>3. Typed(w) /\ w.status = up.status /\ w.status[c] = "Established"
    BY <1>6, <2>2, Zenon DEF Adds, Own, Apart
  <2>4. y = bgp_timer_set(w, c)
    BY <2>3, Zenon DEF Moved
  <2>5. /\ Own(y, w, c) /\ y.queue = w.queue /\ y.abort = w.abort
        /\ y.fd = w.fd /\ y.check = w.check /\ y.io = w.io /\ y.ibuf = w.ibuf
        /\ y.timers[c] = Armed("Established")
    BY <2>3, <2>4, TimersSet, SMTT(60)
  <2>6. Adds(y, x, o, k)
    <3>1. SameDevices(y, x, c) /\ SameDevices(y, x, o)
      <4>1. SameDevices(w, up, c) /\ SameDevices(w, up, o)
        BY <1>9, <2>2, Zenon DEF Adds, Own, Apart
      <4>2. SameDevices(x, up, o) /\ SameDevices(y, w, o)
        BY <1>8, <1>9, <2>5, Zenon DEF Own, Apart
      <4>3. SameDevices(y, x, o)
        BY <4>1, <4>2, ZenonT(60) DEF SameDevices
      <4>4. SameDevices(y, x, c)
        <5>1. /\ y.fd[c] = w.fd[c] /\ y.check[c] = w.check[c] /\ y.io[c] = w.io[c]
              /\ y.ibuf[c] = w.ibuf[c]
          BY <2>5, Zenon
        <5>2. /\ x.fd[c] = up.fd[c] /\ x.check[c] = up.check[c] /\ x.io[c] = up.io[c]
              /\ x.ibuf[c] = up.ibuf[c] /\ y.timers[c] = x.timers[c]
          BY <1>8, <2>5, Zenon
        <5>3. /\ w.fd[c] = up.fd[c] /\ w.check[c] = up.check[c] /\ w.io[c] = up.io[c]
              /\ w.ibuf[c] = up.ibuf[c]
          BY <4>1, Zenon DEF SameDevices
        <5>4. QED
          BY <5>1, <5>2, <5>3, Zenon DEF SameDevices
      <4>5. QED
        BY <4>3, <4>4, Zenon
    <3>2. /\ Typed(y) /\ y.conf = x.conf /\ y.stub = x.stub /\ y.task = x.task /\ y.rib = x.rib
          /\ y.xfer_failed = x.xfer_failed /\ y.status = x.status
          /\ y.clear_node_queue = x.clear_node_queue /\ y.abort = x.abort
      BY <1>8, <2>2, <2>5, ZenonT(60) DEF Adds, Own, Apart
    <3>3. \A d, g : (Has(y, d, g) <=> Has(w, d, g)) /\ (Has(x, d, g) <=> Has(up, d, g))
      BY <1>8, <2>5, Zenon DEF Has
    <3>4. /\ \A g : Has(y, c, g) <=> Has(x, c, g)
          /\ \A g : Has(y, o, g) <=> Has(x, o, g) \/ g = k
      BY <1>9, <2>2, <3>3, Zenon DEF Adds, Own, Apart
    <3>5. /\ Guarded(x.queue, c) => Guarded(y.queue, c)
          /\ Guarded(x.queue, o) => Guarded(y.queue, o)
      BY <1>8, <1>9, <2>2, <2>5, Zenon DEF Adds, Own, Apart
    <3>6. QED
      BY <1>9, <3>1, <3>2, <3>4, <3>5, ZenonT(60) DEF Adds, Own, Apart
  <2>7. x.status[o] # "Deleted" /\ Plain(x, o, k)
    BY <1>6, <1>11, Zenon DEF Plain
  <2>8. Sound(y, 0, "none") /\ Pair(y, 0, "none")
    BY <1>4, <1>6, <1>9, <2>6, <2>7, AddsSound, Zenon
  <2>9. y.task = t.task /\ y.status[c] = "Established"
    BY <1>6, <2>6, ZenonT(60) DEF Adds, Own, Apart
  <2>10. QED
    BY <2>8, <2>9, Zenon DEF Inv, During
<1>12. CASE up.stub /\ up.status[o] \notin {"OpenSent", "OpenConfirm", "Established", "Clearing"}
  <2>1. w = peer_delete(up, o)
    BY <1>9, <1>12, Zenon DEF CloseOther
  <2>2. up.status[o] # "Deleted"
    <3>1. t.status[o] # "Deleted"
      BY <1>1, <1>6, <1>9, <1>12, Zenon DEF Owners
    <3>2. QED
      BY <1>1, <1>5, <1>9, <3>1, Zenon DEF ChangedTo, Typed
  <2>3. Gone(w, up, o)
    BY <1>6, <1>9, <2>1, <2>2, Deletes, Zenon
  <2>4. Typed(w) /\ w.status[c] = "Established"
    <3>1. Typed(w) /\ w.status = [up.status EXCEPT ![o] = "Deleted"]
      BY <2>3, Zenon DEF Gone
    <3>2. up.status \in [Conns -> Statuses]
      BY <1>6, Zenon DEF Typed
    <3>3. QED
      BY <1>6, <1>9, <3>1, <3>2, SMTT(60)
  <2>5. y = bgp_timer_set(w, c)
    BY <2>4, Zenon DEF Moved
  <2>6. /\ Own(y, w, c) /\ y.queue = w.queue /\ y.abort = w.abort
        /\ y.fd = w.fd /\ y.check = w.check /\ y.io = w.io /\ y.ibuf = w.ibuf
        /\ y.timers[c] = Armed("Established")
    BY <2>4, <2>5, TimersSet, SMTT(60)
  <2>7. Gone(y, x, o)
    <3>1. /\ SameDevices(y, x, c) /\ SameDevices(y, w, o)
      <4>1. SameDevices(w, up, c)
        BY <1>9, <2>3, Zenon DEF Gone
      <4>2. SameDevices(y, w, o)
        BY <1>9, <2>6, Zenon DEF Own, Apart
      <4>3. SameDevices(y, x, c)
        BY <1>8, <2>6, <4>1, ZenonT(60) DEF SameDevices
      <4>4. QED
        BY <4>2, <4>3, Zenon
    <3>2. /\ Typed(y) /\ y.conf = x.conf /\ ~y.stub /\ y.task = x.task /\ y.rib = x.rib
          /\ y.xfer_failed = x.xfer_failed /\ y.status = [x.status EXCEPT ![o] = "Deleted"]
          /\ y.clear_node_queue = x.clear_node_queue /\ y.abort = x.abort
      <4>1. /\ w.conf = up.conf /\ ~w.stub /\ w.task = up.task /\ w.rib = up.rib
            /\ w.xfer_failed = up.xfer_failed /\ w.status = [up.status EXCEPT ![o] = "Deleted"]
            /\ w.clear_node_queue = up.clear_node_queue /\ w.abort = up.abort
        BY <2>3, Zenon DEF Gone
      <4>2. /\ Typed(y) /\ y.conf = w.conf /\ y.stub = w.stub /\ y.task = w.task /\ y.rib = w.rib
            /\ y.xfer_failed = w.xfer_failed /\ y.status = w.status
            /\ y.clear_node_queue = w.clear_node_queue /\ y.abort = w.abort
        BY <2>6, Zenon DEF Own, Apart
      <4>3. /\ x.conf = up.conf /\ x.task = up.task /\ x.rib = up.rib
            /\ x.xfer_failed = up.xfer_failed /\ x.status = up.status
            /\ x.clear_node_queue = up.clear_node_queue /\ x.abort = up.abort
        BY <1>8, Zenon DEF Own, Apart
      <4>4. QED
        BY <4>1, <4>2, <4>3, Zenon
    <3>3. \A d, g : (Has(y, d, g) <=> Has(w, d, g)) /\ (Has(x, d, g) <=> Has(up, d, g))
      BY <1>8, <2>6, Zenon DEF Has
    <3>4. /\ \A g : Has(y, c, g) <=> Has(x, c, g)
          /\ \A g \in Events : ~Has(y, o, g)
          /\ Guarded(x.queue, c) => Guarded(y.queue, c)
      <4>1. /\ \A g : Has(w, c, g) <=> Has(up, c, g)
            /\ Guarded(up.queue, c) => Guarded(w.queue, c)
            /\ \A g \in Events : ~Has(w, o, g)
        BY <1>9, <2>3, ZenonT(60) DEF Gone
      <4>2. QED
        BY <1>8, <2>6, <3>3, <4>1, Zenon
    <3>5. y.check[o] = FALSE /\ y.io[o] = "off" /\ y.timers[o] = {} /\ y.ibuf[o] = <<>>
      <4>1. w.check[o] = FALSE /\ w.io[o] = "off" /\ w.timers[o] = {} /\ w.ibuf[o] = <<>>
        BY <2>3, Zenon DEF Gone
      <4>2. QED
        BY <3>1, <4>1, ZenonT(60) DEF SameDevices
    <3>6. QED
      <4>1. \A d \in Conns : d # o => d = c
        BY <1>9, Zenon
      <4>2. \A d \in Conns : d # o =>
              /\ SameDevices(y, x, d)
              /\ \A g : Has(y, d, g) <=> Has(x, d, g)
              /\ Guarded(x.queue, d) => Guarded(y.queue, d)
        BY <3>1, <3>4, <4>1, Zenon
      <4>3. QED
        BY <3>2, <3>4, <3>5, <4>2, Zenon DEF Gone
  <2>8. 0 # x.conf /\ o = Other(x.conf)
    BY <1>6, <1>9, Two, Zenon
  <2>9. Inv(y) /\ y.task = x.task
    BY <1>4, <2>7, <2>8, GoneInv, Zenon
  <2>10. y.status[c] = "Established"
    BY <2>4, <2>6, ZenonT(60) DEF Own, Apart
  <2>11. QED
    BY <1>6, <2>9, <2>10, Zenon
<1>13. QED
  BY <1>10, <1>11, <1>12, Zenon

\* What y and t agree on beside the connections.
Scalars(y, t) ==
    /\ y.task = t.task /\ y.rib = t.rib /\ y.clear_node_queue = t.clear_node_queue
    /\ y.xfer_failed = t.xfer_failed

\* Connection d keeps its events.
Holds(y, t, d) ==
    /\ \A g \in FsmEvents : Has(y, d, g) <=> Has(t, d, g)
    /\ Guarded(t.queue, d) => Guarded(y.queue, d)

\* Connection d is left alone.
Alike(y, t, d) ==
    /\ SameDevices(y, t, d) /\ y.status[d] = t.status[d]
    /\ \A g : Has(y, d, g) <=> Has(t, d, g)
    /\ Guarded(t.queue, d) => Guarded(y.queue, d)

\* Connection d has been deleted.
Out(y, d) ==
    /\ y.status[d] = "Deleted"
    /\ y.check[d] = FALSE /\ y.io[d] = "off" /\ y.timers[d] = {} /\ y.ibuf[d] = <<>>
    /\ \A g \in Events : ~Has(y, d, g)

\* Two such changes, one after the other.
LEMMA Compose ==
    ASSUME NEW t, NEW u, NEW y, NEW d
    PROVE  /\ Scalars(u, t) /\ Scalars(y, u) => Scalars(y, t)
           /\ Holds(u, t, d) /\ Holds(y, u, d) => Holds(y, t, d)
           /\ Alike(u, t, d) => Holds(u, t, d)
           /\ Out(u, d) /\ Alike(y, u, d) => Out(y, d)
<1>1. Scalars(u, t) /\ Scalars(y, u) => Scalars(y, t)
  BY Zenon DEF Scalars
<1>2. Holds(u, t, d) /\ Holds(y, u, d) => Holds(y, t, d)
  BY Zenon DEF Holds
<1>3. Alike(u, t, d) => Holds(u, t, d)
  BY Zenon DEF Alike, Holds
<1>4. Out(u, d) /\ Alike(y, u, d) => Out(y, d)
  BY Zenon DEF Out, Alike, SameDevices
<1>5. QED
  BY <1>1, <1>2, <1>3, <1>4, Zenon

\* A connection o that is deleted, and the other one.
LEMMA GoneSame ==
    ASSUME NEW t, Typed(t), NEW c \in Conns, NEW o \in Conns, c # o, NEW y, Gone(y, t, o)
    PROVE  /\ Typed(y) /\ Scalars(y, t) /\ y.conf = t.conf /\ ~y.stub /\ y.abort = t.abort
           /\ Alike(y, t, c) /\ Out(y, o)
<1>1. /\ Typed(y) /\ Scalars(y, t) /\ y.conf = t.conf /\ ~y.stub /\ y.abort = t.abort
      /\ y.status = [t.status EXCEPT ![o] = "Deleted"]
  BY Zenon DEF Gone, Scalars
<1>2. /\ SameDevices(y, t, c) /\ \A g : Has(y, c, g) <=> Has(t, c, g)
      /\ Guarded(t.queue, c) => Guarded(y.queue, c)
  BY Zenon DEF Gone
<1>3. /\ y.check[o] = FALSE /\ y.io[o] = "off" /\ y.timers[o] = {} /\ y.ibuf[o] = <<>>
      /\ \A g \in Events : ~Has(y, o, g)
  BY Zenon DEF Gone
<1>4. t.status \in [Conns -> Statuses]
  BY Zenon DEF Typed
<1>5. y.status[o] = "Deleted" /\ y.status[c] = t.status[c]
  BY <1>1, <1>4, Zenon
<1>6. Alike(y, t, c)
  BY <1>2, <1>5, Zenon DEF Alike
<1>7. Out(y, o)
  BY <1>3, <1>5, Zenon DEF Out
<1>8. QED
  BY <1>1, <1>6, <1>7, Zenon

\* c is ready to change, with status st.
Before(t, c, st) == Typed(t) /\ ~t.abort /\ ~t.check[c] /\ t.status[c] = st

\* c has come up, and o is left alone.
After(y, t, c, o) ==
    /\ Typed(y) /\ Scalars(y, t) /\ y.conf = t.conf /\ y.stub = t.stub /\ ~y.abort
    /\ y.status[c] = "Established" /\ y.check[c] = FALSE /\ Holds(y, t, c) /\ Alike(y, t, o)

\* bgp_reads_on, the packet task and bgp_fsm_change_status.
Brought(y, t, c) ==
    y = bgp_fsm_change_status(AddTask(bgp_reads_on(t, c), c, "bgp_process_packet"),
                              c, "Established")

\* c comes up and o is left alone.
LEMMA RaisedSame ==
    ASSUME NEW t, NEW c \in Conns, Before(t, c, "OpenConfirm"), NEW o \in Conns, c # o,
           NEW y, Brought(y, t, c)
    PROVE  After(y, t, c, o)
<1> Typed(t) /\ ~t.abort /\ ~t.check[c] /\ t.status[c] = "OpenConfirm"
  BY Zenon DEF Before
<1>1. PICK u : u = bgp_reads_on(t, c)
  BY Zenon
<1>2. PICK w : w = AddTask(u, c, "bgp_process_packet")
  BY Zenon
<1>3. y = bgp_fsm_change_status(w, c, "Established")
  BY <1>1, <1>2, Zenon DEF Brought
<1>4. /\ Apart(y, t, c) /\ ~y.abort /\ y.clear_node_queue = t.clear_node_queue
      /\ y.status = [t.status EXCEPT ![c] = "Established"]
      /\ ~y.check[c]
      /\ \A g \in FsmEvents : Has(y, c, g) <=> Has(t, c, g)
      /\ Guarded(t.queue, c) => Guarded(y.queue, c)
  BY <1>1, <1>2, <1>3, Rises, SMTT(60)
<1>5. t.status \in [Conns -> Statuses]
  BY Zenon DEF Typed
<1>6. y.status[c] = "Established" /\ y.status[o] = t.status[o]
  BY <1>4, <1>5, Zenon
<1>7. /\ SameDevices(y, t, o) /\ \A g : Has(y, o, g) <=> Has(t, o, g)
      /\ Guarded(t.queue, o) => Guarded(y.queue, o)
  BY <1>4, Zenon DEF Apart
<1>8. Alike(y, t, o)
  BY <1>6, <1>7, Zenon DEF Alike
<1>9. Holds(y, t, c)
  BY <1>4, Zenon DEF Holds
<1>10. Typed(y) /\ Scalars(y, t) /\ y.conf = t.conf /\ y.stub = t.stub
  BY <1>4, Zenon DEF Apart, Scalars
<1>11. y.check[c] = FALSE
  BY <1>4, <1>10, ZenonT(60) DEF Typed
<1>12. QED
  BY <1>4, <1>6, <1>8, <1>9, <1>10, <1>11, Zenon DEF After

\* The timers of c are set and o is left alone.
LEMMA TimedSame ==
    ASSUME NEW t, NEW c \in Conns, Before(t, c, "Established"), NEW o \in Conns, c # o,
           NEW y, y = Moved(t, c, "Established")
    PROVE  After(y, t, c, o) /\ y.timers[c] = {"hold"}
<1> Typed(t) /\ ~t.abort /\ ~t.check[c] /\ t.status[c] = "Established"
  BY Zenon DEF Before
<1>1. y = bgp_timer_set(t, c)
  BY Zenon DEF Moved
<1>2. /\ Own(y, t, c) /\ y.queue = t.queue /\ y.abort = t.abort
      /\ y.fd = t.fd /\ y.check = t.check /\ y.io = t.io /\ y.ibuf = t.ibuf
      /\ y.timers[c] = Armed(t.status[c])
  BY <1>1, TimersSet, Zenon
<1>3. /\ Typed(y) /\ Scalars(y, t) /\ y.conf = t.conf /\ y.stub = t.stub /\ y.status = t.status
      /\ SameDevices(y, t, o) /\ \A g : Has(y, o, g) <=> Has(t, o, g)
      /\ Guarded(t.queue, o) => Guarded(y.queue, o)
  BY <1>2, Zenon DEF Own, Apart, Scalars
<1>4. Alike(y, t, o)
  BY <1>3, Zenon DEF Alike
<1>5. Holds(y, t, c)
  BY <1>2, Zenon DEF Holds, Has
<1>6. y.check[c] = FALSE /\ y.timers[c] = {"hold"}
  BY <1>2, <1>3, SMTT(60) DEF Armed, Typed
<1>7. QED
  BY <1>2, <1>3, <1>4, <1>5, <1>6, Zenon DEF After

\* c has come up in v, and the timers are set.
LEMMA CameUp ==
    ASSUME NEW t, NEW c \in Conns, NEW o \in Conns, c # o, NEW u, Swapped(u, t, c),
           NEW v, Before(v, c, "Established"), v.conf = c, Scalars(v, u), Holds(v, u, c), NEW y, y = Moved(v, c, "Established")
    PROVE  Won(y, t, c) /\ Alike(y, v, o) /\ y.stub = v.stub
<1>0. After(y, v, c, o) /\ y.timers[c] = {"hold"}
  BY TimedSame, Zenon
<1>1. /\ Typed(y) /\ Scalars(y, v) /\ y.conf = v.conf /\ y.stub = v.stub /\ ~y.abort
      /\ y.status[c] = "Established" /\ y.check[c] = FALSE /\ y.timers[c] = {"hold"}
      /\ Holds(y, v, c) /\ Alike(y, v, o)
  BY <1>0, Zenon DEF After
<1>2. Scalars(u, t) /\ Holds(u, t, c)
  BY Zenon DEF Swapped, Scalars, Holds
<1>3. Scalars(y, u) /\ Holds(y, u, c)
  BY <1>1, Compose, Zenon
<1>4. Scalars(y, t) /\ Holds(y, t, c)
  BY <1>2, <1>3, Compose, Zenon
<1>5. Won(y, t, c)
  BY <1>1, <1>4, Zenon DEF Won, Scalars, Holds
<1>6. QED
  BY <1>1, <1>5, Zenon

\* The configured peer's connection had lost its socket: it is deleted.
LEMMA LostUp ==
    ASSUME CancelRests, NEW t, NEW c \in Conns, NEW o \in Conns, c # o, Typed(t), ~t.abort, t.stub,
           t.status[c] = "OpenConfirm", t.status[o] # "Deleted",
           NEW u, Swapped(u, t, c), NEW k, k = bgp_stop(u, o).s,
           NEW up, Brought(up, k, c), NEW y, y = Moved(up, c, "Established")
    PROVE  ~up.stub /\ Won(y, t, c) /\ Lost(y, t, o)
<1>1. /\ Typed(u) /\ u.conf = c /\ u.stub /\ ~u.abort /\ u.status = t.status /\ u.check[c] = FALSE
  BY Zenon DEF Swapped
<1>2. IsStub(u, o)
  BY <1>1, Zenon DEF IsStub
<1>3. Gone(k, u, o)
  BY <1>1, <1>2, StopDeletes, Zenon
<1>4. /\ Typed(k) /\ Scalars(k, u) /\ k.conf = u.conf /\ ~k.stub /\ k.abort = u.abort
      /\ Alike(k, u, c) /\ Out(k, o)
  BY <1>1, <1>3, GoneSame, SMTT(60)
<1>5. Before(k, c, "OpenConfirm")
  BY <1>1, <1>4, SMTT(60) DEF Alike, SameDevices, Before
<1>6. /\ Typed(up) /\ Scalars(up, k) /\ up.conf = k.conf /\ up.stub = k.stub /\ ~up.abort
      /\ up.status[c] = "Established" /\ ~up.check[c] /\ Holds(up, k, c) /\ Alike(up, k, o)
  <2>1. After(up, k, c, o)
    BY <1>5, RaisedSame, Zenon
  <2>2. QED
    BY <2>1, Zenon DEF After
<1>7. Scalars(up, u) /\ Holds(up, u, c) /\ Out(up, o) /\ up.conf = c /\ ~up.stub
  BY <1>1, <1>4, <1>6, Compose, SMTT(60)
<1>8. Won(y, t, c) /\ Alike(y, up, o) /\ y.stub = up.stub
  <2>1. Before(up, c, "Established")
    BY <1>6, Zenon DEF Before
  <2>2. QED
    BY <1>7, <2>1, CameUp, SMTT(60)
<1>9. Out(y, o)
  BY <1>7, <1>8, Compose, Zenon
<1>10. Lost(y, t, o)
  BY <1>7, <1>8, <1>9, Zenon DEF Lost, Out
<1>11. QED
  BY <1>7, <1>8, <1>10, Zenon

\* It had not: it is deleted or told to stop at the end of bgp_establish.
LEMMA KeptUp ==
    ASSUME CancelRests, NEW t, NEW c \in Conns, NEW o \in Conns, c # o, o = Other(c), Typed(t), ~t.abort, t.stub,
           t.status[c] = "OpenConfirm", t.status[o] # "Deleted",
           t.status[o] \in {"OpenSent", "OpenConfirm", "Established", "Clearing"} =>
               bgp_getsockname(t, o),
           NEW u, Swapped(u, t, c),
           NEW up, Brought(up, u, c), NEW w, w = CloseOther(up, c),
           NEW y, y = Moved(w, c, "Established")
    PROVE  up.stub /\ Won(y, t, c) /\ Lost(y, t, o)
<1>1. /\ Typed(u) /\ u.conf = c /\ u.stub /\ ~u.abort /\ u.status = t.status /\ u.check[c] = FALSE
      /\ u.fd[o] = t.fd[o] /\ u.ibuf[o] = t.ibuf[o] /\ u.io[o] = "off" /\ u.check[o] = FALSE
      /\ u.timers[o] = t.timers[o] \ {"connect"}
  BY Zenon DEF Swapped
<1>2. Holds(u, t, o)
  BY Zenon DEF Swapped, Holds
<1>3. /\ Typed(up) /\ Scalars(up, u) /\ up.conf = u.conf /\ up.stub = u.stub /\ ~up.abort
      /\ up.status[c] = "Established" /\ ~up.check[c] /\ Holds(up, u, c) /\ Alike(up, u, o)
  <2>1. Before(u, c, "OpenConfirm")
    BY <1>1, Zenon DEF Before
  <2>2. After(up, u, c, o)
    BY <2>1, RaisedSame, Zenon
  <2>3. QED
    BY <2>2, Zenon DEF After
<1>4. up.status[o] = t.status[o] /\ up.fd[o] = t.fd[o]
  BY <1>1, <1>3, ZenonT(60) DEF Alike, SameDevices
<1>5. CASE t.status[o] \in {"OpenSent", "OpenConfirm", "Established", "Clearing"}
  <2>1. w = bgp_notify_send(up, o)
    BY <1>4, <1>5, Zenon DEF CloseOther
  <2>2. up.fd[o] \in {"up", "fin"}
    BY <1>4, <1>5, Zenon DEF bgp_getsockname
  <2>3. Adds(w, up, o, "BGP_Stop")
    BY <1>3, <1>4, <2>1, <2>2, NotifyAdds, Zenon
  <2>4. Own(w, up, o) /\ SameDevices(w, up, o) /\ w.abort = up.abort
    BY <2>3, Zenon DEF Adds
  <2>5. /\ Typed(w) /\ Scalars(w, up) /\ w.conf = up.conf /\ w.stub = up.stub /\ w.status = up.status
        /\ SameDevices(w, up, c) /\ \A g : Has(w, c, g) <=> Has(up, c, g)
        /\ Guarded(up.queue, c) => Guarded(w.queue, c)
    BY <2>4, Zenon DEF Own, Apart, Scalars
  <2>6. Holds(w, up, c) /\ w.status[c] = "Established" /\ ~w.check[c]
    BY <1>3, <2>5, Zenon DEF Holds, SameDevices
  <2>7. Scalars(w, u) /\ Holds(w, u, c)
    BY <1>3, <2>5, <2>6, Compose, Zenon
  <2>8. Won(y, t, c) /\ Alike(y, w, o) /\ y.stub = w.stub
    <3>1. w.conf = c /\ Before(w, c, "Established")
      BY <1>1, <1>3, <2>4, <2>5, <2>6, Zenon DEF Before
    <3>2. QED
      BY <2>7, <3>1, CameUp, SMTT(60)
  <2>9. SameDevices(y, u, o) /\ y.status[o] = t.status[o]
    <3>1. SameDevices(up, u, o) /\ SameDevices(y, w, o) /\ y.status[o] = w.status[o]
      BY <1>3, <2>8, Zenon DEF Alike
    <3>2. SameDevices(y, u, o)
      BY <2>4, <3>1, ZenonT(60) DEF SameDevices
    <3>3. QED
      BY <1>4, <2>5, <3>1, <3>2, Zenon
  <2>10. \A g \in FsmEvents : Has(y, o, g) <=> Has(t, o, g) \/ g = "BGP_Stop"
    <3>1. \A g \in FsmEvents : Has(up, o, g) <=> Has(t, o, g)
      BY <1>2, <1>3, Zenon DEF Alike, Holds
    <3>2. \A g : Has(w, o, g) <=> Has(up, o, g) \/ g = "BGP_Stop"
      BY <2>3, Zenon DEF Adds
    <3>3. \A g : Has(y, o, g) <=> Has(w, o, g)
      BY <2>8, Zenon DEF Alike
    <3>4. QED
      BY <3>1, <3>2, <3>3, Zenon
  <2>11. Guarded(t.queue, o) => Guarded(y.queue, o)
    <3>1. Guarded(t.queue, o) => Guarded(up.queue, o)
      BY <1>2, <1>3, Zenon DEF Alike, Holds
    <3>2. Guarded(up.queue, o) => Guarded(w.queue, o)
      BY <2>3, Zenon DEF Adds
    <3>3. QED
      BY <2>8, <3>1, <3>2, Zenon DEF Alike
  <2>12. y.stub /\ up.stub
    BY <1>1, <1>3, <2>5, <2>8, Zenon
  <2>13. Lost(y, t, o)
    BY <1>1, <2>9, <2>10, <2>11, <2>12, SMTT(60) DEF Lost, SameDevices
  <2>14. QED
    BY <2>8, <2>12, <2>13, Zenon
<1>6. CASE t.status[o] \notin {"OpenSent", "OpenConfirm", "Established", "Clearing"}
  <2>1. w = peer_delete(up, o)
    BY <1>4, <1>6, Zenon DEF CloseOther
  <2>2. Gone(w, up, o)
    BY <1>1, <1>3, <1>4, <2>1, Deletes, Zenon
  <2>3. /\ Typed(w) /\ Scalars(w, up) /\ w.conf = up.conf /\ ~w.stub /\ w.abort = up.abort
        /\ Alike(w, up, c) /\ Out(w, o)
    BY <1>3, <2>2, GoneSame, SMTT(60)
  <2>4. w.status[c] = "Established" /\ ~w.check[c]
    BY <1>3, <2>3, Zenon DEF Alike, SameDevices
  <2>5. Scalars(w, u) /\ Holds(w, u, c)
    BY <1>3, <2>3, Compose, Zenon
  <2>6. Won(y, t, c) /\ Alike(y, w, o) /\ y.stub = w.stub
    <3>1. w.conf = c /\ Before(w, c, "Established")
      BY <1>1, <1>3, <2>3, <2>4, Zenon DEF Before
    <3>2. QED
      BY <2>5, <3>1, CameUp, SMTT(60)
  <2>7. Out(y, o)
    BY <2>3, <2>6, Compose, Zenon
  <2>8. Lost(y, t, o)
    BY <2>3, <2>6, <2>7, Zenon DEF Lost, Out
  <2>9. QED
    BY <1>1, <1>3, <2>6, <2>8, Zenon
<1>7. QED
  BY <1>5, <1>6, Zenon

\* The configured peer's connection has lost its socket.
Failed(t) ==
    /\ t.status[t.conf] \in {"OpenSent", "OpenConfirm", "Established", "Clearing"}
    /\ ~bgp_getsockname(t, t.conf)

\* The configured peer's connection, which had lost its socket, is deleted.
LEMMA StubUpAlone ==
    ASSUME CancelRests, NEW t, NEW c \in Conns, Rising(t, c), NEW u, Swapped(u, t, c), Failed(t),
           NEW k, k = bgp_stop(u, t.conf).s, NEW up, Brought(up, k, c),
           NEW y, y = Moved(up, c, "Established")
    PROVE  ~up.stub /\ Inv(y) /\ y.task = t.task
<1>1. IsStub(t, c) /\ t.status[c] = "OpenConfirm" /\ Typed(t) /\ ~t.abort /\ Owners(t)
  BY Zenon DEF Rising, During, Sound
<1>2. PICK o \in Conns : o = t.conf /\ c # o /\ o = Other(c)
  BY <1>1, Two, Zenon DEF Typed, IsStub
<1>3. t.stub /\ t.status[o] # "Deleted"
  BY <1>1, <1>2, Zenon DEF Owners, IsStub
<1>4. ~up.stub /\ Won(y, t, c) /\ Lost(y, t, o)
  BY <1>1, <1>2, <1>3, LostUp, Zenon
<1>5. QED
  BY <1>2, <1>4, Exchanged, Zenon

\* The configured peer's connection is deleted, or told to stop, at the end.
LEMMA StubUpBoth ==
    ASSUME CancelRests, NEW t, NEW c \in Conns, Rising(t, c), NEW u, Swapped(u, t, c), ~Failed(t),
           NEW up, Brought(up, u, c), NEW w, w = CloseOther(up, c),
           NEW y, y = Moved(w, c, "Established")
    PROVE  up.stub /\ Inv(y) /\ y.task = t.task
<1>1. IsStub(t, c) /\ t.status[c] = "OpenConfirm" /\ Typed(t) /\ ~t.abort /\ Owners(t)
  BY Zenon DEF Rising, During, Sound
<1>2. PICK o \in Conns : o = t.conf /\ c # o /\ o = Other(c)
  BY <1>1, Two, Zenon DEF Typed, IsStub
<1>3. t.stub /\ t.status[o] # "Deleted"
  BY <1>1, <1>2, Zenon DEF Owners, IsStub
<1>4. t.status[o] \in {"OpenSent", "OpenConfirm", "Established", "Clearing"} => bgp_getsockname(t, o)
  BY <1>2, Zenon DEF Failed
<1>5. up.stub /\ Won(y, t, c) /\ Lost(y, t, o)
  BY <1>1, <1>2, <1>3, <1>4, KeptUp, Zenon
<1>6. QED
  BY <1>2, <1>5, Exchanged, Zenon

\* bgp_establish, with and without an exchange of connections, keeps the invariant.
LEMMA EstablishEvents ==
    ASSUME CancelRests, NEW t, NEW c \in Conns, NEW e, e = "Receive_KEEPALIVE_message", NEW result,
           During(t, c, e), t.status[c] = "OpenConfirm",
           FSM(t.status[c], e).func = "bgp_establish", FSM(t.status[c], e).next = "Established",
           NEW r, r = bgp_event_update(t, c, e, result)
    PROVE  Handled(r, t, c)
<1>1. PICK done : done = bgp_establish(t, c)
  BY Zenon
<1>2. done = Call(FSM(t.status[c], e).func, t, c, result)
  BY <1>1, Zenon DEF Call
<1>3. PICK moved : moved = peer_xfer_conn(t, c)
  BY Zenon
<1>4. Typed(t) /\ Owners(t)
  BY Zenon DEF During, Sound
<1>5. CASE ~IsStub(t, c)
  <2>1. moved = [s |-> t, ret |-> "SUCCESS"]
    BY <1>3, <1>5, Zenon DEF peer_xfer_conn, Success
  <2>2. PICK up : up = bgp_fsm_change_status(t, c, "Established")
    BY Zenon
  <2>3. PICK w : w = IF up.stub THEN CloseOther(up, c) ELSE up
    BY Zenon
  <2>4. done.s = w /\ done.ret = "SUCCESS"
    BY <1>1, <1>3, <2>1, <2>2, <2>3, SMTT(60) DEF bgp_establish
  <2>5. c = t.conf
    BY <1>4, <1>5, Whose, Zenon
  <2>6. PICK y : y = Moved(w, c, "Established")
    BY Zenon
  <2>7. Inv(y) /\ y.task = t.task /\ y.status[c] # "Deleted"
    BY <2>2, <2>3, <2>5, <2>6, PeerUp, SMTT(60)
  <2>8. y = Moved(done.s, c, FSM(t.status[c], e).next)
    BY <2>4, <2>6, Zenon
  <2>9. r.s = y /\ r.ret = "OK"
    BY <1>2, <2>4, <2>8, Succeeds, SMTT(60)
  <2>10. QED
    BY <2>7, <2>9, Zenon DEF Handled
<1>6. CASE IsStub(t, c)
  <2>1. PICK o : o = t.conf
    BY Zenon
  <2>2. PICK quiet : quiet = bgp_reads_off(bgp_reads_off(t, o), c)
    BY Zenon
  <2>3. PICK u : u = [quiet EXCEPT !.conf = c,
                         !.timers = [d \in Conns |-> @[d] \ {"connect"}],
                         !.check = [d \in Conns |-> FALSE]]
    BY Zenon
  <2>4. c # t.conf /\ o # c
    BY <1>6, <2>1, Zenon DEF IsStub
  <2>5. Swapped(u, t, c)
    BY <1>4, <2>1, <2>2, <2>3, <2>4, Swaps, Zenon
  <2>6. Rising(t, c)
    BY <1>6, Zenon DEF Rising
  <2>7. CASE ~bgp_getsockname(t, c)
    <3>1. PICK y : Refused(y, u, t, c)
      BY Zenon DEF Refused
    <3>2. moved = [s |-> y, ret |-> "FAILURE"]
      BY <1>3, <1>6, <2>1, <2>2, <2>3, <2>7, <3>1, Zenon DEF peer_xfer_conn, Failure, Refused
    <3>3. done = moved
      BY <1>1, <1>3, <3>2, SMTT(60) DEF bgp_establish
    <3>4. Inv(y) /\ y.task = t.task
      BY <2>5, <2>6, <3>1, ExchangeFails, Zenon
    <3>5. done.s = y /\ done.ret = "FAILURE"
      BY <3>2, <3>3, Zenon
    <3>6. r.s = y /\ r.ret = "FSM_PEER_STOPPED"
      BY <1>2, <1>6, <3>5, Dispatch, SMTT(60)
    <3>7. QED
      BY <3>4, <3>6, Zenon DEF Handled
  <2>8. CASE bgp_getsockname(t, c)
    <3>1. PICK kept : kept = IF Failed(t) THEN bgp_stop(u, o).s ELSE u
      BY Zenon
    <3>2. PICK x : x = AddTask(bgp_reads_on(kept, c), c, "bgp_process_packet")
      BY Zenon
    <3>3. PICK up : up = bgp_fsm_change_status(x, c, "Established")
      BY Zenon
    <3>4. PICK w : w = IF up.stub THEN CloseOther(up, c) ELSE up
      BY Zenon
    <3>5. PICK y : y = Moved(w, c, "Established")
      BY Zenon
    <3>6. moved = [s |-> x, ret |-> "SUCCESS_STATE_TRANSFER"]
      BY <1>3, <1>6, <2>1, <2>2, <2>3, <2>8, <3>1, <3>2, Zenon DEF peer_xfer_conn, Failed
    <3>7. done.s = w /\ done.ret = "SUCCESS_STATE_TRANSFER"
      BY <1>1, <1>3, <3>3, <3>4, <3>6, SMTT(60) DEF bgp_establish
    <3>8. Brought(up, kept, c)
      BY <3>2, <3>3, Zenon DEF Brought
    <3>9. Inv(y) /\ y.task = t.task
      <4>1. CASE Failed(t)
        <5>1. kept = bgp_stop(u, t.conf).s
          BY <2>1, <3>1, <4>1, Zenon
        <5>2. PICK z : z = Moved(up, c, "Established")
          BY Zenon
        <5>3. ~up.stub /\ Inv(z) /\ z.task = t.task
          BY <2>5, <2>6, <3>8, <4>1, <5>1, <5>2, StubUpAlone, ZenonT(60)
        <5>4. y = z
          BY <3>4, <3>5, <5>2, <5>3, Zenon
        <5>5. QED
          BY <5>3, <5>4, Zenon
      <4>2. CASE ~Failed(t)
        <5>1. Brought(up, u, c)
          BY <3>1, <3>8, <4>2, Zenon
        <5>2. PICK v : v = CloseOther(up, c)
          BY Zenon
        <5>3. PICK z : z = Moved(v, c, "Established")
          BY Zenon
        <5>4. up.stub /\ Inv(z) /\ z.task = t.task
          BY <2>5, <2>6, <4>2, <5>1, <5>2, <5>3, StubUpBoth, SMTT(60)
        <5>5. y = z
          BY <3>4, <3>5, <5>2, <5>3, <5>4, Zenon
        <5>6. QED
          BY <5>4, <5>5, Zenon
      <4>3. QED
        BY <4>1, <4>2, Zenon
    <3>10. r.s = y /\ r.ret = "FSM_PEER_TRANSFERRED"
      BY <1>2, <3>5, <3>7, Dispatch, SMTT(60)
    <3>11. QED
      BY <3>9, <3>10, Zenon DEF Handled
  <2>9. QED
    BY <2>7, <2>8, Zenon
<1>7. QED
  BY <1>5, <1>6, Zenon
=============================================================================
