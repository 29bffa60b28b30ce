-------------------------- MODULE BgpFsmStepProofs --------------------------
(***************************************************************************)
(* Every step of the session FSM keeps the invariant of BgpFsmProofs:      *)
(* bgp_event_update in each status, the tasks of the event loop, the       *)
(* packets, the timers, a connection that is accepted, the neighbour and   *)
(* the I/O pthread.                                                        *)
(***************************************************************************)
EXTENDS BgpFsmProofs

-----------------------------------------------------------------------------
(* bgp_event_update.                                                       *)

\* bgp_collision_detect lets an OPEN through when there is no session beside it.
Accepted(t, c, e) ==
    e = "Receive_OPEN_message" =>
        t.status[c] \in Open /\ ~(t.stub /\ t.status[Other(c)] \in {"Established", "Clearing"})

\* Events that leave a connection in its status keep the invariant.
LEMMA StayEvents ==
    ASSUME NEW t, NEW c \in Conns, NEW e, NEW result, During(t, c, e), t.status[c] # "Deleted",
           NEW f, NEW n, Row(t.status[c], e, f, n), f \in {"bgp_ignore", "bgp_fsm_update"},
           f = FSM(t.status[c], e).func, n = FSM(t.status[c], e).next,
           NEW r, r = bgp_event_update(t, c, e, result)
    PROVE  Handled(r, t, c)
<1>1. /\ n = t.status[c] /\ e \notin {"BGP_Stop", "TCP_fatal_error", "TCP_connection_open"}
      /\ t.status[c] = "Clearing" => e # "Clearing_Completed"
  BY Zenon DEF Row
<1>2. Typed(t) /\ ~t.abort
  BY Zenon DEF During, Sound
<1>3. PICK u : u = IF f = "bgp_ignore" THEN t ELSE [t EXCEPT !.timers[c] = @ \ {"hold"}]
  BY Zenon
<1>4. /\ Own(u, t, c) /\ ~u.abort /\ u.queue = t.queue
      /\ u.io[c] = t.io[c] /\ u.check[c] = t.check[c] /\ u.ibuf[c] = t.ibuf[c]
  <2>1. CASE f = "bgp_ignore"
    BY <1>2, <1>3, <2>1, OwnSelf, Zenon
  <2>2. CASE f = "bgp_fsm_update"
    <3>1. PICK timers : timers = [t.timers EXCEPT ![c] = @ \ {"hold"}]
      BY Zenon
    <3>2. u = [t EXCEPT !.timers = timers]
      BY <1>3, <2>2, <3>1, Zenon
    <3>3. /\ timers \in [Conns -> SUBSET {"start", "connect", "hold"}]
          /\ \A d \in Conns : d # c => timers[d] = t.timers[d]
      BY <1>2, <3>1, Zenon DEF Typed
    <3>4. /\ Typed(u) /\ Shares(u, t) /\ u.abort = t.abort /\ u.fd = t.fd /\ u.check = t.check
          /\ u.io = t.io /\ u.ibuf = t.ibuf /\ u.timers = timers
      BY <1>2, <3>2, <3>3, Zenon DEF Typed, Rec, Fields, Shares
    <3>5. Own(u, t, c)
      BY <3>3, <3>4, Devices, Zenon DEF SameDevices
    <3>6. QED
      BY <1>2, <3>4, <3>5, Zenon DEF Shares
  <2>3. QED
    BY <2>1, <2>2, Zenon
<1>5. PICK v : v = Moved(u, c, t.status[c])
  BY Zenon
<1>6. Inv(v) /\ v.task = t.task /\ v.status[c] # "Deleted"
  BY <1>1, <1>4, <1>5, StayMove, SMTT(60)
<1>7. PICK done : done = Call(FSM(t.status[c], e).func, t, c, result)
  BY Zenon
<1>8. done.s = u /\ done.ret = "SUCCESS"
  BY <1>3, <1>7, Zenon DEF Call, Success
<1>9. v = Moved(done.s, c, FSM(t.status[c], e).next)
  BY <1>1, <1>5, <1>8, Zenon
<1>10. r.s = v /\ r.ret = "OK"
  BY <1>7, <1>8, <1>9, Succeeds, SMTT(60)
<1>11. QED
  BY <1>6, <1>10, Zenon DEF Handled

\* bgp_fsm_open takes an accepted OPEN and keeps the invariant.
LEMMA OpenEvents ==
    ASSUME NEW t, NEW c \in Conns, NEW e, e = "Receive_OPEN_message", NEW result, During(t, c, e),
           Accepted(t, c, e), t.status[c] # "Established",
           FSM(t.status[c], e).func = "bgp_fsm_open", FSM(t.status[c], e).next = "OpenConfirm",
           NEW r, r = bgp_event_update(t, c, e, result)
    PROVE  Handled(r, t, c)
<1>1. t.status[c] \in Open /\ ~(t.stub /\ t.status[Other(c)] \in {"Established", "Clearing"})
  BY Zenon DEF Accepted
<1>2. PICK v : v = Moved(t, c, "OpenConfirm")
  BY Zenon
<1>3. Inv(v) /\ v.task = t.task /\ v.status[c] # "Deleted"
  BY <1>1, <1>2, OpenMove, Zenon
<1>4. PICK done : done = Call(FSM(t.status[c], e).func, t, c, result)
  BY Zenon
<1>5. done.s = t /\ done.ret = "SUCCESS"
  BY <1>4, Zenon DEF Call, Success
<1>6. v = Moved(done.s, c, FSM(t.status[c], e).next)
  BY <1>2, <1>5, Zenon
<1>7. r.s = v /\ r.ret = "OK"
  BY <1>4, <1>5, <1>6, Succeeds, SMTT(60)
<1>8. QED
  BY <1>3, <1>7, Zenon DEF Handled

\* bgp_event_update keeps the invariant for every event in every status.
LEMMA Handles ==
    ASSUME CancelRests, NEW t, NEW c \in Conns, NEW e \in FsmEvents, During(t, c, e), t.status[c] # "Deleted",
           Accepted(t, c, e), NEW result \in Results, NEW r, r = bgp_event_update(t, c, e, result)
    PROVE  Handled(r, t, c)
<1>1. PICK f : f = FSM(t.status[c], e).func
  BY Zenon
<1>2. PICK n : n = FSM(t.status[c], e).next
  BY Zenon
<1>3. t.status[c] \in Statuses \ {"Deleted"}
  BY Zenon DEF During, Sound, Typed
<1>4. Row(t.status[c], e, f, n)
  BY <1>1, <1>2, <1>3, Table, Zenon
<1>5. CASE f \in {"bgp_ignore", "bgp_fsm_update"}
  BY <1>1, <1>2, <1>4, <1>5, StayEvents, Zenon
<1>6. CASE f = "bgp_fsm_open"
  <2>1. n = "OpenConfirm" /\ e = "Receive_OPEN_message" /\ t.status[c] # "Established"
    BY <1>4, <1>6, Zenon DEF Row
  <2>2. QED
    BY <1>1, <1>2, <1>6, <2>1, OpenEvents, Zenon
<1>7. CASE f \in {"bgp_start", "bgp_reconnect"}
  BY <1>1, <1>2, <1>4, <1>7, StartEvents, Zenon
<1>8. CASE f \in {"bgp_stop", "bgp_stop_with_notify"}
  BY <1>1, <1>2, <1>4, <1>8, StopEvents, Zenon
<1>9. CASE f = "bgp_connect_success"
  <2>1. n = "OpenSent" /\ e = "TCP_connection_open" /\ t.status[c] \in {"Connect", "Active"}
    BY <1>4, <1>9, Zenon DEF Row
  <2>2. QED
    BY <1>1, <1>2, <1>9, <2>1, ConnectEvents, Zenon
<1>10. CASE f = "bgp_establish"
  <2>1. n = "Established" /\ e = "Receive_KEEPALIVE_message" /\ t.status[c] = "OpenConfirm"
    BY <1>4, <1>10, Zenon DEF Row
  <2>2. QED
    BY <1>1, <1>2, <1>10, <2>1, EstablishEvents, Zenon
<1>11. CASE f = "bgp_clearing_completed"
  <2>1. n = "Idle" /\ e = "Clearing_Completed" /\ t.status[c] = "Clearing"
    BY <1>4, <1>11, Zenon DEF Row
  <2>2. QED
    BY <1>1, <1>2, <1>11, <2>1, ClearingEvents, Zenon
<1>12. f \in Funcs
  BY <1>4, Zenon DEF Row
<1>13. QED
  BY <1>5, <1>6, <1>7, <1>8, <1>9, <1>10, <1>11, <1>12, Zenon DEF Funcs

-----------------------------------------------------------------------------
(* The tasks of the event loop.                                            *)

\* u is t with less going on: no device is on that was not, input comes from
\* a connection that is read, and a connect timer goes only where an event waits.
Calmer(u, t) ==
    /\ Typed(u)
    /\ u.conf = t.conf /\ u.stub = t.stub /\ u.status = t.status /\ u.queue = t.queue
    /\ u.rib = t.rib /\ u.clear_node_queue = t.clear_node_queue
    /\ u.abort = t.abort /\ u.xfer_failed = t.xfer_failed
    /\ \A d \in Conns :
        /\ u.check[d] => t.check[d]
        /\ u.io[d] # "off" => t.io[d] # "off"
        /\ u.ibuf[d] # <<>> => t.ibuf[d] # <<>> \/ t.io[d] # "off"
        /\ \/ u.timers[d] = t.timers[d]
           \/ /\ u.timers[d] = t.timers[d] \ {"connect"}
              /\ \E g \in FsmEvents : Has(t, d, g)

\* Such a step keeps the invariant.
LEMMA CalmerInv ==
    ASSUME NEW t, Inv(t), NEW u, Calmer(u, t)
    PROVE  Inv(u)
<1>1. \A d, g : Has(u, d, g) <=> Has(t, d, g)
  BY Zenon DEF Calmer, Has
<1>2. \A d \in Conns : \A g : /\ Pends(u, 0, "none", d, g) <=> Has(u, d, g)
                              /\ Pends(t, 0, "none", d, g) <=> Has(t, d, g)
  BY Waits, Zenon
<1>3. ASSUME NEW d \in Conns PROVE Local(u, 0, "none", d)
  <2>1. Local(t, 0, "none", d)
    BY Zenon DEF Inv, During, Sound
  <2>2. /\ u.check[d] => t.check[d]
        /\ u.io[d] # "off" => t.io[d] # "off"
        /\ u.ibuf[d] # <<>> => t.ibuf[d] # <<>> \/ t.io[d] # "off"
        /\ u.status[d] = t.status[d] /\ u.conf = t.conf
        /\ u.clear_node_queue = t.clear_node_queue
    BY Zenon DEF Calmer
  <2>3. \A g : Pends(u, 0, "none", d, g) <=> Pends(t, 0, "none", d, g)
    BY <1>1, <1>2, Zenon
  <2>4. CASE u.timers[d] = t.timers[d]
    BY <1>1, <2>1, <2>2, <2>3, <2>4, Zenon DEF Local
  <2>5. CASE /\ u.timers[d] = t.timers[d] \ {"connect"}
             /\ \E g \in FsmEvents : Has(t, d, g)
    <3>1. \E g \in FsmEvents : Pends(u, 0, "none", d, g)
      BY <1>1, <1>2, <2>5, Zenon
    <3>2. /\ "start" \in t.timers[d] => "start" \in u.timers[d]
          /\ "hold" \in t.timers[d] => "hold" \in u.timers[d]
          /\ "connect" \notin u.timers[d]
          /\ t.timers[d] = {} => u.timers[d] = {}
      BY <2>5, Zenon
    <3>3. QED
      BY <1>1, <2>1, <2>2, <2>3, <3>1, <3>2, Zenon DEF Local
  <2>6. QED
    BY <2>4, <2>5, Zenon DEF Calmer
<1>4. Owners(u) /\ Typed(u) /\ ~u.abort
  BY Zenon DEF Inv, During, Sound, Owners, Calmer
<1>5. Pair(u, 0, "none")
  <2>1. \A d : Dooms(u, 0, "none", d) <=> Dooms(t, 0, "none", d)
    BY <1>1, Zenon DEF Dooms, Doomed
  <2>2. Pair(t, 0, "none")
    BY Zenon DEF Inv, During
  <2>3. QED
    BY <2>1, <2>2, Zenon DEF Pair, Calmer
<1>6. u.xfer_failed \/ Routes(u, 0, "none")
  <2>1. SUFFICES ASSUME Routes(t, 0, "none") PROVE Routes(u, 0, "none")
    BY Zenon DEF Inv, During, Sound, Calmer
  <2>2. \A d : Dooms(u, 0, "none", d) <=> Dooms(t, 0, "none", d)
    BY <1>1, Zenon DEF Dooms, Doomed
  <2>3. \A d, g : Pends(u, 0, "none", d, g) <=> Pends(t, 0, "none", d, g)
    BY <1>1, Zenon DEF Pends
  <2>4. QED
    BY <2>1, <2>2, <2>3, Zenon DEF Routes, Calmer
<1>7. QED
  BY <1>3, <1>4, <1>5, <1>6, Zenon DEF Inv, During, Sound

\* What holds of connection d does not change when event e of c is taken from
\* the list.
LEMMA LocalTaken ==
    ASSUME NEW t, NEW u, NEW c, NEW e, NEW d \in Conns, d # 0, Local(t, 0, "none", d),
           u.conf = t.conf, u.clear_node_queue = t.clear_node_queue,
           u.status[d] = t.status[d], u.check[d] = t.check[d], u.io[d] = t.io[d],
           u.timers[d] = t.timers[d], u.ibuf[d] = t.ibuf[d],
           \A g : Has(u, d, g) => Has(t, d, g),
           \A g : Pends(u, c, e, d, g) <=> Pends(t, 0, "none", d, g)
    PROVE  Local(u, c, e, d)
  BY ZenonT(60) DEF Local

\* The state in which the first task of the list, event e of c, is being run.
LEMMA Dequeues ==
    ASSUME NEW t, Inv(t), t.queue # <<>>, NEW h, h = Head(t.queue), NEW c, c = h.conn,
           NEW e, e = h.event, NEW u, u = [t EXCEPT !.queue = Tail(@)]
    PROVE  /\ c \in Conns /\ e \in Events \ {"Receive_OPEN_message"}
           /\ t.status[c] # "Deleted" /\ u.status = t.status
           /\ During(u, c, e)
<1>1. Typed(t)
  BY Zenon DEF Inv, During, Sound
<1>2. PICK q \in Seq(Task) : q = t.queue
  BY <1>1, Zenon DEF Typed
<1>3. PICK r : r = Tail(q)
  BY Zenon
<1>4. /\ h \in Task /\ r \in Seq(Task) /\ Waiting(q) = Waiting(r) \cup {h}
      /\ \A d : Guarded(q, d) => h # Completion(d) /\ (h \notin Stops(d) => Guarded(r, d))
  BY <1>2, <1>3, TailQueue, Zenon
<1>5. h = [conn |-> c, event |-> e] /\ c \in Conns /\ e \in Events \ {"Receive_OPEN_message"}
  BY <1>4, Zenon DEF Task
<1>6. u = [t EXCEPT !.queue = r]
  BY <1>2, <1>3, Zenon
<1>7. Typed(u) /\ u.queue = r
  BY <1>1, <1>4, <1>6, Zenon DEF Typed, Rec, Fields
<1>8. /\ u.conf = t.conf /\ u.stub = t.stub /\ u.status = t.status /\ u.abort = t.abort
      /\ u.rib = t.rib /\ u.clear_node_queue = t.clear_node_queue /\ u.xfer_failed = t.xfer_failed
      /\ u.check = t.check /\ u.io = t.io /\ u.timers = t.timers /\ u.ibuf = t.ibuf
  BY <1>1, <1>6, Zenon DEF Typed, Rec, Fields
<1>9. \A d, g : Has(t, d, g) <=> Has(u, d, g) \/ (d = c /\ g = e)
  <2>1. \A d, g : [conn |-> d, event |-> g] = h <=> d = c /\ g = e
    BY <1>5, SMTT(60)
  <2>2. QED
    BY <1>2, <1>4, <1>7, <2>1, Zenon DEF Has
<1>10. \A d \in Conns : \A g : Pends(u, c, e, d, g) <=> Pends(t, 0, "none", d, g)
  BY <1>9, Waits, Zenon DEF Pends
<1>11. \A d \in Conns : Local(t, 0, "none", d)
  BY Zenon DEF Inv, During, Sound
<1>12. t.status[c] # "Deleted"
  BY <1>5, <1>9, <1>11, Zenon DEF Local
<1>13. ASSUME NEW d \in Conns PROVE Local(u, c, e, d)
  <2>1. Local(t, 0, "none", d) /\ d # 0
    BY <1>11, Two, Zenon
  <2>2. \A g : Has(u, d, g) => Has(t, d, g)
    BY <1>9, Zenon
  <2>3. \A g : Pends(u, c, e, d, g) <=> Pends(t, 0, "none", d, g)
    BY <1>10, Zenon
  <2>4. QED
    <3>1. /\ u.status[d] = t.status[d] /\ u.check[d] = t.check[d] /\ u.io[d] = t.io[d]
          /\ u.timers[d] = t.timers[d] /\ u.ibuf[d] = t.ibuf[d]
      BY <1>8, Zenon
    <3>2. QED
      BY <1>8, <2>1, <2>2, <2>3, <3>1, LocalTaken, Zenon
<1>14. \A d \in Conns : Dooms(t, 0, "none", d) => Dooms(u, c, e, d)
  BY <1>9, Waits, Zenon DEF Dooms, Doomed
<1>15. t.conf \in Conns /\ Other(t.conf) \in Conns
  BY <1>1, Two, Zenon DEF Typed
<1>16. Owners(u)
  BY <1>8, Zenon DEF Inv, During, Sound, Owners
<1>17. Pair(u, c, e)
  BY <1>8, <1>14, <1>15, Zenon DEF Inv, During, Pair
<1>18. u.xfer_failed \/ Routes(u, c, e)
  <2>1. SUFFICES ASSUME Routes(t, 0, "none") PROVE Routes(u, c, e)
    BY <1>8, Zenon DEF Inv, During, Sound
  <2>2. \A d \in Conns : t.status[d] # "Clearing" => Guarded(q, d)
    BY <1>2, <2>1, Two, Zenon DEF Routes
  <2>3. ASSUME NEW d \in Conns, u.status[d] # "Clearing"
        PROVE  Guarded(u.queue, d) \/ (d = c /\ e \in {"BGP_Stop", "TCP_fatal_error"})
    <3>1. h \in Stops(d) => d = c /\ e \in {"BGP_Stop", "TCP_fatal_error"}
      BY <1>5, Zenon DEF Stops
    <3>2. QED
      BY <1>4, <1>7, <1>8, <2>2, <2>3, <3>1, Zenon
  <2>4. e = "Clearing_Completed" => u.status[c] = "Clearing"
    BY <1>4, <1>5, <1>8, <2>2, Zenon DEF Completion
  <2>5. u.clear_node_queue =>
          \/ u.status[u.conf] = "Clearing" /\ ~Pends(u, c, e, u.conf, "Clearing_Completed")
          \/ u.status[u.conf] = "Established" /\ Dooms(u, c, e, u.conf)
    BY <1>8, <1>10, <1>14, <1>15, <2>1, Zenon DEF Routes
  <2>6. u.rib => \/ u.status[u.conf] = "Established"
                 \/ u.status[u.conf] = "Clearing" /\ u.clear_node_queue
    BY <1>8, <2>1, Zenon DEF Routes
  <2>7. QED
    BY <2>3, <2>4, <2>5, <2>6, Zenon DEF Routes
<1>19. Sound(u, c, e)
  BY <1>7, <1>8, <1>13, <1>16, <1>18, Zenon DEF Inv, During, Sound
<1>20. QED
  BY <1>5, <1>8, <1>12, <1>17, <1>19, Zenon DEF During

\* A task of the I/O pthread is no event of the state machine.
LEMMA TaskTaken ==
    ASSUME NEW t, NEW c \in Conns, NEW e \in Tasks, During(t, c, e)
    PROVE  Inv(t)
<1>1. \A d \in Conns : \A g \in FsmEvents : Pends(t, c, e, d, g) <=> Pends(t, 0, "none", d, g)
  BY Named, Waits, Zenon DEF Pends
<1>2. \A d \in Conns : Dooms(t, c, e, d) <=> Dooms(t, 0, "none", d)
  BY Waits, Zenon DEF Dooms, Tasks
<1>3. t.conf \in Conns /\ Other(t.conf) \in Conns
  BY Two, Zenon DEF During, Sound, Typed
<1>4. ASSUME NEW d \in Conns PROVE Local(t, 0, "none", d)
  <2>1. Local(t, c, e, d) /\ e \notin {"BGP_Start", "Hold_Timer_expired"}
    BY Zenon DEF During, Sound, Tasks
  <2>2. \A g \in FsmEvents : Pends(t, c, e, d, g) <=> Pends(t, 0, "none", d, g)
    BY <1>1, Zenon
  <2>3. {"BGP_Stop", "Clearing_Completed", "TCP_connection_open",
         "ConnectRetry_timer_expired"} \subseteq FsmEvents
    BY Named, Zenon
  <2>4. QED
    BY <2>1, <2>2, <2>3, Zenon DEF Local
<1>5. Pair(t, 0, "none")
  BY <1>2, <1>3, Zenon DEF During, Pair
<1>6. t.xfer_failed \/ Routes(t, 0, "none")
  <2>1. SUFFICES ASSUME Routes(t, c, e) PROVE Routes(t, 0, "none")
    BY Zenon DEF During, Sound
  <2>2. e \notin {"BGP_Stop", "TCP_fatal_error"} /\ 0 \notin Conns
    BY Two, Zenon DEF Tasks
  <2>3. Pends(t, c, e, t.conf, "Clearing_Completed") <=> Pends(t, 0, "none", t.conf, "Clearing_Completed")
    BY <1>1, <1>3, Named, Zenon
  <2>4. QED
    BY <1>2, <1>3, <2>1, <2>2, <2>3, Zenon DEF Routes
<1>7. QED
  BY <1>4, <1>5, <1>6, Zenon DEF Inv, During, Sound

-----------------------------------------------------------------------------
(* The packets.                                                            *)

\* bgp_notify_send keeps the invariant.
LEMMA NotifyInv ==
    ASSUME NEW t, Inv(t), NEW c \in Conns, t.status[c] # "Deleted", NEW u, u = bgp_notify_send(t, c)
    PROVE  Inv(u) /\ u.status = t.status /\ u.stub = t.stub /\ u.conf = t.conf
<1>1. Typed(t)
  BY Zenon DEF Inv, During, Sound
<1>2. PICK e \in {"BGP_Stop", "TCP_fatal_error"} : Adds(u, t, c, e)
  BY <1>1, NotifyAdds, Zenon
<1>3. Plain(t, c, e)
  BY Zenon DEF Plain
<1>4. Inv(u) /\ u.status = t.status
  BY <1>2, <1>3, AddsInv, ZenonT(60)
<1>5. QED
  BY <1>2, <1>4, Zenon DEF Adds, Own, Apart

\* What a packet leads to: a state v in order and an event e for it.
Raises(v, e, t, c) ==
    /\ Inv(v) /\ v.status = t.status
    /\ e \in FsmEvents /\ Plain(v, c, e) /\ Accepted(v, c, e)

\* bgp_open_receive accepts the OPEN, notifies, or lets the collision decide.
LEMMA OpenRaises ==
    ASSUME NEW t, Inv(t), NEW c \in Conns, t.status[c] \in Open, NEW r, r = bgp_open_receive(t, c)
    PROVE  Raises(r.s, r.event, t, c)
<1>1. PICK chosen : chosen = bgp_collision_detect(t, c)
  BY Zenon
<1>2. /\ r.s = chosen.s /\ r.event \in {"Receive_OPEN_message", "BGP_Stop"}
      /\ r.event = "Receive_OPEN_message" => chosen.ok
  BY <1>1, Zenon DEF bgp_open_receive
<1>3. Typed(t) /\ Owners(t)
  BY Zenon DEF Inv, During, Sound
<1>4. PICK o \in Conns : o = Other(c) /\ c # o /\ \A d \in Conns : d = c \/ d = o
  BY Two, Zenon
<1>5. t.conf \in Conns /\ Other(t.conf) \in Conns
  BY <1>3, Two, Zenon DEF Typed
<1>6. t.stub => \A d \in Conns : t.status[d] # "Deleted"
  BY <1>3, <1>5, Two, Zenon DEF Owners
<1>7. /\ Inv(chosen.s) /\ chosen.s.status = t.status /\ chosen.s.stub = t.stub
      /\ chosen.ok => ~(t.stub /\ t.status[o] \in {"Established", "Clearing"})
  <2>1. CASE ~t.stub \/ t.status[o] \notin {"OpenSent", "OpenConfirm", "Established", "Clearing"}
    BY <1>1, <1>4, <2>1, Zenon DEF bgp_collision_detect
  <2>2. CASE /\ t.stub /\ t.status[o] \in {"Established", "Clearing"}
    <3>1. PICK u : u = bgp_notify_send(t, c)
      BY Zenon
    <3>2. chosen.s = u /\ ~chosen.ok
      BY <1>1, <1>4, <2>2, <3>1, Zenon DEF bgp_collision_detect
    <3>3. Inv(u) /\ u.status = t.status /\ u.stub = t.stub
      BY <1>6, <2>2, <3>1, NotifyInv, Zenon
    <3>4. QED
      BY <3>2, <3>3, Zenon
  <2>3. CASE /\ t.stub /\ t.status[o] \in {"OpenSent", "OpenConfirm"}
    <3>1. PICK d \in Conns : d = IF t.larger THEN t.conf ELSE Other(t.conf)
      BY <1>5, Zenon
    <3>2. PICK u : u = bgp_notify_send(t, d)
      BY Zenon
    <3>3. chosen.s = u
      BY <1>1, <1>4, <2>3, <3>1, <3>2, Zenon DEF bgp_collision_detect
    <3>4. Inv(u) /\ u.status = t.status /\ u.stub = t.stub
      BY <1>6, <2>3, <3>2, NotifyInv, ZenonT(60)
    <3>5. QED
      BY <2>3, <3>3, <3>4, Zenon
  <2>4. QED
    BY <2>1, <2>2, <2>3, Zenon
<1>8. r.event \in FsmEvents
  BY <1>2, Zenon DEF FsmEvents
<1>9. Plain(r.s, c, r.event)
  BY <1>2, Zenon DEF Plain
<1>10. Accepted(r.s, c, r.event)
  BY <1>2, <1>4, <1>7, Zenon DEF Accepted
<1>11. QED
  BY <1>2, <1>7, <1>8, <1>9, <1>10, Zenon DEF Raises

\* The routes of an UPDATE come from an Established session, so they have one.
LEMMA LearnsInv ==
    ASSUME NEW t, Inv(t), NEW c \in Conns, t.status[c] = "Established",
           NEW u, u = [t EXCEPT !.rib = @ \/ ~IsStub(t, c)]
    PROVE  Inv(u) /\ u.status = t.status
<1>1. Typed(t) /\ Owners(t) /\ ~t.abort
  BY Zenon DEF Inv, During, Sound
<1>2. PICK rib \in BOOLEAN : rib = (t.rib \/ ~IsStub(t, c))
  BY Zenon
<1>3. u = [t EXCEPT !.rib = rib]
  BY <1>2, Zenon
<1>4. /\ Typed(u) /\ u.conf = t.conf /\ u.stub = t.stub /\ u.status = t.status /\ u.abort = t.abort
      /\ u.queue = t.queue /\ u.rib = rib /\ u.clear_node_queue = t.clear_node_queue
      /\ u.xfer_failed = t.xfer_failed
      /\ u.check = t.check /\ u.io = t.io /\ u.timers = t.timers /\ u.ibuf = t.ibuf /\ u.fd = t.fd
  BY <1>1, <1>3, ZenonT(60) DEF Typed, Rec, Fields
<1>5. rib => t.rib \/ c = t.conf
  BY <1>1, <1>2, Whose, Zenon
<1>6. \A d, g : Has(u, d, g) <=> Has(t, d, g)
  BY <1>4, Zenon DEF Has
<1>7. \A d \in Conns : Local(u, 0, "none", d)
  <2>1. ASSUME NEW d \in Conns PROVE Local(u, 0, "none", d)
    <3>1. Local(t, 0, "none", d) /\ d # 0
      BY Two, Zenon DEF Inv, During, Sound
    <3>2. /\ SameDevices(u, t, d) /\ u.status[d] = t.status[d]
          /\ d = t.conf /\ t.clear_node_queue => u.clear_node_queue
      BY <1>4, Zenon DEF SameDevices
    <3>3. QED
      BY <1>4, <1>6, <3>1, <3>2, LocalKept, Zenon
  <2>2. QED
    BY <2>1, Zenon
<1>8. \A d : Dooms(u, 0, "none", d) <=> Dooms(t, 0, "none", d)
  BY <1>6, Zenon DEF Dooms, Doomed
<1>9. Owners(u) /\ Pair(u, 0, "none")
  BY <1>1, <1>4, <1>8, Zenon DEF Inv, During, Owners, Pair
<1>10. u.xfer_failed \/ Routes(u, 0, "none")
  <2>1. SUFFICES ASSUME Routes(t, 0, "none") PROVE Routes(u, 0, "none")
    BY <1>4, Zenon DEF Inv, During, Sound
  <2>2. \A d, g : Pends(u, 0, "none", d, g) <=> Pends(t, 0, "none", d, g)
    BY <1>6, Zenon DEF Pends
  <2>3. u.rib => \/ u.status[u.conf] = "Established"
                 \/ u.status[u.conf] = "Clearing" /\ u.clear_node_queue
    BY <1>4, <1>5, <2>1, ZenonT(60) DEF Routes
  <2>4. QED
    BY <1>4, <1>8, <2>1, <2>2, <2>3, Zenon DEF Routes
<1>11. QED
  BY <1>1, <1>4, <1>7, <1>9, <1>10, Zenon DEF Inv, During, Sound

\* The switch of bgp_process_packet raises an event the connection may handle.
LEMMA PacketRaises ==
    ASSUME NEW t, Inv(t), NEW c \in Conns, t.status[c] \in Open, NEW packet,
           NEW r, r = Receive(t, c, packet)
    PROVE  Raises(r.s, r.event, t, c)
<1>1. t.status[c] # "Deleted"
  BY Zenon DEF Open
<1>2. ASSUME NEW e, e \in {"BGP_Stop", "Receive_KEEPALIVE_message", "Receive_UPDATE_message",
                           "Receive_NOTIFICATION_message"},
             NEW v, Inv(v), v.status = t.status
      PROVE  Raises(v, e, t, c)
  <2>1. e \in FsmEvents
    BY <1>2, Zenon DEF FsmEvents
  <2>2. Plain(v, c, e) /\ Accepted(v, c, e)
    BY <1>2, Zenon DEF Plain, Accepted
  <2>3. QED
    BY <1>2, <2>1, <2>2, Zenon DEF Raises
<1>3. CASE packet = "OPEN"
  BY <1>3, OpenRaises, Zenon DEF Receive
<1>4. PICK told : told = bgp_notify_send(t, c)
  BY Zenon
<1>5. Inv(told) /\ told.status = t.status
  BY <1>1, <1>4, NotifyInv, Zenon
<1>6. CASE packet = "bad OPEN"
  <2>1. r.s = told /\ r.event = "BGP_Stop"
    BY <1>4, <1>6, Zenon DEF Receive
  <2>2. QED
    BY <1>2, <1>5, <2>1, Zenon
<1>7. CASE packet = "UPDATE"
  <2>1. r = bgp_update_receive(t, c)
    BY <1>7, Zenon DEF Receive
  <2>2. CASE t.status[c] = "Established"
    <3>1. PICK u : u = [t EXCEPT !.rib = @ \/ ~IsStub(t, c)]
      BY Zenon
    <3>2. r.s = u /\ r.event = "Receive_UPDATE_message"
      BY <2>1, <2>2, <3>1, SMTT(60) DEF bgp_update_receive
    <3>3. Inv(u) /\ u.status = t.status
      BY <2>2, <3>1, LearnsInv, Zenon
    <3>4. QED
      BY <1>2, <3>2, <3>3, Zenon
  <2>3. CASE t.status[c] # "Established"
    <3>1. r.s = told /\ r.event = "BGP_Stop"
      BY <1>4, <2>1, <2>3, SMTT(60) DEF bgp_update_receive
    <3>2. QED
      BY <1>2, <1>5, <3>1, Zenon
  <2>4. QED
    BY <2>2, <2>3, Zenon
<1>8. CASE packet \notin {"OPEN", "bad OPEN", "UPDATE"}
  <2>1. r.s = t /\ r.event \in {"Receive_KEEPALIVE_message", "Receive_NOTIFICATION_message"}
    BY <1>8, Zenon DEF Receive
  <2>2. QED
    BY <1>2, <2>1, Zenon
<1>9. QED
  BY <1>3, <1>6, <1>7, <1>8, Zenon

\* An event that bgp_process_packet raises at once.
LEMMA RaisedHandled ==
    ASSUME CancelRests, NEW t, NEW v, NEW c \in Conns, NEW e, Raises(v, e, t, c), t.status[c] \in Open,
           NEW result \in Results, NEW r, r = bgp_event_update(v, c, e, result)
    PROVE  Inv(r.s)
<1>1. /\ Inv(v) /\ v.status = t.status /\ e \in FsmEvents /\ Plain(v, c, e) /\ Accepted(v, c, e)
  BY Zenon DEF Raises
<1>2. Typed(v) /\ ~v.abort /\ v.status[c] # "Deleted"
  BY <1>1, Zenon DEF Inv, During, Sound, Open
<1>3. Own(v, v, c)
  BY <1>2, OwnSelf, Zenon
<1>4. During(v, c, e)
  BY <1>1, <1>2, <1>3, Takes, Zenon
<1>5. Handled(r, v, c)
  BY <1>1, <1>2, <1>4, Handles, Zenon
<1>6. QED
  BY <1>5, Zenon DEF Handled

-----------------------------------------------------------------------------
(* Connections that open, and routes that are gone.                        *)

\* Everything but connection c is in order, and c is about to hear that its
\* TCP connection is open.
Opening(t, c) ==
    /\ Typed(t) /\ ~t.abort /\ Owners(t) /\ Pair(t, 0, "none")
    /\ t.xfer_failed \/ Routes(t, 0, "none")
    /\ \A d \in Conns : d # c => Local(t, 0, "none", d)
    /\ t.io[c] = "off" /\ t.check[c] = FALSE /\ t.ibuf[c] = <<>>
    /\ \/ t.status[c] = "Connect"
       \/ t.status[c] = "Active" /\ c # t.conf /\ ~Has(t, c, "ConnectRetry_timer_expired")

\* The event brings c into order.
LEMMA OpensInv ==
    ASSUME NEW t, NEW c \in Conns, Opening(t, c), NEW u, Adds(u, t, c, "TCP_connection_open")
    PROVE  Inv(u) /\ u.task = t.task
<1>1. /\ Typed(u) /\ u.abort = t.abort /\ u.conf = t.conf /\ u.stub = t.stub /\ u.task = t.task
      /\ u.status = t.status /\ u.rib = t.rib /\ u.xfer_failed = t.xfer_failed
      /\ u.clear_node_queue = t.clear_node_queue
  BY Zenon DEF Adds, Own, Apart
<1>2. /\ SameDevices(u, t, c)
      /\ \A g : Has(u, c, g) <=> Has(t, c, g) \/ g = "TCP_connection_open"
      /\ Guarded(t.queue, c) => Guarded(u.queue, c)
  BY Zenon DEF Adds
<1>3. ASSUME NEW d \in Conns, d # c
      PROVE  /\ SameDevices(u, t, d) /\ \A g : Has(u, d, g) <=> Has(t, d, g)
             /\ Guarded(t.queue, d) => Guarded(u.queue, d)
  BY <1>3, Zenon DEF Adds, Own, Apart
<1>4. ASSUME NEW d \in Conns, d # c PROVE Local(u, 0, "none", d)
  <2>1. Local(t, 0, "none", d) /\ d # 0 /\ u.status[d] = t.status[d]
    BY <1>1, <1>4, Two, Zenon DEF Opening
  <2>2. d = t.conf /\ t.clear_node_queue => u.clear_node_queue
    BY <1>1, Zenon
  <2>3. SameDevices(u, t, d) /\ \A g : Has(u, d, g) <=> Has(t, d, g)
    BY <1>3, <1>4, Zenon
  <2>4. QED
    BY <1>1, <2>1, <2>2, <2>3, LocalKept, Zenon
<1>5. Local(u, 0, "none", c)
  <2>1. /\ u.io[c] = "off" /\ u.check[c] = FALSE /\ u.ibuf[c] = <<>> /\ u.status[c] = t.status[c]
    BY <1>1, <1>2, Zenon DEF Opening, SameDevices
  <2>2. \A g : Pends(u, 0, "none", c, g) <=> Has(u, c, g)
    BY Waits, Zenon
  <2>3. Pends(u, 0, "none", c, "TCP_connection_open") /\ "TCP_connection_open" \in FsmEvents
    BY <1>2, <2>2, Named, Zenon
  <2>4. \/ u.status[c] = "Connect"
        \/ /\ u.status[c] = "Active" /\ c # u.conf
           /\ ~Pends(u, 0, "none", c, "ConnectRetry_timer_expired")
    BY <1>1, <1>2, <2>2, Zenon DEF Opening
  <2>5. QED
    BY <2>1, <2>3, <2>4, Zenon DEF Local, Open
<1>6. \A d \in Conns : Local(u, 0, "none", d)
  BY <1>4, <1>5, Zenon
<1>7. t.conf \in Conns /\ Other(t.conf) \in Conns
  BY Two, Zenon DEF Opening, Typed
<1>8. \A d \in Conns : Dooms(t, 0, "none", d) => Dooms(u, 0, "none", d)
  BY <1>2, <1>3, Zenon DEF Dooms, Doomed
<1>9. Owners(u) /\ Pair(u, 0, "none")
  BY <1>1, <1>7, <1>8, Zenon DEF Opening, Owners, Pair
<1>10. u.xfer_failed \/ Routes(u, 0, "none")
  <2>1. SUFFICES ASSUME Routes(t, 0, "none") PROVE Routes(u, 0, "none")
    BY <1>1, Zenon DEF Opening
  <2>2. \A d \in Conns : Guarded(t.queue, d) => Guarded(u.queue, d)
    BY <1>2, <1>3, Zenon
  <2>3. Pends(u, 0, "none", t.conf, "Clearing_Completed") =>
          Pends(t, 0, "none", t.conf, "Clearing_Completed")
    BY <1>2, <1>3, <1>7, Zenon DEF Pends
  <2>4. QED
    BY <1>1, <1>7, <1>8, <2>1, <2>2, <2>3, ZenonT(60) DEF Routes
<1>11. QED
  BY <1>1, <1>6, <1>9, <1>10, Zenon DEF Inv, During, Sound, Opening

\* Where there is no stub its connection is clean.
LEMMA NoStub ==
    ASSUME NEW t, Inv(t), ~t.stub, NEW c, c = Other(t.conf)
    PROVE  c \in Conns /\ c # t.conf /\ Out(t, c)
<1>1. Typed(t) /\ Owners(t) /\ \A d \in Conns : Local(t, 0, "none", d)
  BY Zenon DEF Inv, During, Sound
<1>2. c \in Conns /\ c # t.conf
  BY <1>1, Two, Zenon DEF Typed
<1>3. t.status[c] = "Deleted" /\ t.check[c] \in BOOLEAN /\ t.io[c] \in {"off", "on", "dead"}
  BY <1>1, <1>2, Zenon DEF Owners, Typed
<1>4. Local(t, 0, "none", c)
  BY <1>1, <1>2, Zenon
<1>5. QED
  BY <1>2, <1>3, <1>4, Zenon DEF Local, Out, Open

\* bgp_accept, once the stub of an earlier connection is gone.
LEMMA AcceptsInv ==
    ASSUME NEW t, Inv(t), ~t.stub, NEW c, c = Other(t.conf), t.status[t.conf] # "Clearing",
           NEW u, u = [t EXCEPT !.stub = TRUE, !.status[c] = "Active", !.fd[c] = "up"],
           NEW v, v = BGP_EVENT_ADD(u, c, "TCP_connection_open")
    PROVE  Inv(v)
<1>1. c \in Conns /\ c # t.conf /\ Out(t, c)
  BY NoStub, Zenon
<1>2. Typed(t) /\ ~t.abort /\ Owners(t) /\ t.conf \in Conns
  BY Zenon DEF Inv, During, Sound, Typed
<1>3. PICK status : status = [t.status EXCEPT ![c] = "Active"]
  BY Zenon
<1>4. PICK fd : fd = [t.fd EXCEPT ![c] = "up"]
  BY Zenon
<1>5. /\ status \in [Conns -> Statuses] /\ status[c] = "Active"
      /\ \A d \in Conns : d # c => status[d] = t.status[d]
  <2>1. t.status \in [Conns -> Statuses] /\ "Active" \in Statuses
    BY <1>2, Zenon DEF Typed, Statuses
  <2>2. QED
    BY <1>1, <1>3, <2>1, Update, Zenon
<1>6. /\ fd \in [Conns -> {"none", "connecting", "up", "fin", "reset"}]
      /\ \A d \in Conns : d # c => fd[d] = t.fd[d]
  BY <1>1, <1>2, <1>4, Update, Zenon DEF Typed
<1>7. u = [t EXCEPT !.stub = TRUE, !.status = status, !.fd = fd]
  BY <1>3, <1>4, Zenon
<1>8. /\ Typed(u) /\ u.conf = t.conf /\ u.stub = TRUE /\ u.status = status /\ u.abort = t.abort
      /\ u.queue = t.queue /\ u.rib = t.rib /\ u.clear_node_queue = t.clear_node_queue
      /\ u.xfer_failed = t.xfer_failed /\ u.fd = fd
      /\ u.check = t.check /\ u.io = t.io /\ u.timers = t.timers /\ u.ibuf = t.ibuf
  <2>1. Ups(t.established_peers, status)
    <3>1. /\ t.status \in [Conns -> Statuses] /\ "Active" \in Statuses
          /\ t.status[c] = "Deleted" /\ Ups(t.established_peers, t.status)
      BY <1>1, <1>2, Zenon DEF Typed, Statuses, Out
    <3>2. Ups(IF "Active" = "Established" THEN t.established_peers + 1
              ELSE IF t.status[c] = "Established" THEN t.established_peers - 1
              ELSE t.established_peers, status)
      BY <1>1, <1>3, <3>1, UpsChange
    <3>3. QED
      BY <3>1, <3>2
  <2>2. /\ Rec(u) /\ u.stub = TRUE /\ u.status = status /\ u.fd = fd
        /\ u.conf = t.conf /\ u.abort = t.abort
    BY <1>2, <1>7 DEF Typed, Rec, Fields
  <2>3. /\ u.queue = t.queue /\ u.rib = t.rib /\ u.clear_node_queue = t.clear_node_queue
        /\ u.xfer_failed = t.xfer_failed /\ u.check = t.check /\ u.io = t.io
        /\ u.timers = t.timers /\ u.ibuf = t.ibuf
    BY <1>2, <1>7 DEF Typed, Rec, Fields
  <2>4. /\ u.larger = t.larger /\ u.nht = t.nht /\ u.sent = t.sent /\ u.task = t.task
        /\ u.processed = t.processed /\ u.established_peers = t.established_peers
    BY <1>2, <1>7 DEF Typed, Rec, Fields
  <2>5. QED
    BY <1>2, <1>5, <1>6, <2>1, <2>2, <2>3, <2>4, ZenonT(60) DEF Typed
<1>9. \A d, g : Has(u, d, g) <=> Has(t, d, g)
  BY <1>8, Zenon DEF Has
<1>10. ASSUME NEW d \in Conns, d # c PROVE Local(u, 0, "none", d)
  <2>1. Local(t, 0, "none", d) /\ d # 0
    BY Two, Zenon DEF Inv, During, Sound
  <2>2. SameDevices(u, t, d) /\ u.status[d] = t.status[d]
    BY <1>5, <1>6, <1>8, <1>10, Zenon DEF SameDevices
  <2>3. QED
    BY <1>8, <1>9, <2>1, <2>2, LocalKept, Zenon
<1>11. Owners(u)
  BY <1>1, <1>2, <1>5, <1>8, SMTT(60) DEF Owners
<1>12. Pair(u, 0, "none")
  BY <1>5, <1>8, <1>1, Zenon DEF Pair
<1>13. u.xfer_failed \/ Routes(u, 0, "none")
  <2>1. SUFFICES ASSUME Routes(t, 0, "none") PROVE Routes(u, 0, "none")
    BY <1>8, Zenon DEF Inv, During, Sound
  <2>2. Guarded(u.queue, c)
    <3>1. ~Has(t, c, "Clearing_Completed")
      BY <1>1, Named, Zenon DEF Out
    <3>2. QED
      BY <1>8, <3>1, NothingToGuard, Zenon DEF Has, Completion
  <2>3. \A d \in Conns : u.status[d] # "Clearing" => Guarded(u.queue, d)
    <3>1. \A d \in Conns : t.status[d] # "Clearing" => Guarded(t.queue, d)
      BY <2>1, Two, Zenon DEF Routes
    <3>2. QED
      BY <1>5, <1>8, <2>2, <3>1, Zenon
  <2>4. u.status[u.conf] = t.status[t.conf] /\ u.conf = t.conf
    BY <1>1, <1>2, <1>5, <1>8, Zenon
  <2>5. /\ \A d, g : Pends(u, 0, "none", d, g) <=> Pends(t, 0, "none", d, g)
        /\ \A d : Dooms(u, 0, "none", d) <=> Dooms(t, 0, "none", d)
    BY <1>9, Zenon DEF Pends, Dooms, Doomed
  <2>6. QED
    BY <1>8, <2>1, <2>3, <2>4, <2>5, Two, Zenon DEF Routes
<1>14. /\ u.io[c] = "off" /\ u.check[c] = FALSE /\ u.ibuf[c] = <<>> /\ u.status[c] = "Active"
       /\ c # u.conf /\ ~Has(u, c, "ConnectRetry_timer_expired")
  BY <1>1, <1>5, <1>8, <1>9, Named, ZenonT(60) DEF Out
<1>15. Opening(u, c)
  BY <1>2, <1>8, <1>10, <1>11, <1>12, <1>13, <1>14, Zenon DEF Opening
<1>16. Adds(v, u, c, "TCP_connection_open")
  <2>1. "TCP_connection_open" \in FsmEvents \ {"Receive_OPEN_message"}
    BY Zenon DEF FsmEvents
  <2>2. QED
    BY <1>1, <1>8, <1>14, <2>1, EventAdds, ZenonT(60)
<1>17. QED
  BY <1>1, <1>15, <1>16, OpensInv, Zenon

\* bgp_connect_check, when the connect has succeeded.
LEMMA ChecksInv ==
    ASSUME NEW t, Inv(t), NEW c \in Conns, t.status[c] = "Connect", ~t.check[c],
           NEW u, u = BGP_EVENT_ADD(t, c, "TCP_connection_open")
    PROVE  Inv(u)
<1>1. /\ Typed(t) /\ ~t.abort /\ Owners(t)
      /\ t.xfer_failed \/ Routes(t, 0, "none")
      /\ \A d \in Conns : Local(t, 0, "none", d)
  BY Zenon DEF Inv, During, Sound
<1>2. t.io[c] = "off" /\ t.check[c] = FALSE /\ t.ibuf[c] = <<>>
  <2>1. Local(t, 0, "none", c) /\ t.check[c] \in BOOLEAN
    BY <1>1, Zenon DEF Typed
  <2>2. QED
    BY <2>1, Zenon DEF Local, Open
<1>3. Opening(t, c)
  BY <1>1, <1>2, Zenon DEF Inv, During, Opening
<1>4. "TCP_connection_open" \in FsmEvents \ {"Receive_OPEN_message"}
  BY Zenon DEF FsmEvents
<1>5. Adds(u, t, c, "TCP_connection_open")
  BY <1>1, <1>4, EventAdds, Zenon
<1>6. QED
  BY <1>3, <1>5, OpensInv, Zenon

\* The clear-node work queue has run: what it leaves is of the session that came
\* up in the meantime.
LEMMA ClearsInv ==
    ASSUME NEW t, Inv(t), t.clear_node_queue, NEW left \in BOOLEAN, NEW c, c = t.conf,
           left => t.status[c] = "Established",
           NEW u, u = [t EXCEPT !.clear_node_queue = FALSE, !.rib = left],
           NEW v, v = BGP_EVENT_ADD(u, c, "Clearing_Completed")
    PROVE  Inv(v)
<1>1. Typed(t) /\ ~t.abort /\ Owners(t) /\ c \in Conns /\ t.status[c] # "Deleted"
  BY Zenon DEF Inv, During, Sound, Typed, Owners
<1>2. /\ Typed(u) /\ u.conf = t.conf /\ u.stub = t.stub /\ u.status = t.status /\ u.abort = t.abort
      /\ u.queue = t.queue /\ u.rib = left /\ u.clear_node_queue = FALSE
      /\ u.xfer_failed = t.xfer_failed /\ u.fd = t.fd
      /\ u.check = t.check /\ u.io = t.io /\ u.timers = t.timers /\ u.ibuf = t.ibuf
  BY <1>1, Zenon DEF Typed, Rec, Fields
<1>3. Adds(v, u, c, "Clearing_Completed")
  <2>1. "Clearing_Completed" \in FsmEvents \ {"Receive_OPEN_message"}
    BY Zenon DEF FsmEvents
  <2>2. c \in Conns /\ Typed(u) /\ u.status[c] # "Deleted"
    BY <1>1, <1>2, Zenon
  <2>3. QED
    BY <2>1, <2>2, EventAdds, Zenon
<1>4. /\ Typed(v) /\ v.conf = t.conf /\ v.stub = t.stub /\ v.status = t.status /\ ~v.abort
      /\ v.rib = left /\ v.clear_node_queue = FALSE /\ v.xfer_failed = t.xfer_failed
  BY <1>1, <1>2, <1>3, ZenonT(60) DEF Adds, Own, Apart
<1>5. \A d \in Conns : SameDevices(v, t, d)
  BY <1>2, <1>3, SMTT(60) DEF Adds, Own, Apart, SameDevices
<1>6. /\ \A g : Has(v, c, g) <=> Has(t, c, g) \/ g = "Clearing_Completed"
      /\ \A d \in Conns : d # c => \A g : Has(v, d, g) <=> Has(t, d, g)
  BY <1>2, <1>3, Zenon DEF Adds, Own, Apart, Has
<1>7. ASSUME NEW d \in Conns, d # c PROVE Local(v, 0, "none", d)
  <2>1. Local(t, 0, "none", d) /\ d # 0
    BY Two, Zenon DEF Inv, During, Sound
  <2>2. SameDevices(v, t, d) /\ v.status[d] = t.status[d] /\ d # t.conf
    BY <1>4, <1>5, <1>7, Zenon
  <2>3. \A g : Has(v, d, g) <=> Has(t, d, g)
    BY <1>6, <1>7, Zenon
  <2>4. QED
    BY <1>4, <2>1, <2>2, <2>3, LocalKept, Zenon
<1>8. Local(v, 0, "none", c)
  <2>1. Local(t, 0, "none", c)
    BY <1>1, Zenon DEF Inv, During, Sound
  <2>2. \A g : /\ Pends(v, 0, "none", c, g) <=> Has(v, c, g)
               /\ Pends(t, 0, "none", c, g) <=> Has(t, c, g)
    BY <1>1, Waits, Zenon
  <2>3. /\ Pends(v, 0, "none", c, "Clearing_Completed")
        /\ Pends(v, 0, "none", c, "TCP_connection_open") =>
             Pends(t, 0, "none", c, "TCP_connection_open")
        /\ \A g : Pends(t, 0, "none", c, g) => Pends(v, 0, "none", c, g)
    BY <1>6, <2>2, Zenon
  <2>4. /\ v.check[c] = t.check[c] /\ v.io[c] = t.io[c] /\ v.timers[c] = t.timers[c]
        /\ v.ibuf[c] = t.ibuf[c] /\ v.status[c] = t.status[c] /\ v.conf = t.conf
    BY <1>1, <1>4, <1>5, Zenon DEF SameDevices
  <2>5. QED
    BY <1>1, <2>1, <2>3, <2>4, ZenonT(60) DEF Local
<1>9. Other(c) \in Conns
  BY <1>1, Two, Zenon
<1>10. \A d \in Conns : Dooms(t, 0, "none", d) => Dooms(v, 0, "none", d)
  BY <1>6, Zenon DEF Dooms, Doomed
<1>11. Owners(v) /\ Pair(v, 0, "none")
  BY <1>1, <1>4, <1>9, <1>10, Zenon DEF Inv, During, Owners, Pair
<1>12. v.xfer_failed \/ Routes(v, 0, "none")
  <2>1. SUFFICES ASSUME Routes(t, 0, "none") PROVE Routes(v, 0, "none")
    BY <1>4, Zenon DEF Inv, During, Sound
  <2>2. t.status[c] # "Clearing" => Guarded(t.queue, c) /\ Doomed(t, c)
    BY <1>1, <2>1, Waits, Zenon DEF Routes
  <2>3. t.status[c] # "Clearing" => Guarded(v.queue, c)
    <3>1. Doomed(u, c) <=> Doomed(t, c)
      BY <1>2, Zenon DEF Doomed, Has
    <3>2. Guarded(u.queue, c) /\ Doomed(u, c) => Guarded(v.queue, c)
      BY <1>3, Zenon DEF Adds
    <3>3. QED
      BY <1>2, <2>2, <3>1, <3>2, Zenon
  <2>4. ASSUME NEW d \in Conns, d # c, t.status[d] # "Clearing" PROVE Guarded(v.queue, d)
    <3>1. Guarded(t.queue, d)
      BY <2>1, <2>4, Two, Zenon DEF Routes
    <3>2. Guarded(u.queue, d) => Guarded(v.queue, d)
      BY <1>3, <2>4, Zenon DEF Adds, Own, Apart
    <3>3. QED
      BY <1>2, <3>1, <3>2, Zenon
  <2>5. \A d \in Conns : v.status[d] # "Clearing" => Guarded(v.queue, d)
    BY <1>4, <2>3, <2>4, Zenon
  <2>6. QED
    BY <1>4, <2>5, Two, Zenon DEF Routes
<1>13. \A d \in Conns : Local(v, 0, "none", d)
  BY <1>7, <1>8, Zenon
<1>14. QED
  BY <1>4, <1>11, <1>12, <1>13, Zenon DEF Inv, During, Sound

-----------------------------------------------------------------------------
(* The steps.                                                              *)

\* bgp_process_packet starts or ends.
LEMMA TaskInv ==
    ASSUME NEW t, Inv(t), NEW x \in {0} \cup Conns, NEW n \in 0 .. rpkt_quanta,
           NEW u, u = [t EXCEPT !.task = x, !.processed = n]
    PROVE  Inv(u) /\ u.status = t.status /\ u.ibuf = t.ibuf
<1>1. Typed(t)
  BY Zenon DEF Inv, During, Sound
<1>2. /\ Typed(u) /\ u.conf = t.conf /\ u.stub = t.stub /\ u.status = t.status /\ u.abort = t.abort
      /\ u.queue = t.queue /\ u.rib = t.rib /\ u.clear_node_queue = t.clear_node_queue
      /\ u.xfer_failed = t.xfer_failed
      /\ u.check = t.check /\ u.io = t.io /\ u.timers = t.timers /\ u.ibuf = t.ibuf
  BY <1>1, ZenonT(60) DEF Typed, Rec, Fields
<1>3. Calmer(u, t)
  BY <1>2, Zenon DEF Calmer
<1>4. QED
  BY <1>2, <1>3, CalmerInv, Zenon

\* The I/O pthread adds a task.
LEMMA AddTaskInv ==
    ASSUME NEW t, Inv(t), NEW c \in Conns, t.status[c] # "Deleted", NEW e \in Tasks,
           NEW u, u = AddTask(t, c, e)
    PROVE  Inv(u)
<1>1. Typed(t)
  BY Zenon DEF Inv, During, Sound
<1>2. Adds(u, t, c, e)
  BY <1>1, TaskAdds, Zenon
<1>3. Plain(t, c, e)
  BY Zenon DEF Plain, Tasks
<1>4. QED
  BY <1>2, <1>3, AddsInv, Zenon

\* An event is added that is neither a completion nor an open connection.
LEMMA AddEventInv ==
    ASSUME NEW t, Inv(t), NEW c \in Conns, t.status[c] # "Deleted", NEW e, Plain(t, c, e),
           e \in FsmEvents \ {"Receive_OPEN_message"}, NEW u, u = BGP_EVENT_ADD(t, c, e)
    PROVE  Inv(u)
<1>1. Typed(t)
  BY Zenon DEF Inv, During, Sound
<1>2. Adds(u, t, c, e)
  BY <1>1, EventAdds, Zenon
<1>3. QED
  BY <1>2, AddsInv, Zenon

\* A timer of c, no longer armed in u, raises event e.
Fired(u, t, c, e) ==
    /\ Own(u, t, c) /\ ~u.abort /\ u.queue = t.queue
    /\ u.io[c] = t.io[c] /\ u.check[c] = t.check[c] /\ u.ibuf[c] = t.ibuf[c]
    /\ u.timers[c] \subseteq t.timers[c]
    /\ "start" \in t.timers[c] => "start" \in u.timers[c] \/ e = "BGP_Start"
    /\ "hold" \in t.timers[c] => "hold" \in u.timers[c] \/ e = "Hold_Timer_expired"

\* The timers are like that.
LEMMA Fires ==
    ASSUME NEW t, Inv(t), NEW c \in Conns, NEW e, NEW timers,
           timers \in SUBSET t.timers[c],
           "start" \in t.timers[c] => "start" \in timers \/ e = "BGP_Start",
           "hold" \in t.timers[c] => "hold" \in timers \/ e = "Hold_Timer_expired",
           NEW u, u = [t EXCEPT !.timers[c] = timers]
    PROVE  Fired(u, t, c, e)
<1>1. Typed(t) /\ ~t.abort
  BY Zenon DEF Inv, During, Sound
<1>2. PICK f : f = [t.timers EXCEPT ![c] = timers]
  BY Zenon
<1>3. /\ f \in [Conns -> SUBSET {"start", "connect", "hold"}] /\ f[c] = timers
      /\ \A d \in Conns : d # c => f[d] = t.timers[d]
  <2>1. /\ t.timers \in [Conns -> SUBSET {"start", "connect", "hold"}]
        /\ timers \in SUBSET {"start", "connect", "hold"}
    BY <1>1, Zenon DEF Typed
  <2>2. QED
    BY <1>2, <2>1, Update, Zenon
<1>4. u = [t EXCEPT !.timers = f]
  BY <1>2, Zenon
<1>5. /\ Typed(u) /\ Shares(u, t) /\ u.abort = t.abort /\ u.fd = t.fd /\ u.check = t.check
      /\ u.io = t.io /\ u.ibuf = t.ibuf /\ u.timers = f
  BY <1>1, <1>3, <1>4, ZenonT(60) DEF Typed, Rec, Fields, Shares
<1>6. Own(u, t, c)
  BY <1>3, <1>5, Devices, Zenon DEF SameDevices
<1>7. u.timers[c] = timers /\ u.queue = t.queue
  BY <1>3, <1>5, Zenon DEF Shares
<1>8. QED
  BY <1>1, <1>5, <1>6, <1>7, Zenon DEF Fired

\* The event is handled at once.
LEMMA FiredHandled ==
    ASSUME CancelRests, NEW t, Inv(t), NEW c \in Conns, t.status[c] # "Deleted", NEW e \in FsmEvents,
           Plain(t, c, e), e # "Receive_OPEN_message", NEW u, Fired(u, t, c, e),
           NEW result \in Results, NEW r, r = bgp_event_update(u, c, e, result)
    PROVE  Inv(r.s)
<1>1. /\ Own(u, t, c) /\ ~u.abort /\ u.queue = t.queue
      /\ u.io[c] = t.io[c] /\ u.check[c] = t.check[c]
      /\ u.ibuf[c] # <<>> => t.ibuf[c] # <<>>
      /\ u.timers[c] \subseteq t.timers[c]
      /\ "start" \in t.timers[c] => "start" \in u.timers[c] \/ e = "BGP_Start"
      /\ "hold" \in t.timers[c] => "hold" \in u.timers[c] \/ e = "Hold_Timer_expired"
  BY Zenon DEF Fired
<1>2. During(u, c, e)
  BY <1>1, Takes, Zenon
<1>3. u.status[c] # "Deleted"
  BY <1>1, Zenon DEF Own
<1>4. Accepted(u, c, e)
  BY Zenon DEF Accepted
<1>5. Handled(r, u, c)
  BY <1>2, <1>3, <1>4, Handles, Zenon
<1>6. QED
  BY <1>5, Zenon DEF Handled

\* An armed timer belongs to a connection that exists.
LEMMA TimerOwned ==
    ASSUME NEW t, Inv(t), NEW c \in Conns, t.timers[c] # {}
    PROVE  t.status[c] # "Deleted"
  BY Zenon DEF Inv, During, Sound, Local

\* The event loop runs the first task of the list, an event of bgp_event_update or
\* the packet code's task, and the invariant is kept.
LEMMA RunTaskInv ==
    ASSUME CancelRests, Inv(s), NEW c \in Conns, NEW result \in Results, RunTask(c, result)
    PROVE  Inv(s')
<1>1. PICK t : t = s
  BY Zenon
<1>2. PICK v : v = s'
  BY Zenon
<1>3. PICK h : h = Head(t.queue)
  BY Zenon
<1>4. PICK e : e = h.event
  BY Zenon
<1>5. PICK u : u = [t EXCEPT !.queue = Tail(@)]
  BY Zenon
<1>6. PICK code : code = CASE e = "closed" -> "TCP_connection_closed"
                           [] e = "fatal" -> "TCP_fatal_error"
                           [] OTHER -> e
  BY Zenon
<1>7. /\ t.queue # <<>> /\ c = h.conn
      /\ v = IF e # "bgp_process_packet" THEN bgp_event_update(u, c, code, result).s
             ELSE IF u.status[c] \in {"Deleted", "Clearing"} THEN u
             ELSE [u EXCEPT !.task = c]
  BY <1>1, <1>2, <1>3, <1>4, <1>5, <1>6, ZenonT(60) DEF RunTask
<1>8. /\ e \in Events \ {"Receive_OPEN_message"} /\ u.status[c] # "Deleted" /\ During(u, c, e)
  BY <1>1, <1>3, <1>4, <1>5, <1>7, Dequeues, SMTT(60)
<1>9. CASE e \in FsmEvents
  <2>1. code = e /\ e # "bgp_process_packet"
    BY <1>6, <1>9, Zenon DEF FsmEvents
  <2>2. Accepted(u, c, e)
    BY <1>8, Zenon DEF Accepted
  <2>3. PICK r : r = bgp_event_update(u, c, e, result)
    BY Zenon
  <2>4. Handled(r, u, c)
    BY <1>8, <1>9, <2>2, <2>3, Handles, Zenon
  <2>5. v = r.s
    BY <1>7, <2>1, <2>3, Zenon
  <2>6. QED
    BY <1>2, <2>4, <2>5, Zenon DEF Handled
<1>10. CASE e \in Tasks
  <2>1. Inv(u)
    BY <1>8, <1>10, TaskTaken, Zenon
  <2>2. Typed(u) /\ ~u.abort
    BY <2>1, Zenon DEF Inv, During, Sound
  <2>3. CASE e # "bgp_process_packet"
    <3>1. /\ code \in FsmEvents /\ Plain(u, c, code) /\ code # "Receive_OPEN_message"
      BY <1>6, <1>10, <2>3, Zenon DEF Tasks, FsmEvents, Plain
    <3>2. Fired(u, u, c, code)
      BY <2>2, OwnSelf, Zenon DEF Fired
    <3>3. PICK r : r = bgp_event_update(u, c, code, result)
      BY Zenon
    <3>4. Inv(r.s)
      BY <1>8, <2>1, <3>1, <3>2, <3>3, FiredHandled, ZenonT(60)
    <3>5. v = r.s
      BY <1>7, <2>3, <3>3, Zenon
    <3>6. QED
      BY <1>2, <3>4, <3>5, Zenon
  <2>4. CASE e = "bgp_process_packet"
    <3>1. CASE v = u
      BY <1>2, <2>1, <3>1, Zenon
    <3>2. CASE v = [u EXCEPT !.task = c]
      <4>1. v = [u EXCEPT !.task = c, !.processed = u.processed]
        BY <2>2, <3>2, Zenon DEF Typed, Rec, Fields
      <4>2. u.processed \in 0 .. rpkt_quanta
        BY <2>2, Zenon DEF Typed
      <4>3. Inv(v)
        BY <2>1, <4>1, <4>2, TaskInv, ZenonT(60)
      <4>4. QED
        BY <1>2, <4>3, Zenon
    <3>3. QED
      BY <1>7, <2>4, <3>1, <3>2, Zenon
  <2>5. QED
    BY <2>3, <2>4, Zenon
<1>11. QED
  BY <1>8, <1>9, <1>10, Zenon DEF Events

\* bgp_process_packet takes a packet of an open connection, raises its event and
\* handles it; the invariant is kept.
LEMMA ProcessPacketInv ==
    ASSUME CancelRests, Inv(s), NEW c \in Conns, NEW result \in Results, ProcessPacket(c, result)
    PROVE  Inv(s')
<1>1. PICK t : t = s
  BY Zenon
<1>2. PICK v : v = s'
  BY Zenon
<1>3. PICK u : u = [t EXCEPT !.ibuf[c] = Tail(@), !.processed = @ + 1]
  BY Zenon
<1>4. PICK got : got = Receive(u, c, Head(t.ibuf[c]))
  BY Zenon
<1>5. PICK r : r = bgp_event_update(got.s, c, got.event, result)
  BY Zenon
<1>6. /\ t.ibuf[c] # <<>> /\ t.processed < rpkt_quanta
      /\ v = IF r.ret = "OK" THEN r.s ELSE [r.s EXCEPT !.task = 0, !.processed = 0]
  BY <1>1, <1>2, <1>3, <1>4, <1>5, Zenon DEF ProcessPacket
<1>7. Typed(t) /\ Local(t, 0, "none", c) /\ Inv(t)
  BY <1>1, Zenon DEF Inv, During, Sound
<1>8. t.status[c] \in Open
  BY <1>6, <1>7, Zenon DEF Local
<1>9. PICK ibuf : ibuf = [t.ibuf EXCEPT ![c] = Tail(@)]
  BY Zenon
<1>10. /\ ibuf \in [Conns -> Seq(Packets)]
       /\ \A d \in Conns : d # c => ibuf[d] = t.ibuf[d]
  <2>1. t.ibuf \in [Conns -> Seq(Packets)] /\ t.ibuf[c] \in Seq(Packets)
    BY <1>7, Zenon DEF Typed
  <2>2. Tail(t.ibuf[c]) \in Seq(Packets)
    BY <1>6, <2>1, SMTT(60)
  <2>3. QED
    BY <1>9, <2>1, <2>2, Update, Zenon
<1>11. t.processed + 1 \in 0 .. rpkt_quanta
  BY <1>6, <1>7, FsmAssumption, SMTT(60) DEF Typed
<1>12. u = [t EXCEPT !.ibuf = ibuf, !.processed = t.processed + 1]
  BY <1>3, <1>9, Zenon
<1>13. /\ Typed(u) /\ u.conf = t.conf /\ u.stub = t.stub /\ u.status = t.status
       /\ u.abort = t.abort /\ u.queue = t.queue /\ u.rib = t.rib
       /\ u.clear_node_queue = t.clear_node_queue /\ u.xfer_failed = t.xfer_failed
       /\ u.check = t.check /\ u.io = t.io /\ u.timers = t.timers /\ u.ibuf = ibuf
  BY <1>7, <1>10, <1>11, <1>12, ZenonT(60) DEF Typed, Rec, Fields
<1>14. Calmer(u, t)
  BY <1>6, <1>10, <1>13, Zenon DEF Calmer
<1>15. Inv(u)
  BY <1>7, <1>14, CalmerInv, Zenon
<1>16. Raises(got.s, got.event, u, c)
  BY <1>4, <1>8, <1>13, <1>15, PacketRaises, ZenonT(60)
<1>17. Inv(r.s)
  BY <1>5, <1>8, <1>13, <1>16, RaisedHandled, Zenon
<1>18. 0 \in 0 .. rpkt_quanta
  BY FsmAssumption, SMTT(60)
<1>19. Inv(v)
  <2>1. CASE v = r.s
    BY <1>17, <2>1, Zenon
  <2>2. CASE v = [r.s EXCEPT !.task = 0, !.processed = 0]
    <3>1. PICK x : x = r.s
      BY Zenon
    <3>2. Inv(x) /\ v = [x EXCEPT !.task = 0, !.processed = 0]
      BY <1>17, <2>2, <3>1, Zenon
    <3>3. QED
      BY <1>18, <3>2, TaskInv, Zenon
  <2>3. QED
    BY <1>6, <2>1, <2>2, Zenon
<1>20. QED
  BY <1>2, <1>19, Zenon

\* bgp_process_packet returns.
LEMMA TaskEnds ==
    ASSUME NEW t, Inv(t), NEW u, u = [t EXCEPT !.task = 0, !.processed = 0]
    PROVE  Inv(u) /\ u.status = t.status /\ u.ibuf = t.ibuf
<1>1. 0 \in 0 .. rpkt_quanta
  BY FsmAssumption, SMTT(60)
<1>2. Inv(u)
  BY <1>1, TaskInv, Zenon
<1>3. u.status = t.status /\ u.ibuf = t.ibuf
  BY Zenon DEF Inv, During, Sound, Typed, Rec, Fields
<1>4. QED
  BY <1>2, <1>3, Zenon

\* bgp_process_packet ends, and comes back when packets are left; the invariant is
\* kept.
LEMMA ProcessEndsInv ==
    ASSUME Inv(s), NEW c \in Conns, ProcessEnds(c)
    PROVE  Inv(s')
<1>1. PICK t : t = s
  BY Zenon
<1>2. PICK v : v = s'
  BY Zenon
<1>3. PICK u : u = [t EXCEPT !.task = 0, !.processed = 0]
  BY Zenon
<1>4. v = IF t.ibuf[c] = <<>> THEN u ELSE AddTask(u, c, "bgp_process_packet")
  BY <1>1, <1>2, <1>3, Zenon DEF ProcessEnds
<1>5. 0 \in 0 .. rpkt_quanta
  BY FsmAssumption, SMTT(60)
<1>6. Inv(u) /\ u.status = t.status /\ u.ibuf = t.ibuf
  <2>1. Inv(t) /\ 0 \in {0} \cup Conns
    BY <1>1, Zenon
  <2>2. QED
    BY <1>3, <2>1, TaskEnds, Zenon
<1>7. CASE t.ibuf[c] = <<>>
  BY <1>2, <1>4, <1>6, <1>7, Zenon
<1>8. CASE t.ibuf[c] # <<>>
  <2>1. u.status[c] # "Deleted"
    BY <1>1, <1>6, <1>8, Zenon DEF Inv, During, Sound, Local, Open
  <2>2. "bgp_process_packet" \in Tasks /\ v = AddTask(u, c, "bgp_process_packet")
    BY <1>4, <1>8, Zenon DEF Tasks
  <2>3. Inv(v)
    BY <1>6, <2>1, <2>2, AddTaskInv, Zenon
  <2>4. QED
    BY <1>2, <2>3, Zenon
<1>9. QED
  BY <1>7, <1>8, Zenon

\* bgp_start_timer runs out and BGP_Start is handled; the invariant is kept.
LEMMA StartTimerInv ==
    ASSUME CancelRests, Inv(s), NEW c \in Conns, NEW result \in Results, bgp_start_timer(c, result)
    PROVE  Inv(s')
<1>1. PICK t : t = s
  BY Zenon
<1>2. PICK v : v = s'
  BY Zenon
<1>3. PICK timers : timers = t.timers[c] \ {"start"}
  BY Zenon
<1>4. PICK u : u = [t EXCEPT !.timers[c] = timers]
  BY Zenon
<1>5. PICK r : r = bgp_event_update(u, c, "BGP_Start", result)
  BY Zenon
<1>6. Inv(t) /\ "start" \in t.timers[c] /\ v = r.s
  BY <1>1, <1>2, <1>3, <1>4, <1>5, Zenon DEF bgp_start_timer
<1>7. Fired(u, t, c, "BGP_Start")
  BY <1>3, <1>4, <1>6, Fires, Zenon
<1>8. t.status[c] # "Deleted"
  BY <1>6, TimerOwned, Zenon
<1>9. "BGP_Start" \in FsmEvents /\ Plain(t, c, "BGP_Start")
  BY Zenon DEF FsmEvents, Plain
<1>10. Inv(r.s)
  BY <1>5, <1>6, <1>7, <1>8, <1>9, FiredHandled, ZenonT(60)
<1>11. QED
  BY <1>2, <1>6, <1>10, Zenon

\* bgp_connect_timer finds the I/O pthread off the connection, so its assertion
\* holds; it stops the stub or tries the configured peer's connection again.
LEMMA ConnectTimerInv ==
    ASSUME CancelRests, Inv(s), NEW c \in Conns, NEW result \in Results, bgp_connect_timer(c, result)
    PROVE  Inv(s')
<1>1. PICK t : t = s
  BY Zenon
<1>2. PICK v : v = s'
  BY Zenon
<1>3. PICK timers : timers = t.timers[c] \ {"connect"}
  BY Zenon
<1>4. PICK u : u = [t EXCEPT !.timers[c] = timers]
  BY Zenon
<1>5. PICK w : w = [t EXCEPT !.timers[c] = @ \ {"connect"}, !.abort = @ \/ t.io[c] # "off"]
  BY Zenon
<1>6. /\ Inv(t) /\ "connect" \in t.timers[c]
      /\ v = IF IsStub(w, c) THEN bgp_stop(w, c).s
             ELSE bgp_event_update(w, c, "ConnectRetry_timer_expired", result).s
  BY <1>1, <1>2, <1>5, Zenon DEF bgp_connect_timer
<1>7. /\ Typed(t) /\ ~t.abort /\ Owners(t) /\ Local(t, 0, "none", c)
  BY <1>6, Zenon DEF Inv, During, Sound
<1>8. t.status[c] \in {"Connect", "Active"} /\ t.io[c] = "off"
  BY <1>6, <1>7, Zenon DEF Local, Open
<1>9. w = u
  <2>1. PICK all : all = [t.timers EXCEPT ![c] = timers]
    BY Zenon
  <2>2. PICK abort \in BOOLEAN : abort = (t.abort \/ t.io[c] # "off")
    BY Zenon
  <2>3. abort = t.abort
    BY <1>7, <1>8, <2>2, Zenon DEF Typed
  <2>4. u = [t EXCEPT !.timers = all]
    BY <1>4, <2>1, Zenon
  <2>5. w = [t EXCEPT !.timers = all, !.abort = t.abort]
    BY <1>3, <1>5, <2>1, <2>2, <2>3, ZenonT(60)
  <2>6. QED
    BY <1>7, <2>4, <2>5, Zenon DEF Typed, Rec, Fields
<1>10. CASE IsStub(u, c)
  <2>1. Fired(u, t, c, "BGP_Stop")
    BY <1>3, <1>4, <1>6, Fires, Zenon
  <2>2. Own(u, t, c) /\ u.abort = t.abort
    BY <1>7, <2>1, Zenon DEF Fired, Own, Apart, Typed
  <2>3. IsStub(t, c)
    BY <1>10, <2>2, Zenon DEF IsStub, Own, Apart
  <2>4. "BGP_Stop" \in FsmEvents /\ Plain(t, c, "BGP_Stop")
    BY Zenon DEF FsmEvents, Plain
  <2>5. During(t, c, "BGP_Stop")
    BY <1>6, <1>7, <1>8, <2>4, OwnSelf, Takes, Zenon
  <2>6. PICK r : r = bgp_stop(u, c)
    BY Zenon
  <2>7. Inv(r.s)
    BY <1>8, <2>2, <2>3, <2>5, <2>6, StubStopped, ZenonT(60)
  <2>8. v = r.s
    BY <1>6, <1>9, <1>10, <2>6, ZenonT(60)
  <2>9. QED
    BY <1>2, <2>7, <2>8, Zenon
<1>11. CASE ~IsStub(u, c)
  <2>1. Fired(u, t, c, "ConnectRetry_timer_expired")
    BY <1>3, <1>4, <1>6, Fires, Zenon
  <2>2. c = t.conf
    <3>1. ~IsStub(t, c)
      BY <1>11, <2>1, Zenon DEF Fired, Own, Apart, IsStub
    <3>2. QED
      BY <1>7, <1>8, <3>1, Whose, Zenon
  <2>3. "ConnectRetry_timer_expired" \in FsmEvents /\ Plain(t, c, "ConnectRetry_timer_expired")
    BY <2>2, Zenon DEF FsmEvents, Plain
  <2>4. PICK r : r = bgp_event_update(u, c, "ConnectRetry_timer_expired", result)
    BY Zenon
  <2>5. t.status[c] # "Deleted"
    BY <1>8, Zenon
  <2>6. Inv(r.s)
    BY <1>6, <2>1, <2>3, <2>4, <2>5, FiredHandled, ZenonT(60)
  <2>7. v = r.s
    BY <1>6, <1>9, <1>11, <2>4, Zenon
  <2>8. QED
    BY <1>2, <2>6, <2>7, Zenon
<1>12. QED
  BY <1>10, <1>11, Zenon

\* bgp_holdtime_timer stops the session, or waits once more when packets are
\* waiting to be processed; the invariant is kept.
LEMMA HoldTimerInv ==
    ASSUME CancelRests, Inv(s), NEW c \in Conns, bgp_holdtime_timer(c)
    PROVE  Inv(s')
<1>1. PICK t : t = s
  BY Zenon
<1>2. PICK v : v = s'
  BY Zenon
<1>3. PICK timers : timers = IF t.ibuf[c] = <<>> THEN t.timers[c] \ {"hold"} ELSE t.timers[c]
  BY Zenon
<1>4. PICK u : u = [t EXCEPT !.timers[c] = timers]
  BY Zenon
<1>5. PICK r : r = bgp_event_update(u, c, "Hold_Timer_expired", "connect_error")
  BY Zenon
<1>6. Inv(t) /\ "hold" \in t.timers[c] /\ v = r.s
  BY <1>1, <1>2, <1>3, <1>4, <1>5, Zenon DEF bgp_holdtime_timer
<1>7. Fired(u, t, c, "Hold_Timer_expired")
  BY <1>3, <1>4, <1>6, Fires, Zenon
<1>8. t.status[c] # "Deleted"
  BY <1>6, TimerOwned, Zenon
<1>9. /\ "Hold_Timer_expired" \in FsmEvents /\ Plain(t, c, "Hold_Timer_expired")
      /\ "connect_error" \in Results
  BY Zenon DEF FsmEvents, Plain, Results
<1>10. Inv(r.s)
  BY <1>5, <1>6, <1>7, <1>8, <1>9, FiredHandled, ZenonT(60)
<1>11. QED
  BY <1>2, <1>6, <1>10, Zenon

\* What becomes of the socket alone is no matter to the invariant.
LEMMA SocketInv ==
    ASSUME NEW t, Inv(t), NEW c \in Conns, NEW x \in {"none", "connecting", "up", "fin", "reset"},
           NEW u, u = [t EXCEPT !.fd[c] = x]
    PROVE  Inv(u) /\ u.status = t.status /\ u.io = t.io
<1>1. Typed(t)
  BY Zenon DEF Inv, During, Sound
<1>2. PICK fd : fd = [t.fd EXCEPT ![c] = x]
  BY Zenon
<1>3. fd \in [Conns -> {"none", "connecting", "up", "fin", "reset"}]
  BY <1>1, <1>2, Update, Zenon DEF Typed
<1>4. u = [t EXCEPT !.fd = fd]
  BY <1>2, Zenon
<1>5. /\ Typed(u) /\ u.conf = t.conf /\ u.stub = t.stub /\ u.status = t.status
      /\ u.abort = t.abort /\ u.queue = t.queue /\ u.rib = t.rib
      /\ u.clear_node_queue = t.clear_node_queue /\ u.xfer_failed = t.xfer_failed
      /\ u.check = t.check /\ u.io = t.io /\ u.timers = t.timers /\ u.ibuf = t.ibuf
  BY <1>1, <1>3, <1>4, ZenonT(60) DEF Typed, Rec, Fields
<1>6. Calmer(u, t)
  BY <1>5, Zenon DEF Calmer
<1>7. QED
  BY <1>5, <1>6, CalmerInv, Zenon

\* bgp_connect_check finds the I/O pthread off the connection, so its assertion
\* holds; the result of the connect becomes an event and the invariant is kept.
LEMMA ConnectCheckInv ==
    ASSUME Inv(s), NEW c \in Conns, bgp_connect_check(c)
    PROVE  Inv(s')
<1>1. PICK t : t = s
  BY Zenon
<1>2. PICK v : v = s'
  BY Zenon
<1>3. PICK u : u = [t EXCEPT !.check[c] = FALSE, !.abort = @ \/ t.io[c] # "off"]
  BY Zenon
<1>4. /\ Inv(t) /\ t.check[c]
      /\ v \in {[BGP_EVENT_ADD(u, c, "TCP_connection_open") EXCEPT !.fd[c] = "up"],
                BGP_EVENT_ADD(u, c, "TCP_connection_open_failed"),
                BGP_EVENT_ADD(u, c, "TCP_fatal_error")}
  BY <1>1, <1>2, <1>3, ZenonT(60) DEF bgp_connect_check
<1>5. /\ Typed(t) /\ ~t.abort /\ Local(t, 0, "none", c)
  BY <1>4, Zenon DEF Inv, During, Sound
<1>6. t.status[c] = "Connect" /\ t.io[c] = "off"
  BY <1>4, <1>5, ZenonT(60) DEF Local, Open
<1>7. PICK check : check = [t.check EXCEPT ![c] = FALSE]
  BY Zenon
<1>8. /\ check \in [Conns -> BOOLEAN] /\ check[c] = FALSE
      /\ \A d \in Conns : d # c => check[d] = t.check[d]
  BY <1>5, <1>7, Update, ZenonT(60) DEF Typed
<1>9. PICK abort \in BOOLEAN : abort = (t.abort \/ t.io[c] # "off")
  BY Zenon
<1>10. u = [t EXCEPT !.check = check, !.abort = abort] /\ abort = FALSE
  BY <1>3, <1>5, <1>6, <1>7, <1>9, ZenonT(60)
<1>11. t.abort = FALSE
  BY <1>5, Zenon DEF Typed
<1>12. /\ Typed(u) /\ u.conf = t.conf /\ u.stub = t.stub /\ u.status = t.status
       /\ u.abort = t.abort /\ u.queue = t.queue /\ u.rib = t.rib
       /\ u.clear_node_queue = t.clear_node_queue /\ u.xfer_failed = t.xfer_failed
       /\ u.check = check /\ u.io = t.io /\ u.timers = t.timers /\ u.ibuf = t.ibuf
  BY <1>5, <1>8, <1>10, <1>11, ZenonT(60) DEF Typed, Rec, Fields
<1>13. Calmer(u, t)
  BY <1>4, <1>8, <1>12, ZenonT(60) DEF Calmer
<1>14. Inv(u) /\ u.status[c] = "Connect" /\ ~u.check[c] /\ u.status[c] # "Deleted"
  BY <1>4, <1>6, <1>8, <1>12, <1>13, CalmerInv, ZenonT(60)
<1>15. CASE v = [BGP_EVENT_ADD(u, c, "TCP_connection_open") EXCEPT !.fd[c] = "up"]
  <2>1. PICK w : w = BGP_EVENT_ADD(u, c, "TCP_connection_open")
    BY Zenon
  <2>2. Inv(w)
    BY <1>14, <2>1, ChecksInv, ZenonT(60)
  <2>3. v = [w EXCEPT !.fd[c] = "up"]
    BY <1>15, <2>1, ZenonT(60)
  <2>4. Inv(v)
    BY <2>2, <2>3, SocketInv, Zenon
  <2>5. QED
    BY <1>2, <2>4, Zenon
<1>16. ASSUME NEW e \in {"TCP_connection_open_failed", "TCP_fatal_error"}, v = BGP_EVENT_ADD(u, c, e)
       PROVE  Inv(s')
  <2>1. e \in FsmEvents \ {"Receive_OPEN_message"} /\ Plain(u, c, e)
    BY Zenon DEF FsmEvents, Plain
  <2>2. Inv(v)
    BY <1>14, <1>16, <2>1, AddEventInv, ZenonT(60)
  <2>3. QED
    BY <1>2, <2>2, Zenon
<1>17. QED
  BY <1>4, <1>15, <1>16, Zenon

\* The doppelganger, if there is one, is deleted, as bgp_accept and peer_clear do.
LEMMA StubGone ==
    ASSUME CancelRests, NEW t, Inv(t), NEW c, c = Other(t.conf),
           NEW w, w = IF t.stub THEN peer_delete(t, c) ELSE t
    PROVE  Inv(w) /\ ~w.stub /\ w.conf = t.conf /\ w.status[w.conf] = t.status[t.conf]
<1>1. Typed(t) /\ Owners(t) /\ Sound(t, 0, "none")
  BY Zenon DEF Inv, During, Sound
<1>2. c \in Conns /\ c # t.conf /\ t.conf \in Conns /\ t.conf # 0
  BY <1>1, Two, Zenon DEF Typed
<1>3. CASE ~t.stub
  BY <1>3, Zenon
<1>4. CASE t.stub
  <2>1. t.status[c] # "Deleted"
    BY <1>1, <1>4, Zenon DEF Owners
  <2>2. w = peer_delete(t, c)
    BY <1>4, Zenon
  <2>3. Gone(w, t, c)
    BY <1>1, <1>2, <2>1, <2>2, Deletes, ZenonT(60)
  <2>4. Inv(w)
    BY <1>1, <1>2, <2>3, GoneInv, ZenonT(60)
  <2>5. ~w.stub /\ w.conf = t.conf /\ w.status = [t.status EXCEPT ![c] = "Deleted"]
    BY <2>3, Zenon DEF Gone
  <2>6. w.status[w.conf] = t.status[t.conf]
    BY <1>1, <1>2, <2>5, SMTT(60) DEF Typed
  <2>7. QED
    BY <2>4, <2>5, <2>6, Zenon
<1>5. QED
  BY <1>3, <1>4, Zenon

\* bgp_accept replaces the doppelganger and the invariant is kept; it does nothing
\* while the configured peer is Clearing.
LEMMA AcceptInv ==
    ASSUME CancelRests, Inv(s), bgp_accept
    PROVE  Inv(s')
<1>1. PICK t : t = s
  BY Zenon
<1>2. PICK v : v = s'
  BY Zenon
<1>3. PICK c : c = Other(t.conf)
  BY Zenon
<1>4. PICK w : w = IF t.stub THEN peer_delete(t, c) ELSE t
  BY Zenon
<1>5. PICK u : u = [w EXCEPT !.stub = TRUE, !.status[c] = "Active", !.fd[c] = "up"]
  BY Zenon
<1>6. Inv(t) /\ t.status[t.conf] # "Clearing" /\ v = BGP_EVENT_ADD(u, c, "TCP_connection_open")
  BY <1>1, <1>2, <1>3, <1>4, <1>5, ZenonT(60) DEF bgp_accept
<1>7. Inv(w) /\ ~w.stub /\ w.conf = t.conf /\ w.status[w.conf] # "Clearing"
  BY <1>3, <1>4, <1>6, StubGone, SMTT(60)
<1>8. Inv(v)
  BY <1>3, <1>5, <1>6, <1>7, AcceptsInv, Zenon
<1>9. QED
  BY <1>2, <1>8, Zenon

\* bgp_clear_node_complete reports the end of the removal of routes to a peer that
\* is Clearing, or that an event will stop; the invariant is kept.
LEMMA ClearNodeInv ==
    ASSUME Inv(s), bgp_clear_node_complete
    PROVE  Inv(s')
<1>1. PICK t : t = s
  BY Zenon
<1>2. PICK v : v = s'
  BY Zenon
<1>3. PICK c : c = t.conf
  BY Zenon
<1>4. PICK left \in BOOLEAN :
        /\ left => t.status[c] = "Established"
        /\ v = BGP_EVENT_ADD([t EXCEPT !.clear_node_queue = FALSE, !.rib = left],
                             c, "Clearing_Completed")
  BY <1>1, <1>2, <1>3, Zenon DEF bgp_clear_node_complete
<1>5. PICK u : u = [t EXCEPT !.clear_node_queue = FALSE, !.rib = left]
  BY Zenon
<1>6. v = BGP_EVENT_ADD(u, c, "Clearing_Completed")
  BY <1>4, <1>5, Zenon
<1>7. Inv(t) /\ t.clear_node_queue
  BY <1>1, Zenon DEF bgp_clear_node_complete
<1>8. Inv(v)
  BY <1>3, <1>4, <1>5, <1>6, <1>7, ClearsInv, ZenonT(60)
<1>9. QED
  BY <1>2, <1>8, Zenon

\* bgp_process_reads takes a packet from an open connection; the invariant is kept.
LEMMA ReadsInv ==
    ASSUME Inv(s), NEW c \in Conns, bgp_process_reads(c)
    PROVE  Inv(s')
<1>1. PICK t : t = s
  BY Zenon
<1>2. PICK v : v = s'
  BY Zenon
<1>3. PICK packet \in Sendable(t.sent[c]) :
        v = AddTask([t EXCEPT !.ibuf[c] = Append(@, packet),
                              !.sent[c] = IF packet = "NOTIFICATION" THEN MaxPackets ELSE @ + 1],
                    c, "bgp_process_packet")
  BY <1>1, <1>2, Zenon DEF bgp_process_reads
<1>4. Inv(t) /\ t.io[c] = "on" /\ t.sent[c] < MaxPackets
  BY <1>1, Zenon DEF bgp_process_reads
<1>5. Typed(t) /\ Local(t, 0, "none", c)
  BY <1>4, Zenon DEF Inv, During, Sound
<1>6. t.status[c] # "Deleted"
  BY <1>4, <1>5, Zenon DEF Local, Open
<1>7. PICK n : n = IF packet = "NOTIFICATION" THEN MaxPackets ELSE t.sent[c] + 1
  BY Zenon
<1>8. n \in 0 .. MaxPackets
  <2>1. t.sent[c] \in 0 .. MaxPackets /\ MaxPackets \in Nat
    BY <1>5, FsmAssumption, Zenon DEF Typed
  <2>2. QED
    BY <1>4, <1>7, <2>1, SMTT(60)
<1>9. packet \in Packets
  BY <1>3, Zenon DEF Sendable, Packets
<1>10. PICK buffer : buffer = Append(t.ibuf[c], packet)
  BY Zenon
<1>11. buffer \in Seq(Packets)
  <2>1. t.ibuf[c] \in Seq(Packets)
    BY <1>5, Zenon DEF Typed
  <2>2. QED
    BY <1>9, <1>10, <2>1, SMTT(60)
<1>12. PICK ibuf : ibuf = [t.ibuf EXCEPT ![c] = buffer]
  BY Zenon
<1>13. ibuf \in [Conns -> Seq(Packets)] /\ \A d \in Conns : d # c => ibuf[d] = t.ibuf[d]
  BY <1>5, <1>11, <1>12, Update, ZenonT(60) DEF Typed
<1>14. PICK sent : sent = [t.sent EXCEPT ![c] = n]
  BY Zenon
<1>15. sent \in [Conns -> 0 .. MaxPackets]
  BY <1>5, <1>8, <1>14, Update, Zenon DEF Typed
<1>16. PICK u : u = [t EXCEPT !.ibuf = ibuf, !.sent = sent]
  BY Zenon
<1>17. v = AddTask(u, c, "bgp_process_packet")
  BY <1>3, <1>7, <1>10, <1>12, <1>14, <1>16, ZenonT(60)
<1>18. /\ Typed(u) /\ u.conf = t.conf /\ u.stub = t.stub /\ u.status = t.status
       /\ u.abort = t.abort /\ u.queue = t.queue /\ u.rib = t.rib
       /\ u.clear_node_queue = t.clear_node_queue /\ u.xfer_failed = t.xfer_failed
       /\ u.check = t.check /\ u.io = t.io /\ u.timers = t.timers /\ u.ibuf = ibuf
  BY <1>5, <1>13, <1>15, <1>16, ZenonT(60) DEF Typed, Rec, Fields
<1>19. Calmer(u, t)
  BY <1>4, <1>13, <1>18, Zenon DEF Calmer
<1>20. Inv(u) /\ u.status[c] # "Deleted"
  BY <1>4, <1>6, <1>18, <1>19, CalmerInv, ZenonT(60)
<1>21. Inv(v)
  BY <1>17, <1>20, AddTaskInv, ZenonT(60) DEF Tasks
<1>22. QED
  BY <1>2, <1>21, Zenon

\* A connection that breaks keeps the invariant until someone reads it.
LEMMA BreaksInv ==
    ASSUME Inv(s), NEW c \in Conns, Breaks(c)
    PROVE  Inv(s')
<1>1. PICK t : t = s
  BY Zenon
<1>2. PICK v : v = s'
  BY Zenon
<1>3. Inv(t) /\ v = [t EXCEPT !.fd[c] = "reset"]
  BY <1>1, <1>2, Zenon DEF Breaks
<1>4. Inv(v)
  BY <1>3, SocketInv, Zenon
<1>5. QED
  BY <1>2, <1>4, Zenon

\* The I/O pthread gives a connection up that it reads.
LEMMA DiesInv ==
    ASSUME NEW t, Inv(t), NEW c \in Conns, t.io[c] = "on", NEW u, u = [t EXCEPT !.io[c] = "dead"]
    PROVE  Inv(u) /\ u.status[c] # "Deleted"
<1>1. Typed(t) /\ Local(t, 0, "none", c)
  BY Zenon DEF Inv, During, Sound
<1>2. PICK io : io = [t.io EXCEPT ![c] = "dead"]
  BY Zenon
<1>3. /\ io \in [Conns -> {"off", "on", "dead"}]
      /\ \A d \in Conns : d # c => io[d] = t.io[d]
  BY <1>1, <1>2, Update, Zenon DEF Typed
<1>4. u = [t EXCEPT !.io = io]
  BY <1>2, Zenon
<1>5. /\ Typed(u) /\ u.conf = t.conf /\ u.stub = t.stub /\ u.status = t.status
      /\ u.abort = t.abort /\ u.queue = t.queue /\ u.rib = t.rib
      /\ u.clear_node_queue = t.clear_node_queue /\ u.xfer_failed = t.xfer_failed
      /\ u.check = t.check /\ u.io = io /\ u.timers = t.timers /\ u.ibuf = t.ibuf
  BY <1>1, <1>3, <1>4, ZenonT(60) DEF Typed, Rec, Fields
<1>6. Calmer(u, t)
  BY <1>3, <1>5, Zenon DEF Calmer
<1>7. t.status[c] # "Deleted"
  BY <1>1, Zenon DEF Local, Open
<1>8. QED
  BY <1>5, <1>6, <1>7, CalmerInv, Zenon

\* bgp_process_reads that fails leaves its task for a connection that is open.
LEMMA ReadFailsInv ==
    ASSUME Inv(s), NEW c \in Conns, ReadFails(c)
    PROVE  Inv(s')
<1>1. PICK t : t = s
  BY Zenon
<1>2. PICK v : v = s'
  BY Zenon
<1>3. PICK u : u = [t EXCEPT !.io[c] = "dead"]
  BY Zenon
<1>4. /\ Inv(t) /\ t.io[c] = "on"
      /\ \/ v = AddTask(u, c, "fatal")
         \/ v = AddTask([t EXCEPT !.io[c] = "dead", !.fd[c] = "fin"], c, "closed")
  BY <1>1, <1>2, <1>3, Zenon DEF ReadFails
<1>5. Inv(u) /\ u.status[c] # "Deleted"
  BY <1>3, <1>4, DiesInv, Zenon
<1>6. CASE v = AddTask(u, c, "fatal")
  <2>1. Inv(v)
    BY <1>5, <1>6, AddTaskInv, Zenon DEF Tasks
  <2>2. QED
    BY <1>2, <2>1, Zenon
<1>7. CASE v = AddTask([t EXCEPT !.io[c] = "dead", !.fd[c] = "fin"], c, "closed")
  <2>1. PICK w : w = [u EXCEPT !.fd[c] = "fin"]
    BY Zenon
  <2>2. Typed(t)
    BY <1>4, Zenon DEF Inv, During, Sound
  <2>3. w = [t EXCEPT !.io[c] = "dead", !.fd[c] = "fin"]
    BY <1>3, <2>1, <2>2, Zenon DEF Typed, Rec, Fields
  <2>4. Inv(w) /\ w.status[c] # "Deleted"
    BY <1>5, <2>1, SocketInv, SMTT(60)
  <2>5. v = AddTask(w, c, "closed")
    BY <1>7, <2>3, Zenon
  <2>6. Inv(v)
    BY <2>4, <2>5, AddTaskInv, Zenon DEF Tasks
  <2>7. QED
    BY <1>2, <2>6, Zenon
<1>8. QED
  BY <1>4, <1>6, <1>7, Zenon

\* An event takes the place of the connect timer.
LEMMA QuietInv ==
    ASSUME NEW t, Inv(t), NEW c \in Conns, t.status[c] # "Deleted", NEW e, Plain(t, c, e),
           e \in FsmEvents \ {"Receive_OPEN_message"},
           NEW q, q = [t EXCEPT !.timers[c] = @ \ {"connect"}], NEW u, u = BGP_EVENT_ADD(q, c, e)
    PROVE  Inv(u)
<1>1. Typed(t)
  BY Zenon DEF Inv, During, Sound
<1>2. PICK w : w = BGP_EVENT_ADD(t, c, e)
  BY Zenon
<1>3. Inv(w)
  BY <1>2, AddEventInv, Zenon
<1>4. Adds(w, t, c, e)
  BY <1>1, <1>2, EventAdds, Zenon
<1>5. Typed(w) /\ Has(w, c, e)
  BY <1>4, Zenon DEF Adds, Own, Apart
<1>6. PICK queue : queue = Append(t.queue, [conn |-> c, event |-> e])
  BY Zenon
<1>7. w = [t EXCEPT !.queue = queue]
  BY <1>2, <1>6, Zenon DEF BGP_EVENT_ADD
<1>8. PICK armed : armed = t.timers[c] \ {"connect"}
  BY Zenon
<1>9. PICK timers : timers = [t.timers EXCEPT ![c] = armed]
  BY Zenon
<1>10. armed \in SUBSET {"start", "connect", "hold"}
  BY <1>1, <1>8, Zenon DEF Typed
<1>11. /\ timers \in [Conns -> SUBSET {"start", "connect", "hold"}] /\ timers[c] = armed
       /\ \A d \in Conns : d # c => timers[d] = t.timers[d]
  BY <1>1, <1>9, <1>10, Update, SMTT(60) DEF Typed
<1>12. q = [t EXCEPT !.timers = timers]
  BY <1>8, <1>9, Zenon
<1>13. q.status = t.status /\ q.queue = t.queue /\ Rec(q)
  BY <1>1, <1>12, Zenon DEF Typed, Rec, Fields
<1>14. u = [q EXCEPT !.queue = queue]
  BY <1>6, <1>13, Zenon DEF BGP_EVENT_ADD
<1>15. w.timers = t.timers
  BY <1>1, <1>7, Zenon DEF Typed, Rec, Fields
<1>16. u = [w EXCEPT !.timers = timers]
  BY <1>1, <1>7, <1>12, <1>14, ZenonT(60) DEF Typed, Rec, Fields
<1>17. /\ Typed(u) /\ u.conf = w.conf /\ u.stub = w.stub /\ u.status = w.status
       /\ u.abort = w.abort /\ u.queue = w.queue /\ u.rib = w.rib
       /\ u.clear_node_queue = w.clear_node_queue /\ u.xfer_failed = w.xfer_failed
       /\ u.check = w.check /\ u.io = w.io /\ u.timers = timers /\ u.ibuf = w.ibuf
  BY <1>5, <1>11, <1>16, ZenonT(60) DEF Typed, Rec, Fields
<1>18. ASSUME NEW d \in Conns
       PROVE  \/ u.timers[d] = w.timers[d]
              \/ /\ u.timers[d] = w.timers[d] \ {"connect"}
                 /\ \E g \in FsmEvents : Has(w, d, g)
  <2>1. CASE d = c
    BY <1>5, <1>8, <1>11, <1>15, <1>17, <2>1, ZenonT(60)
  <2>2. CASE d # c
    BY <1>11, <1>15, <1>17, <2>2, Zenon
  <2>3. QED
    BY <2>1, <2>2, Zenon
<1>19. Calmer(u, w)
  BY <1>17, <1>18, Zenon DEF Calmer
<1>20. QED
  BY <1>3, <1>19, CalmerInv, Zenon

\* bgp_fsm_nht_update stops the connect timer only where it adds an event.
LEMMA NhtInv ==
    ASSUME Inv(s), bgp_fsm_nht_update
    PROVE  Inv(s')
<1>1. PICK r : r = s
  BY Zenon
<1>2. PICK v : v = s'
  BY Zenon
<1>3. PICK c : c = r.conf
  BY Zenon
<1>4. PICK t : t = [r EXCEPT !.nht = ~r.nht]
  BY Zenon
<1>5. PICK quiet : quiet = [t EXCEPT !.timers[c] = @ \ {"connect"}]
  BY Zenon
<1>6. \/ v = t
      \/ \E e \in {"BGP_Start", "TCP_fatal_error"} : v = BGP_EVENT_ADD(t, c, e)
      \/ \E e \in {"TCP_fatal_error", "ConnectRetry_timer_expired"} : v = BGP_EVENT_ADD(quiet, c, e)
  BY <1>1, <1>2, <1>3, <1>4, <1>5, ZenonT(60) DEF bgp_fsm_nht_update
<1>7. Inv(r)
  BY <1>1, Zenon
<1>8. Typed(r) /\ Owners(r)
  BY <1>7, Zenon DEF Inv, During, Sound
<1>9. PICK valid \in BOOLEAN : valid = ~r.nht
  BY Zenon
<1>10. t = [r EXCEPT !.nht = valid]
  BY <1>4, <1>9, Zenon
<1>11. /\ Typed(t) /\ t.conf = r.conf /\ t.stub = r.stub /\ t.status = r.status
       /\ t.abort = r.abort /\ t.queue = r.queue /\ t.rib = r.rib
       /\ t.clear_node_queue = r.clear_node_queue /\ t.xfer_failed = r.xfer_failed
       /\ t.check = r.check /\ t.io = r.io /\ t.timers = r.timers /\ t.ibuf = r.ibuf
  BY <1>8, <1>10, Zenon DEF Typed, Rec, Fields
<1>12. Calmer(t, r)
  BY <1>11, Zenon DEF Calmer
<1>13. Inv(t) /\ c = t.conf /\ c \in Conns /\ t.status[c] # "Deleted"
  BY <1>3, <1>7, <1>8, <1>11, <1>12, CalmerInv, ZenonT(60) DEF Typed, Owners
<1>14. CASE v = t
  BY <1>2, <1>13, <1>14, Zenon
<1>15. ASSUME NEW e \in {"BGP_Start", "TCP_fatal_error"}, v = BGP_EVENT_ADD(t, c, e)
       PROVE  Inv(s')
  <2>1. e \in FsmEvents \ {"Receive_OPEN_message"} /\ Plain(t, c, e)
    BY Zenon DEF FsmEvents, Plain
  <2>2. Inv(v)
    BY <1>13, <1>15, <2>1, AddEventInv, Zenon
  <2>3. QED
    BY <1>2, <2>2, Zenon
<1>16. ASSUME NEW e \in {"TCP_fatal_error", "ConnectRetry_timer_expired"},
              v = BGP_EVENT_ADD(quiet, c, e)
       PROVE  Inv(s')
  <2>1. e \in FsmEvents \ {"Receive_OPEN_message"} /\ Plain(t, c, e)
    BY <1>13, Zenon DEF FsmEvents, Plain
  <2>2. Inv(v)
    BY <1>5, <1>13, <1>16, <2>1, QuietInv, ZenonT(60)
  <2>3. QED
    BY <1>2, <2>2, Zenon
<1>17. QED
  BY <1>6, <1>14, <1>15, <1>16, ZenonT(60)

\* peer_clear, the operator's `clear bgp', keeps the invariant.
LEMMA PeerClearInv ==
    ASSUME CancelRests, Inv(s), peer_clear
    PROVE  Inv(s')
<1>1. PICK t : t = s
  BY Zenon
<1>2. PICK v : v = s'
  BY Zenon
<1>3. PICK c : c = t.conf
  BY Zenon
<1>4. PICK w : w = IF t.stub THEN peer_delete(t, Other(t.conf)) ELSE t
  BY Zenon
<1>5. Inv(t) /\ (v = bgp_notify_send(t, c) \/ v = BGP_EVENT_ADD(w, c, "BGP_Stop"))
  BY <1>1, <1>2, <1>3, <1>4, Zenon DEF peer_clear
<1>6. c \in Conns /\ t.status[c] # "Deleted"
  BY <1>3, <1>5, ZenonT(60) DEF Inv, During, Sound, Typed, Owners
<1>7. CASE v = bgp_notify_send(t, c)
  <2>1. Inv(v)
    BY <1>5, <1>6, <1>7, NotifyInv, ZenonT(60)
  <2>2. QED
    BY <1>2, <2>1, Zenon
<1>8. CASE v = BGP_EVENT_ADD(w, c, "BGP_Stop")
  <2>1. Inv(w) /\ w.conf = t.conf /\ w.status[w.conf] = t.status[t.conf]
    BY <1>4, <1>5, StubGone, SMTT(60)
  <2>2. w.status[c] # "Deleted"
    BY <1>3, <1>6, <2>1, Zenon
  <2>3. "BGP_Stop" \in FsmEvents \ {"Receive_OPEN_message"} /\ Plain(w, c, "BGP_Stop")
    BY Zenon DEF FsmEvents, Plain
  <2>4. Inv(v)
    BY <1>6, <1>8, <2>1, <2>2, <2>3, AddEventInv, Zenon
  <2>5. QED
    BY <1>2, <2>4, Zenon
<1>9. QED
  BY <1>5, <1>7, <1>8, ZenonT(60)

\* A configured peer starts Idle with its start timer armed.
LEMMA InitInv == ASSUME Init PROVE Inv(s)
<1>1. PICK t : t = s
  BY Zenon
<1>2. /\ Rec(t) /\ t.conf = 1 /\ t.stub = FALSE /\ t.larger \in BOOLEAN /\ t.nht \in BOOLEAN
      /\ t.status = [c \in Conns |-> IF c = 1 THEN "Idle" ELSE "Deleted"]
      /\ t.fd = [c \in Conns |-> "none"] /\ t.sent = [c \in Conns |-> 0]
      /\ t.check = [c \in Conns |-> FALSE] /\ t.io = [c \in Conns |-> "off"]
      /\ t.timers = [c \in Conns |-> IF c = 1 THEN {"start"} ELSE {}]
      /\ t.ibuf = [c \in Conns |-> <<>>] /\ t.queue = <<>> /\ t.task = 0 /\ t.processed = 0
      /\ t.established_peers = 0 /\ t.rib = FALSE /\ t.clear_node_queue = FALSE
      /\ t.abort = FALSE /\ t.xfer_failed = FALSE
  BY <1>1, Zenon DEF Init, Rec, Fields
<1>3. 0 \in 0 .. MaxPackets /\ 0 \in 0 .. rpkt_quanta
  BY FsmAssumption, SMTT(60)
<1>4. /\ t.status \in [Conns -> Statuses]
      /\ t.timers \in [Conns -> SUBSET {"start", "connect", "hold"}]
      /\ t.status[1] = "Idle" /\ t.status[2] = "Deleted" /\ 1 \in Conns /\ 2 \in Conns
      /\ t.timers[1] = {"start"} /\ t.timers[2] = {}
  BY <1>2, SMTT(60) DEF Conns, Statuses
<1>5. Typed(t)
  <2>1. /\ t.fd \in [Conns -> {"none", "connecting", "up", "fin", "reset"}]
        /\ t.check \in [Conns -> BOOLEAN]
        /\ t.io \in [Conns -> {"off", "on", "dead"}]
    BY <1>2, SMTT(60)
  <2>2. t.sent \in [Conns -> 0 .. MaxPackets] /\ t.processed \in 0 .. rpkt_quanta
    BY <1>2, <1>3, SMTT(60)
  <2>3. t.ibuf \in [Conns -> Seq(Packets)] /\ t.queue \in Seq(Task)
    BY <1>2, SMTT(60)
  <2>4. t.conf \in Conns /\ t.task \in {0} \cup Conns /\ Ups(t.established_peers, t.status)
    BY <1>2, <1>4 DEF Ups
  <2>5. /\ Rec(t) /\ t.stub \in BOOLEAN /\ t.larger \in BOOLEAN /\ t.nht \in BOOLEAN
        /\ t.rib \in BOOLEAN /\ t.clear_node_queue \in BOOLEAN
        /\ t.abort \in BOOLEAN /\ t.xfer_failed \in BOOLEAN
    BY <1>2, Zenon
  <2>6. QED
    BY <1>4, <2>1, <2>2, <2>3, <2>4, <2>5, Zenon DEF Typed
<1>6. Owners(t)
  BY <1>2, <1>4, SMTT(60) DEF Owners, Other
<1>7. ASSUME NEW d \in Conns PROVE Local(t, 0, "none", d)
  <2>1. t.io[d] = "off" /\ t.ibuf[d] = <<>> /\ t.check[d] = FALSE
    BY <1>2, Zenon
  <2>2. \/ t.status[d] = "Idle" /\ t.timers[d] = {"start"}
        \/ t.status[d] = "Deleted" /\ t.timers[d] = {}
    BY <1>4, Zenon DEF Conns
  <2>3. Waiting(t.queue) = {}
    BY <1>2, SMTT(60) DEF Waiting
  <2>4. QED
    BY <2>1, <2>2, <2>3, Zenon DEF Local, Open, Has, Pends
<1>8. Routes(t, 0, "none")
  <2>1. ASSUME NEW d \in Conns PROVE Guarded(t.queue, d)
    BY <1>2, SMTT(60) DEF Guarded
  <2>2. QED
    BY <1>2, <2>1, Zenon DEF Routes, Conns
<1>9. Pair(t, 0, "none")
  BY <1>2, Zenon DEF Pair
<1>10. QED
  BY <1>1, <1>2, <1>5, <1>6, <1>7, <1>8, <1>9, ZenonT(60) DEF Inv, During, Sound

\* Every step of the main thread, of the neighbour and of the I/O pthread keeps
\* the invariant.
LEMMA NextInv == ASSUME CancelRests, Inv(s), Next PROVE Inv(s')
<1>1. ASSUME NEW c \in Conns, NEW result \in Results, RunTask(c, result) PROVE Inv(s')
  BY <1>1, RunTaskInv, Zenon
<1>2. ASSUME NEW c \in Conns, NEW result \in Results, ProcessPacket(c, result) PROVE Inv(s')
  BY <1>2, ProcessPacketInv, Zenon
<1>3. ASSUME NEW c \in Conns, ProcessEnds(c) PROVE Inv(s')
  BY <1>3, ProcessEndsInv, ZenonT(60)
<1>4. ASSUME NEW c \in Conns, NEW result \in Results, bgp_start_timer(c, result) PROVE Inv(s')
  BY <1>4, StartTimerInv, Zenon
<1>5. ASSUME NEW c \in Conns, NEW result \in Results, bgp_connect_timer(c, result) PROVE Inv(s')
  BY <1>5, ConnectTimerInv, Zenon
<1>6. ASSUME NEW c \in Conns, bgp_holdtime_timer(c) PROVE Inv(s')
  BY <1>6, HoldTimerInv, ZenonT(60)
<1>7. ASSUME NEW c \in Conns, bgp_connect_check(c) PROVE Inv(s')
  BY <1>7, ConnectCheckInv
<1>8. ASSUME NEW c \in Conns, bgp_process_reads(c) PROVE Inv(s')
  BY <1>8, ReadsInv
<1>9. ASSUME NEW c \in Conns, Breaks(c) PROVE Inv(s')
  BY <1>9, BreaksInv
<1>10. ASSUME NEW c \in Conns, ReadFails(c) PROVE Inv(s')
  BY <1>10, ReadFailsInv
<1>11. CASE bgp_accept
  BY <1>11, AcceptInv, Zenon
<1>12. CASE bgp_clear_node_complete
  BY <1>12, ClearNodeInv, Zenon
<1>13. CASE bgp_fsm_nht_update
  BY <1>13, NhtInv, Zenon
<1>14. CASE peer_clear
  BY <1>14, PeerClearInv, Zenon
<1>15. QED
  BY <1>1, <1>2, <1>3, <1>4, <1>5, <1>6, <1>7, <1>8, <1>9, <1>10, <1>11, <1>12, <1>13, <1>14, Zenon
     DEF Next, Main
=============================================================================
