------------------------------- MODULE BgpFsm -------------------------------
(***************************************************************************)
(* The session with one configured neighbour: the finite state machine of  *)
(* bgp_fsm.c, the second connection bgp_accept makes when the neighbour    *)
(* connects too, the choice between the two (bgp_collision_detect) and the *)
(* exchange of connections when the accepted one wins (peer_xfer_conn).    *)
(*                                                                         *)
(* There are two struct peer: the configured one, which always exists, and *)
(* its doppelganger, a stub that exists while an accepted connection does. *)
(* Each owns one struct peer_connection; the connections are 1 and 2 and   *)
(* s.conf says which one the configured peer owns at present.              *)
(*                                                                         *)
(* The main thread runs one task at a time off s.queue, the event list of  *)
(* lib/event.c: FSM events, packet processing, socket errors.  Timers, the *)
(* listener, the connect check, the clear-node work queue, zebra's nexthop *)
(* reports and the operator interleave with it.  The I/O pthread runs      *)
(* beside it, also while it is inside the loop of bgp_process_packet.      *)
(*                                                                         *)
(* Handlers call each other (bgp_event_update calls bgp_establish, which   *)
(* calls peer_xfer_conn, bgp_notify_send and peer_delete), so each is an   *)
(* operator from the state s to the state it leaves.                       *)
(*                                                                         *)
(* Left out: graceful restart, DelayOpen, passive and dynamic neighbours,  *)
(* a hold time of 0.                                                       *)
(***************************************************************************)
EXTENDS Integers, Sequences, FiniteSets

CONSTANTS
    fast_convergence,   \* nexthop loss takes a session down
    rpkt_quanta,        \* packets per run of bgp_process_packet
    MaxAttempts,        \* bound: see Attempt
    MaxPackets,         \* bound: packets it sends over one connection
    MaxTroubles         \* bound: see Trouble

ASSUME FsmAssumption ==
    /\ fast_convergence \in BOOLEAN
    /\ rpkt_quanta \in Nat \ {0}
    /\ {MaxAttempts, MaxPackets, MaxTroubles} \subseteq Nat

Conns == {1, 2}
Other(c) == 3 - c

Statuses == {"Idle", "Connect", "Active", "OpenSent", "OpenConfirm",
             "Established", "Clearing", "Deleted"}
Packets == {"OPEN", "bad OPEN", "KEEPALIVE", "UPDATE", "NOTIFICATION"}
Results == {"connect_error", "connect_success", "connect_in_progress"}
Tasks == {"bgp_process_packet", "closed", "fatal"}
FsmEvents == {"BGP_Start", "BGP_Stop", "TCP_connection_open",
              "TCP_connection_closed", "TCP_connection_open_failed",
              "TCP_fatal_error", "ConnectRetry_timer_expired",
              "Hold_Timer_expired", "Receive_OPEN_message",
              "Receive_KEEPALIVE_message", "Receive_UPDATE_message",
              "Receive_NOTIFICATION_message", "Clearing_Completed"}

VARIABLES
    s,          \* bgpd: see TypeOK
    used        \* the counters behind the bounds

vars == <<s, used>>

\* s.conf     the connection of the configured peer
\* s.stub     whether the doppelganger exists; it owns Other(s.conf)
\* s.larger   the neighbour's identifier is larger than ours
\* s.fd       the socket: "none", "connecting", "up", "fin" (the neighbour
\*            has closed it), "reset"
\* s.sent     how many packets the neighbour has sent over it
\* s.io       "on": the I/O pthread waits for input; "dead": it has given up
\*            on an error but bgp_reads_off has not been called
\* s.task     the connection whose packets the main thread is processing, or 0
\* s.rib      whether the RIB has routes of the configured peer
\* s.clear_node_queue     whether the work queue that removes them is scheduled
\* s.abort    an assertion has failed
\* s.xfer_failed          history: peer_xfer_conn has given up after the exchange
Init ==
    /\ s \in [conf : {1}, stub : {FALSE}, larger : BOOLEAN, nht : BOOLEAN,
              status : {[c \in Conns |-> IF c = 1 THEN "Idle" ELSE "Deleted"]},
              fd : {[c \in Conns |-> "none"]},
              sent : {[c \in Conns |-> 0]},
              check : {[c \in Conns |-> FALSE]},
              io : {[c \in Conns |-> "off"]},
              timers : {[c \in Conns |-> IF c = 1 THEN {"start"} ELSE {}]},
              ibuf : {[c \in Conns |-> <<>>]},
              queue : {<<>>}, task : {0}, processed : {0},
              established_peers : {0}, rib : {FALSE},
              clear_node_queue : {FALSE}, abort : {FALSE}, xfer_failed : {FALSE}]
    /\ used = [attempts |-> 0, troubles |-> 0]

IsStub(t, c) == t.stub /\ c # t.conf

-----------------------------------------------------------------------------
(* Tasks and timers.                                                       *)

\* BGP_EVENT_ADD
BGP_EVENT_ADD(t, c, e) ==
    IF t.status[c] = "Deleted" THEN t
    ELSE [t EXCEPT !.queue = Append(@, [conn |-> c, event |-> e])]

\* the tasks in the list q
Waiting(q) == {q[i] : i \in DOMAIN q}

\* event_add_event with a reference: nothing when the task is waiting already
AddTask(t, c, e) ==
    IF [conn |-> c, event |-> e] \in Waiting(t.queue) THEN t
    ELSE [t EXCEPT !.queue = Append(@, [conn |-> c, event |-> e])]

\* the list q without the tasks in D, the others in their order
Without(q, D) ==
    LET kept[i \in 0 .. Len(q)] ==
            IF i = 0 THEN <<>>
            ELSE IF q[i] \in D THEN kept[i - 1] ELSE Append(kept[i - 1], q[i])
    IN  kept[Len(q)]

\* event_cancel_event_ready
event_cancel_event_ready(t, c) ==
    [t EXCEPT !.queue = Without(@, [conn : {c}, event : FsmEvents \cup Tasks])]

\* bgp_reads_on, with the assertion on the connect check
bgp_reads_on(t, c) ==
    [t EXCEPT !.io[c] = "on", !.abort = @ \/ t.check[c] \/ t.status[c] = "Deleted"]

\* faulty variant: the I/O pthread is left waiting for input
ReadsLeftOn(t, c) ==
    [t EXCEPT !.queue = Without(@, [conn : {c}, event : Tasks])]

\* bgp_reads_off and bgp_writes_off, which are always called together
bgp_reads_off(t, c) ==
    [t EXCEPT !.io[c] = "off",
              !.queue = Without(@, [conn : {c}, event : Tasks])]

\* bgp_timer_set
bgp_timer_set(t, c) ==
    LET on == CASE t.status[c] = "Idle" -> {"start"}
                [] t.status[c] \in {"Connect", "Active"} -> {"connect"}
                [] t.status[c] \in {"OpenSent", "OpenConfirm", "Established"} -> {"hold"}
                [] OTHER -> {}
    IN  [t EXCEPT !.timers[c] = on]

\* bgp_clear_route_all: queues the removal of the routes of c's peer
bgp_clear_route_all(t, c) ==
    [t EXCEPT !.clear_node_queue = @ \/ (c = t.conf /\ t.rib)]

\* faulty variant: only the way into Clearing is taken for the end of a session
DownUncounted(t, c, status) ==
    LET counted == [t EXCEPT !.established_peers =
                        IF status = "Established" THEN @ + 1
                        ELSE IF t.status[c] = "Established" /\ status = "Clearing" THEN @ - 1 ELSE @]
        cleared == IF status \in {"Clearing", "Deleted"}
                   THEN bgp_clear_route_all(counted, c) ELSE counted
        scheduled == c = t.conf /\ cleared.clear_node_queue
        told == IF status = "Clearing" /\ ~scheduled
                THEN BGP_EVENT_ADD(cleared, c, "Clearing_Completed") ELSE cleared
    IN  [told EXCEPT !.status[c] = status]

\* faulty variant: nobody says that there was nothing to clear
CompletionForgotten(t, c, status) ==
    LET counted == [t EXCEPT !.established_peers =
                        IF status = "Established" THEN @ + 1
                        ELSE IF t.status[c] = "Established" THEN @ - 1 ELSE @]
        cleared == IF status \in {"Clearing", "Deleted"}
                   THEN bgp_clear_route_all(counted, c) ELSE counted
    IN  [cleared EXCEPT !.status[c] = status]

\* bgp_fsm_change_status
bgp_fsm_change_status(t, c, status) ==
    LET counted == [t EXCEPT !.established_peers =
                        IF status = "Established" THEN @ + 1
                        ELSE IF t.status[c] = "Established" THEN @ - 1 ELSE @]
        cleared == IF status \in {"Clearing", "Deleted"}
                   THEN bgp_clear_route_all(counted, c) ELSE counted
        scheduled == c = t.conf /\ cleared.clear_node_queue
        told == IF status = "Clearing" /\ ~scheduled
                THEN BGP_EVENT_ADD(cleared, c, "Clearing_Completed") ELSE cleared
    IN  [told EXCEPT !.status[c] = status]

-----------------------------------------------------------------------------
(* Stopping a connection.                                                  *)

\* the part of bgp_stop before the stub is deleted
TearDown(t, c) ==
    LET kept == IF t.status[c] = "Clearing" THEN t ELSE event_cancel_event_ready(t, c)
    IN  [bgp_reads_off(kept, c) EXCEPT
            !.check[c] = FALSE, !.timers[c] = {}, !.ibuf[c] = <<>>,
            !.fd[c] = "none", !.sent[c] = 0]

\* peer_delete of the stub, which owns c
peer_delete(t, c) ==
    LET asserted == [t EXCEPT !.abort = @ \/ t.status[c] = "Deleted"]
        stopped == TearDown(event_cancel_event_ready(asserted, c), c)
        unlinked == bgp_fsm_change_status(stopped, c, "Deleted")
    IN  bgp_timer_set([unlinked EXCEPT !.stub = FALSE], c)

\* bgp_stop
bgp_stop(t, c) ==
    IF IsStub(t, c)
    THEN [s |-> peer_delete(TearDown(t, c), c), ret |-> "FAILURE_AND_DELETE"]
    ELSE [s |-> TearDown(t, c), ret |-> "SUCCESS"]

\* bgp_notify_send: the message is written at once.  The connection is only
\* stopped when the event this adds is run
bgp_notify_send(t, c) ==
    BGP_EVENT_ADD(t, c, IF t.fd[c] \in {"up", "fin"} THEN "BGP_Stop" ELSE "TCP_fatal_error")

\* bgp_stop_with_notify
bgp_stop_with_notify(t, c) == bgp_stop(bgp_notify_send(t, c), c)

\* bgp_clearing_completed
bgp_clearing_completed(t, c) ==
    LET stopped == bgp_stop(t, c)
    IN  IF stopped.ret = "SUCCESS"
        THEN [stopped EXCEPT !.s = event_cancel_event_ready(@, c)] ELSE stopped

\* bgp_getsockname: getpeername fails on a connection that was reset
bgp_getsockname(t, c) == t.fd[c] \in {"up", "fin"}

-----------------------------------------------------------------------------
(* What the state machine calls.                                           *)

Success(t) == [s |-> t, ret |-> "SUCCESS"]
Failure(t) == [s |-> t, ret |-> "FAILURE"]

\* bgp_connect, and what bgp_start does with its result
ConnectStarted(t, c, result) ==
    CASE result = "connect_error" -> BGP_EVENT_ADD(t, c, "TCP_connection_open_failed")
      [] result = "connect_success" ->
            [BGP_EVENT_ADD(t, c, "TCP_connection_open") EXCEPT !.fd[c] = "up"]
      [] result = "connect_in_progress" ->
            [t EXCEPT !.fd[c] = "connecting", !.check[c] = TRUE]

\* bgp_start
bgp_start(t, c, result) ==
    IF ~t.nht THEN Success(BGP_EVENT_ADD(t, c, "TCP_connection_open_failed"))
    ELSE Success(ConnectStarted([t EXCEPT !.abort = @ \/ t.io[c] # "off"], c, result))

\* bgp_reconnect
bgp_reconnect(t, c, result) ==
    LET stopped == bgp_stop(t, c)
    IN  IF stopped.ret # "SUCCESS" THEN stopped ELSE bgp_start(stopped.s, c, result)

\* bgp_connect_success
bgp_connect_success(t, c) ==
    CASE t.fd[c] = "none" -> bgp_stop(t, c)
      [] t.fd[c] # "none" /\ ~bgp_getsockname(t, c) -> Failure(bgp_notify_send(t, c))
      [] OTHER -> Success(bgp_reads_on(t, c))

\* peer_xfer_conn: when the stub's connection c is the one that stays, the
\* configured peer takes it and leaves its own to the stub
peer_xfer_conn(t, c) ==
    LET going_away == t.conf
        quiet == bgp_reads_off(bgp_reads_off(t, going_away), c)
        swapped == [quiet EXCEPT !.conf = c,
                        !.timers = [d \in Conns |-> @[d] \ {"connect"}],
                        !.check = [d \in Conns |-> FALSE]]
        lost == t.status[going_away] \in {"OpenSent", "OpenConfirm", "Established", "Clearing"}
                    /\ ~bgp_getsockname(t, going_away)
        kept == IF lost THEN bgp_stop(swapped, going_away).s ELSE swapped
    IN  IF ~IsStub(t, c) THEN Success(t)
        ELSE IF ~bgp_getsockname(t, c)
        THEN Failure([BGP_EVENT_ADD(BGP_EVENT_ADD(swapped, going_away, "BGP_Stop"), c, "BGP_Stop")
                        EXCEPT !.xfer_failed = TRUE])
        ELSE [s |-> AddTask(bgp_reads_on(kept, c), c, "bgp_process_packet"),
              ret |-> "SUCCESS_STATE_TRANSFER"]

\* faulty variant: an Idle connection is taken to be closed already
IdleKept(t, c) ==
    IF t.status[Other(c)] \in {"OpenSent", "OpenConfirm", "Established", "Clearing"}
    THEN bgp_notify_send(t, Other(c))
    ELSE IF t.status[Other(c)] = "Idle" THEN t
    ELSE peer_delete(t, Other(c))

\* the end of bgp_establish: the other connection is closed
CloseOther(t, c) ==
    IF t.status[Other(c)] \in {"OpenSent", "OpenConfirm", "Established", "Clearing"}
    THEN bgp_notify_send(t, Other(c))
    ELSE peer_delete(t, Other(c))

\* bgp_establish
bgp_establish(t, c) ==
    LET moved == peer_xfer_conn(t, c)
        up == bgp_fsm_change_status(moved.s, c, "Established")
    IN  IF moved.ret = "FAILURE" THEN moved
        ELSE [moved EXCEPT !.s = IF up.stub THEN CloseOther(up, c) ELSE up]

\* the table FSM: what to call for an event, and the status to go to
Entry(func, next) == [func |-> func, next |-> next]

FSM(status, event) ==
    CASE status = "Idle" ->
           (CASE event = "BGP_Start" -> Entry("bgp_start", "Connect")
              [] event \in {"BGP_Stop", "TCP_connection_open", "TCP_connection_closed",
                            "TCP_fatal_error"} -> Entry("bgp_stop", "Idle")
              [] OTHER -> Entry("bgp_ignore", "Idle"))
      [] status = "Connect" ->
           (CASE event = "BGP_Start" -> Entry("bgp_ignore", "Connect")
              [] event = "TCP_connection_open" -> Entry("bgp_connect_success", "OpenSent")
              [] event = "TCP_connection_open_failed" -> Entry("bgp_stop", "Active")
              [] event = "ConnectRetry_timer_expired" -> Entry("bgp_reconnect", "Connect")
              [] event = "Receive_OPEN_message" -> Entry("bgp_fsm_open", "OpenConfirm")
              [] OTHER -> Entry("bgp_stop", "Idle"))
      [] status = "Active" ->
           (CASE event \in {"BGP_Start", "TCP_connection_open_failed"} -> Entry("bgp_ignore", "Active")
              [] event = "TCP_connection_open" -> Entry("bgp_connect_success", "OpenSent")
              [] event = "ConnectRetry_timer_expired" -> Entry("bgp_start", "Connect")
              [] event = "Receive_OPEN_message" -> Entry("bgp_fsm_open", "OpenConfirm")
              [] OTHER -> Entry("bgp_stop", "Idle"))
      [] status = "OpenSent" ->
           (CASE event = "BGP_Start" -> Entry("bgp_ignore", "OpenSent")
              [] event \in {"TCP_connection_open", "TCP_connection_closed",
                            "TCP_connection_open_failed", "TCP_fatal_error"} -> Entry("bgp_stop", "Active")
              [] event = "Receive_OPEN_message" -> Entry("bgp_fsm_open", "OpenConfirm")
              [] event \in {"Hold_Timer_expired", "Receive_KEEPALIVE_message",
                            "Receive_UPDATE_message", "Receive_NOTIFICATION_message"} ->
                    Entry("bgp_stop_with_notify", "Idle")
              [] OTHER -> Entry("bgp_stop", "Idle"))
      [] status = "OpenConfirm" ->
           (CASE event = "BGP_Start" -> Entry("bgp_ignore", "OpenConfirm")
              [] event = "Hold_Timer_expired" -> Entry("bgp_stop_with_notify", "Idle")
              [] event = "Receive_KEEPALIVE_message" -> Entry("bgp_establish", "Established")
              [] OTHER -> Entry("bgp_stop", "Idle"))
      [] status = "Established" ->
           (CASE event = "BGP_Start" -> Entry("bgp_ignore", "Established")
              [] event \in {"Receive_KEEPALIVE_message", "Receive_UPDATE_message"} ->
                    Entry("bgp_fsm_update", "Established")
              [] event = "Hold_Timer_expired" -> Entry("bgp_stop_with_notify", "Clearing")
              [] event = "Clearing_Completed" -> Entry("bgp_stop", "Idle")
              [] OTHER -> Entry("bgp_stop", "Clearing"))
      [] status = "Clearing" ->
           (CASE event = "BGP_Start" -> Entry("bgp_ignore", "Clearing")
              [] event = "Clearing_Completed" -> Entry("bgp_clearing_completed", "Idle")
              [] OTHER -> Entry("bgp_stop", "Clearing"))
      [] status = "Deleted" -> Entry("bgp_ignore", "Deleted")

\* the functions of the table.  bgp_fsm_open only writes packets here,
\* bgp_fsm_update stops the hold timer that bgp_timer_set then starts anew
Call(func, t, c, result) ==
    CASE func \in {"bgp_ignore", "bgp_fsm_open"} -> Success(t)
      [] func = "bgp_start" -> bgp_start(t, c, result)
      [] func = "bgp_stop" -> bgp_stop(t, c)
      [] func = "bgp_stop_with_notify" -> bgp_stop_with_notify(t, c)
      [] func = "bgp_connect_success" -> bgp_connect_success(t, c)
      [] func = "bgp_reconnect" -> bgp_reconnect(t, c, result)
      [] func = "bgp_establish" -> bgp_establish(t, c)
      [] func = "bgp_fsm_update" -> Success([t EXCEPT !.timers[c] = @ \ {"hold"}])
      [] func = "bgp_clearing_completed" -> bgp_clearing_completed(t, c)

\* faulty variant: a session that ends goes straight to Idle
ClearingSkipped(t, c, next) ==
    LET status == IF next = "Clearing" THEN "Idle" ELSE next
    IN  bgp_timer_set(IF t.status[c] = status THEN t
                      ELSE bgp_fsm_change_status(t, c, status), c)

\* the status and the timers after a call that succeeded
Moved(t, c, next) ==
    bgp_timer_set(IF t.status[c] = next THEN t ELSE bgp_fsm_change_status(t, c, next), c)

\* the end of bgp_event_update: what it does for each result of the call
Finish(done, c, next, passive_conn) ==
    CASE done.ret = "SUCCESS" ->
            [s |-> Moved(done.s, c, next), ret |-> "OK"]
      [] done.ret = "SUCCESS_STATE_TRANSFER" ->
            [s |-> Moved(done.s, c, next), ret |-> "FSM_PEER_TRANSFERRED"]
      [] done.ret = "FAILURE" ->
            [s |-> IF passive_conn THEN done.s
                   ELSE Moved(bgp_stop(done.s, c).s, c, "Idle"),
             ret |-> "FSM_PEER_STOPPED"]
      [] done.ret = "FAILURE_AND_DELETE" ->
            [s |-> done.s, ret |-> "FSM_PEER_STOPPED"]

\* bgp_event_update; ret is "FSM_PEER_STOPPED", "FSM_PEER_TRANSFERRED" or "OK"
bgp_event_update(t, c, event, result) ==
    LET entry == FSM(t.status[c], event)
    IN  Finish(Call(entry.func, t, c, result), c, entry.next, IsStub(t, c))

-----------------------------------------------------------------------------
(* Packets.                                                                *)

\* faulty variant: a session that is being cleared is no session any more
ClearingOverlooked(t, c) ==
    LET other == Other(c)
        closes(d) == [s |-> bgp_notify_send(t, d), ok |-> d = other]
    IN  IF ~t.stub \/ t.status[other] \notin {"OpenSent", "OpenConfirm", "Established"}
        THEN [s |-> t, ok |-> TRUE]
        ELSE IF t.status[other] = "Established" THEN closes(c)
        ELSE closes(IF t.larger THEN t.conf ELSE Other(t.conf))

\* bgp_collision_detect when an OPEN has come over c: which connections are
\* told to go, and whether c goes on
bgp_collision_detect(t, c) ==
    LET other == Other(c)
        closes(d) == [s |-> bgp_notify_send(t, d), ok |-> d = other]
    IN  IF ~t.stub \/ t.status[other] \notin {"OpenSent", "OpenConfirm", "Established", "Clearing"}
        THEN [s |-> t, ok |-> TRUE]
        ELSE IF t.status[other] \in {"Established", "Clearing"} THEN closes(c)
        ELSE closes(IF t.larger THEN t.conf ELSE Other(t.conf))

\* bgp_open_receive
bgp_open_receive(t, c) ==
    LET chosen == bgp_collision_detect(t, c)
    IN  [s |-> chosen.s,
         event |-> IF chosen.ok /\ bgp_getsockname(chosen.s, c)
                   THEN "Receive_OPEN_message" ELSE "BGP_Stop"]

\* bgp_update_receive
bgp_update_receive(t, c) ==
    IF t.status[c] = "Established"
    THEN [s |-> [t EXCEPT !.rib = @ \/ ~IsStub(t, c)], event |-> "Receive_UPDATE_message"]
    ELSE [s |-> bgp_notify_send(t, c), event |-> "BGP_Stop"]

\* the switch of bgp_process_packet
Receive(t, c, packet) ==
    CASE packet = "OPEN" -> bgp_open_receive(t, c)
      [] packet = "bad OPEN" -> [s |-> bgp_notify_send(t, c), event |-> "BGP_Stop"]
      [] packet = "UPDATE" -> bgp_update_receive(t, c)
      [] packet = "KEEPALIVE" -> [s |-> t, event |-> "Receive_KEEPALIVE_message"]
      [] OTHER -> [s |-> t, event |-> "Receive_NOTIFICATION_message"]

\* faulty variant: one packet more than the quantum
QuantumExceeded(c, result) ==
    LET t == [s EXCEPT !.ibuf[c] = Tail(@), !.processed = @ + 1]
        received == Receive(t, c, Head(s.ibuf[c]))
        updated == bgp_event_update(received.s, c, received.event, result)
    IN  /\ s.task = c
        /\ s.ibuf[c] # <<>>
        /\ s.processed <= rpkt_quanta
        /\ s' = IF updated.ret = "OK" THEN updated.s
                ELSE [updated.s EXCEPT !.task = 0, !.processed = 0]
        /\ UNCHANGED used

\* one round of the loop of bgp_process_packet
ProcessPacket(c, result) ==
    LET t == [s EXCEPT !.ibuf[c] = Tail(@), !.processed = @ + 1]
        received == Receive(t, c, Head(s.ibuf[c]))
        updated == bgp_event_update(received.s, c, received.event, result)
    IN  /\ s.task = c
        /\ s.ibuf[c] # <<>>
        /\ s.processed < rpkt_quanta
        /\ s' = IF updated.ret = "OK" THEN updated.s
                ELSE [updated.s EXCEPT !.task = 0, !.processed = 0]
        /\ UNCHANGED used

\* the end of bgp_process_packet
ProcessEnds(c) ==
    /\ s.task = c
    /\ s.ibuf[c] = <<>> \/ s.processed = rpkt_quanta
    /\ s' = LET t == [s EXCEPT !.task = 0, !.processed = 0]
            IN  IF s.ibuf[c] = <<>> THEN t ELSE AddTask(t, c, "bgp_process_packet")
    /\ UNCHANGED used

-----------------------------------------------------------------------------
(* The other tasks of the main thread.                                     *)

\* the next task of the list: bgp_event, bgp_packet_process_error or the
\* start of bgp_process_packet
RunTask(c, result) ==
    LET event == Head(s.queue).event
        t == [s EXCEPT !.queue = Tail(@)]
        code == CASE event = "closed" -> "TCP_connection_closed"
                  [] event = "fatal" -> "TCP_fatal_error"
                  [] OTHER -> event
    IN  /\ s.task = 0
        /\ s.queue # <<>>
        /\ Head(s.queue).conn = c
        /\ s' = IF event # "bgp_process_packet" THEN bgp_event_update(t, c, code, result).s
                ELSE IF t.status[c] \in {"Deleted", "Clearing"} THEN t
                ELSE [t EXCEPT !.task = c]
        /\ UNCHANGED used

\* the start or the connect timer fires, or the neighbour connects
Attempt == used.attempts < MaxAttempts /\ used' = [used EXCEPT !.attempts = @ + 1]

\* a nexthop report, a `clear bgp', a connection closed or broken, an OPEN that
\* is refused or a NOTIFICATION
Trouble == used.troubles < MaxTroubles /\ used' = [used EXCEPT !.troubles = @ + 1]

\* bgp_start_timer
bgp_start_timer(c, result) ==
    /\ s.task = 0
    /\ "start" \in s.timers[c]
    /\ Attempt
    /\ s' = bgp_event_update([s EXCEPT !.timers[c] = @ \ {"start"}], c, "BGP_Start", result).s

\* bgp_connect_timer
bgp_connect_timer(c, result) ==
    LET t == [s EXCEPT !.timers[c] = @ \ {"connect"}, !.abort = @ \/ s.io[c] # "off"]
    IN  /\ s.task = 0
        /\ "connect" \in s.timers[c]
        /\ Attempt
        /\ s' = IF IsStub(t, c) THEN bgp_stop(t, c).s
                ELSE bgp_event_update(t, c, "ConnectRetry_timer_expired", result).s

\* bgp_holdtime_timer: armed again when input is waiting, but the event is
\* raised all the same
bgp_holdtime_timer(c) ==
    LET t == [s EXCEPT !.timers[c] = IF s.ibuf[c] = <<>> THEN @ \ {"hold"} ELSE @]
    IN  /\ s.task = 0
        /\ "hold" \in s.timers[c]
        /\ s' = bgp_event_update(t, c, "Hold_Timer_expired", "connect_error").s
        /\ UNCHANGED used

\* bgp_connect_check
bgp_connect_check(c) ==
    LET t == [s EXCEPT !.check[c] = FALSE, !.abort = @ \/ s.io[c] # "off"]
    IN  /\ s.task = 0
        /\ s.check[c]
        /\ s' \in {[BGP_EVENT_ADD(t, c, "TCP_connection_open") EXCEPT !.fd[c] = "up"],
                   BGP_EVENT_ADD(t, c, "TCP_connection_open_failed"),
                   BGP_EVENT_ADD(t, c, "TCP_fatal_error")}
        /\ UNCHANGED used

\* bgp_accept
bgp_accept ==
    LET c == Other(s.conf)
        t == IF s.stub THEN peer_delete(s, c) ELSE s
        stub == [t EXCEPT !.stub = TRUE, !.status[c] = "Active", !.fd[c] = "up"]
    IN  /\ s.task = 0
        /\ s.status[s.conf] # "Clearing"
        /\ s' = BGP_EVENT_ADD(stub, c, "TCP_connection_open")
        /\ Attempt

\* the clear-node work queue runs to its end.  A session that came up in the
\* meantime may have added routes the queue does not hold
bgp_clear_node_complete ==
    /\ s.task = 0
    /\ s.clear_node_queue
    /\ \E left \in BOOLEAN :
        /\ left => s.status[s.conf] = "Established"
        /\ s' = BGP_EVENT_ADD([s EXCEPT !.clear_node_queue = FALSE, !.rib = left],
                              s.conf, "Clearing_Completed")
    /\ UNCHANGED used

\* bgp_fsm_nht_update
bgp_fsm_nht_update ==
    LET c == s.conf
        valid == ~s.nht
        t == [s EXCEPT !.nht = valid]
        quiet == [t EXCEPT !.timers[c] = @ \ {"connect"}]
        status == s.status[c]
    IN  /\ s.task = 0
        /\ Trouble
        /\ s' = CASE status = "Idle" /\ valid -> BGP_EVENT_ADD(t, c, "BGP_Start")
                  [] status = "Connect" /\ ~valid -> BGP_EVENT_ADD(quiet, c, "TCP_fatal_error")
                  [] status = "Active" /\ valid ->
                        BGP_EVENT_ADD(quiet, c, "ConnectRetry_timer_expired")
                  [] status \in {"OpenSent", "OpenConfirm", "Established"} /\ ~valid
                        /\ fast_convergence -> BGP_EVENT_ADD(t, c, "TCP_fatal_error")
                  [] OTHER -> t

\* peer_clear, the operator's `clear bgp'
peer_clear ==
    /\ s.task = 0
    /\ Trouble
    /\ s' = IF s.status[s.conf] \in {"OpenSent", "OpenConfirm", "Established"}
            THEN bgp_notify_send(s, s.conf)
            ELSE BGP_EVENT_ADD(IF s.stub THEN peer_delete(s, Other(s.conf)) ELSE s,
                               s.conf, "BGP_Stop")

-----------------------------------------------------------------------------
(* The neighbour and the I/O pthread.                                      *)

\* what the neighbour sends: an OPEN, a KEEPALIVE, then UPDATEs and
\* KEEPALIVEs; a NOTIFICATION at any time, as its last packet
Sendable(n) ==
    {"NOTIFICATION"} \cup (CASE n = 0 -> {"OPEN", "bad OPEN"}
                             [] n = 1 -> {"KEEPALIVE"}
                             [] OTHER -> {"KEEPALIVE", "UPDATE"})

\* bgp_process_reads takes a packet in
bgp_process_reads(c) ==
    /\ s.fd[c] = "up"
    /\ s.io[c] = "on"
    /\ s.sent[c] < MaxPackets
    /\ \E packet \in Sendable(s.sent[c]) :
        /\ s' = AddTask([s EXCEPT !.ibuf[c] = Append(@, packet),
                               !.sent[c] = IF packet = "NOTIFICATION" THEN MaxPackets ELSE @ + 1],
                     c, "bgp_process_packet")
        /\ IF packet \in {"bad OPEN", "NOTIFICATION"} THEN Trouble ELSE UNCHANGED used

\* the connection breaks
Breaks(c) ==
    /\ s.fd[c] = "up"
    /\ s' = [s EXCEPT !.fd[c] = "reset"]
    /\ Trouble

\* bgp_process_reads finds the connection broken, or closed by the neighbour
ReadFails(c) ==
    /\ s.io[c] = "on"
    /\ \/ /\ s.fd[c] = "reset"
          /\ s' = AddTask([s EXCEPT !.io[c] = "dead"], c, "fatal")
          /\ UNCHANGED used
       \/ /\ s.fd[c] = "up"
          /\ s' = AddTask([s EXCEPT !.io[c] = "dead", !.fd[c] = "fin"], c, "closed")
          /\ Trouble

Main ==
    \E c \in Conns :
        \/ \E result \in Results : RunTask(c, result) \/ ProcessPacket(c, result)
        \/ ProcessEnds(c)

Next ==
    \/ Main
    \/ \E c \in Conns, result \in Results :
        \/ bgp_start_timer(c, result)
        \/ bgp_connect_timer(c, result)
    \/ \E c \in Conns :
        \/ bgp_holdtime_timer(c)
        \/ bgp_connect_check(c)
        \/ bgp_process_reads(c)
        \/ Breaks(c)
        \/ ReadFails(c)
    \/ bgp_accept
    \/ bgp_clear_node_complete
    \/ bgp_fsm_nht_update
    \/ peer_clear

\* Fairness: the event loop goes on, an armed hold timer runs out and the work
\* queue is run.  Weak fairness of an action that changes vars and is enabled
\* just when g holds, written out since TLC is slow to find out g by itself
FairMain ==
    []<>(s.task = 0 /\ s.queue = <<>>) \/ []<><<Main>>_vars
FairHold(c) ==
    []<>(s.task # 0 \/ "hold" \notin s.timers[c]) \/ []<><<bgp_holdtime_timer(c)>>_vars
FairClear ==
    []<>(s.task # 0 \/ ~s.clear_node_queue) \/ []<><<bgp_clear_node_complete>>_vars

Spec ==
    /\ Init
    /\ [][Next]_vars
    /\ FairMain
    /\ FairHold(1) /\ FairHold(2)
    /\ FairClear

-----------------------------------------------------------------------------
(* Properties.                                                             *)

\* Every field has its type; bgp_process_packet never takes more packets in one
\* run than rpkt_quanta.
TypeOK ==
    /\ s.conf \in Conns
    /\ {s.stub, s.larger, s.nht, s.rib, s.clear_node_queue, s.abort, s.xfer_failed} \subseteq BOOLEAN
    /\ s.status \in [Conns -> Statuses]
    /\ s.fd \in [Conns -> {"none", "connecting", "up", "fin", "reset"}]
    /\ s.sent \in [Conns -> 0 .. MaxPackets]
    /\ s.check \in [Conns -> BOOLEAN]
    /\ s.io \in [Conns -> {"off", "on", "dead"}]
    /\ s.timers \in [Conns -> SUBSET {"start", "connect", "hold"}]
    /\ \A c \in Conns : s.ibuf[c] \in Seq(Packets)
    /\ s.queue \in Seq([conn : Conns, event : FsmEvents \cup Tasks])
    /\ s.task \in {0} \cup Conns
    /\ s.processed \in 0 .. rpkt_quanta
    /\ s.established_peers \in Nat

\* bgp->established_peers, which bgp_fsm_change_status steps, is the number of
\* connections that are Established, also while the stub and the configured
\* peer have both reached that status and while they exchange connections.
EstablishedPeersExact ==
    s.established_peers = Cardinality({c \in Conns : s.status[c] = "Established"})

\* No assertion of bgp_start, bgp_connect_timer, bgp_connect_check, bgp_reads_on
\* or peer_delete fails: the I/O pthread never reads a connection whose connect
\* is still being waited for or tried again, and no stub is deleted twice.
AssertionsHold == ~s.abort

Pending(c) == \E q \in Waiting(s.queue) : q.conn = c

\* No connection is stuck: whenever the main thread is between two tasks, a
\* connection that is not Deleted has an event waiting, a timer armed, its
\* connect check armed or its routes in the work queue that will report to it.
\* The events bgp_stop and peer_xfer_conn cancel are never the last ones.
NeverStranded ==
    \A c \in Conns : s.task = 0 =>
        \/ Pending(c)
        \/ s.timers[c] # {}
        \/ s.check[c]
        \/ s.status[c] = "Clearing" /\ s.clear_node_queue
        \/ s.status[c] = "Deleted"

\* A Clearing_Completed is dispatched to a connection that is Clearing, and not
\* to a session that came up in its place, which the row of Established would
\* take to Idle: the case bgp_accept and bgp_collision_detect turn connections
\* away for.  After a failed exchange the event may find another status.
CompletionFindsClearing ==
    s.task = 0 /\ s.queue # <<>> /\ Head(s.queue).event = "Clearing_Completed"
        => s.status[Head(s.queue).conn] = "Clearing" \/ s.xfer_failed

\* Routes learnt from the neighbour are in the RIB only while the session that
\* brought them is Established, or Clearing with their removal queued: what
\* bgp_fsm_change_status says of the transition into Clearing or Deleted.
RoutesHaveSession ==
    s.rib => \/ s.status[s.conf] = "Established"
             \/ s.status[s.conf] = "Clearing" /\ s.clear_node_queue

\* The only way to leave routes behind without a session is an exchange of
\* connections that peer_xfer_conn gives up after the swap.
RoutesOrphanedByXfer == RoutesHaveSession \/ s.xfer_failed

\* The doppelganger does not stay: its connection becomes the configured peer's
\* or is closed, by the collision rule, by bgp_establish or by its hold timer.
StubResolved == []<>(~s.stub)
=============================================================================
