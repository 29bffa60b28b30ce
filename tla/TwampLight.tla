----------------------------- MODULE TwampLight -----------------------------
(***************************************************************************)
(* The threads of the TWAMP-Light agent (twamp-light/src/main.cpp): main,  *)
(* the sender, and whoever calls add_peer and del_peer.  The callers       *)
(* update the peer table under latency_db_mutex; the sender copies it      *)
(* without the mutex, on the strength of the flag peers_updated.           *)
(*                                                                         *)
(* The table's values are never written (the probing loop is still empty), *)
(* so a table is the set of its keys.  A copy that overlaps an update is a *)
(* data race: the copy may hold the updated peer or not.  The wait has a   *)
(* timeout, so that a notification only makes it shorter.                  *)
(***************************************************************************)
EXTENDS Naturals, FiniteSets

CONSTANTS
    Peers,       \* the addresses
    Callers,     \* the threads that call add_peer and del_peer
    MaxCalls     \* bound on their calls

ASSUME CallsAssumption == MaxCalls \in Nat

VARIABLES
    latency_db,         \* the keys of the shared table
    peers_updated,
    local_latency_db,   \* the keys of the sender's copy
    running,
    sender,             \* where sender_main is
    torn,               \* the peers updated since the sender began its copy
    caller,             \* where each caller is
    calls,              \* the number of calls so far
    main                \* where main is

shared == <<latency_db, peers_updated>>
threads == <<sender, local_latency_db, torn>>
vars == <<shared, threads, running, caller, calls, main>>

Idle == [at |-> "idle"]

\* the callers past the lock, of which the mutex admits one
Holding == {c \in Callers : caller[c].at # "idle"}

\* return ends the process, and with it every thread
Alive == main # "returned"

-----------------------------------------------------------------------------
(* add_peer, del_peer.                                                     *)

\* faulty variant: the mutex is not taken
Unlocked(c) ==
    /\ Alive
    /\ caller[c].at = "idle"
    /\ calls < MaxCalls
    /\ calls' = calls + 1
    /\ \E p \in Peers, op \in {"add", "del"} :
           caller' = [caller EXCEPT ![c] = [at |-> "locked", op |-> op, peer |-> p]]
    /\ UNCHANGED <<shared, threads, running, main>>

Lock(c) ==
    /\ Alive
    /\ Holding = {}
    /\ calls < MaxCalls
    /\ calls' = calls + 1
    /\ \E p \in Peers, op \in {"add", "del"} :
           caller' = [caller EXCEPT ![c] = [at |-> "locked", op |-> op, peer |-> p]]
    /\ UNCHANGED <<shared, threads, running, main>>

Store(c) ==
    LET p == caller[c].peer
    IN  /\ Alive
        /\ caller[c].at = "locked"
        /\ latency_db' = IF caller[c].op = "add" THEN latency_db \cup {p}
                                                 ELSE latency_db \ {p}
        /\ torn' = IF sender = "copy" THEN torn \cup {p} ELSE torn
        /\ caller' = [caller EXCEPT ![c].at = "stored"]
        /\ UNCHANGED <<peers_updated, sender, local_latency_db, running, calls, main>>

\* the flag, the notification and the release of the mutex
Flag(c) ==
    /\ Alive
    /\ caller[c].at = "stored"
    /\ peers_updated' = TRUE
    /\ caller' = [caller EXCEPT ![c] = Idle]
    /\ UNCHANGED <<latency_db, threads, running, calls, main>>

-----------------------------------------------------------------------------
(* sender_main.                                                            *)

Loop ==
    /\ Alive
    /\ sender = "loop"
    /\ sender' = IF running THEN "wait" ELSE "done"
    /\ UNCHANGED <<shared, local_latency_db, torn, running, caller, calls, main>>

\* under the mutex, which the wait for a first peer gives up
Wait ==
    /\ Alive
    /\ sender = "wait"
    /\ Holding = {}
    /\ latency_db # {} \/ ~running
    /\ sender' = IF running THEN "check" ELSE "done"
    /\ UNCHANGED <<shared, local_latency_db, torn, running, caller, calls, main>>

\* the flag is cleared before the copy starts
Check ==
    /\ Alive
    /\ sender = "check"
    /\ sender' = IF peers_updated THEN "copy" ELSE "probe"
    /\ peers_updated' = FALSE
    /\ torn' = {}
    /\ UNCHANGED <<latency_db, local_latency_db, running, caller, calls, main>>

\* faulty variant: the flag is cleared when the copy is there
CopyThenClear ==
    /\ Alive
    /\ sender = "copy"
    /\ peers_updated' = FALSE
    /\ \E guess \in SUBSET torn : local_latency_db' = (latency_db \ torn) \cup guess
    /\ sender' = "probe"
    /\ UNCHANGED <<latency_db, torn, running, caller, calls, main>>

Copy ==
    /\ Alive
    /\ sender = "copy"
    /\ \E guess \in SUBSET torn : local_latency_db' = (latency_db \ torn) \cup guess
    /\ sender' = "probe"
    /\ UNCHANGED <<shared, torn, running, caller, calls, main>>

\* faulty variant: an empty copy ends the thread
StopsWhenEmpty ==
    /\ Alive
    /\ sender = "probe"
    /\ sender' = IF local_latency_db = {} THEN "done"
                 ELSE IF running THEN "sleep" ELSE "done"
    /\ UNCHANGED <<shared, local_latency_db, torn, running, caller, calls, main>>

Probe ==
    /\ Alive
    /\ sender = "probe"
    /\ sender' = IF local_latency_db = {} THEN "loop"
                 ELSE IF running THEN "sleep" ELSE "done"
    /\ UNCHANGED <<shared, local_latency_db, torn, running, caller, calls, main>>

Sleep ==
    /\ Alive
    /\ sender = "sleep"
    /\ sender' = "loop"
    /\ UNCHANGED <<shared, local_latency_db, torn, running, caller, calls, main>>

-----------------------------------------------------------------------------
(* The signal handler and main.                                            *)

signal_handler ==
    /\ Alive
    /\ running
    /\ running' = FALSE
    /\ UNCHANGED <<shared, threads, caller, calls, main>>

Shutdown ==
    /\ main = "hold"
    /\ ~running
    /\ main' = "grace"
    /\ UNCHANGED <<shared, threads, running, caller, calls>>

Return ==
    /\ main = "grace"
    /\ main' = "returned"
    /\ UNCHANGED <<shared, threads, running, caller, calls>>

-----------------------------------------------------------------------------
Init ==
    /\ latency_db = {} /\ local_latency_db = {}
    /\ peers_updated = FALSE
    /\ running = TRUE
    /\ sender = "loop"
    /\ torn = {}
    /\ caller = [c \in Callers |-> Idle]
    /\ calls = 0
    /\ main = "hold"

sender_main == Loop \/ Wait \/ Check \/ Copy \/ Probe \/ Sleep

Exit == Shutdown \/ Return

Next ==
    \/ \E c \in Callers : Lock(c) \/ Store(c) \/ Flag(c)
    \/ sender_main
    \/ signal_handler
    \/ Exit

\* threads are scheduled, and a caller in the critical section leaves it
Spec ==
    /\ Init /\ [][Next]_vars
    /\ WF_vars(sender_main) /\ WF_vars(Exit)
    /\ \A c \in Callers : WF_vars(Store(c) \/ Flag(c))

-----------------------------------------------------------------------------
\* The agent's state keeps its types, and at most one caller is past the mutex.
TypeOK ==
    /\ latency_db \subseteq Peers /\ local_latency_db \subseteq Peers
    /\ torn \subseteq Peers
    /\ peers_updated \in BOOLEAN /\ running \in BOOLEAN
    /\ sender \in {"loop", "wait", "check", "copy", "probe", "sleep", "done"}
    /\ caller \in [Callers -> {Idle} \cup [at : {"locked", "stored"},
                                           op : {"add", "del"}, peer : Peers]]
    /\ \A c, d \in Holding : c = d
    /\ calls \in 0 .. MaxCalls
    /\ main \in {"hold", "grace", "returned"}

\* Unless peers_updated says otherwise, the sender's copy is the table, although
\* it is made without the mutex and may be torn: whoever disturbs a copy sets
\* the flag after the sender has cleared it.
SnapshotCurrent ==
    ~peers_updated /\ sender # "copy" /\ (\A c \in Callers : caller[c].at # "stored")
        => local_latency_db = latency_db

\* A peer that is added and not deleted again reaches the sender's copy, unless
\* the agent is told to stop.
PeersReachSender ==
    \A p \in Peers :
        p \in latency_db ~> p \in local_latency_db \/ p \notin latency_db \/ ~running
=============================================================================
