-------------------------- MODULE TwampLightProofs --------------------------
(***************************************************************************)
(* The flag protocol of the TWAMP-Light agent, for any number of callers,  *)
(* peers and calls.                                                        *)
(***************************************************************************)
EXTENDS TwampLight, TLAPS

\* The positions a caller can be in.
Positions == {Idle} \cup [at : {"locked", "stored"}, op : {"add", "del"}, peer : Peers]

\* a caller has updated the table and not yet set the flag
Stored == \E c \in Callers : caller[c].at = "stored"

\* The sender's copy is current or due again, and so is a copy that was disturbed.
SnapInv ==
    /\ caller \in [Callers -> {Idle} \cup [at : {"locked", "stored"},
                                           op : {"add", "del"}, peer : Peers]]
    /\ ~peers_updated /\ ~Stored /\ sender # "copy" => local_latency_db = latency_db
    /\ ~peers_updated /\ ~Stored /\ sender = "copy" => torn = {}

\* An update is announced by the caller's position until the flag is set.
LEMMA CallerStep ==
    ASSUME SnapInv, NEW c \in Callers, Lock(c) \/ Store(c) \/ Flag(c)
    PROVE  SnapInv'
<1> USE DEF Positions
<1>1. caller \in [Callers -> Positions]
  BY DEF SnapInv
<1>2. CASE Lock(c)
  <2>1. PICK p \in Peers, op \in {"add", "del"} :
            caller' = [caller EXCEPT ![c] = [at |-> "locked", op |-> op, peer |-> p]]
    BY <1>2, Zenon DEF Lock
  <2>2. [at |-> "locked", op |-> op, peer |-> p] \in Positions
    OBVIOUS
  <2>3. caller' \in [Callers -> Positions]
    BY <1>1, <2>1, <2>2
  <2>4. \A d \in Callers : caller[d].at # "stored"
    BY <1>2 DEF Lock, Holding
  <2>5. \A d \in Callers : caller'[d].at # "stored"
    BY <1>1, <2>1, <2>4
  <2>6. UNCHANGED <<shared, threads>>
    BY <1>2 DEF Lock
  <2>7. QED
    BY <2>3, <2>4, <2>5, <2>6 DEF SnapInv, Stored, shared, threads
<1>3. CASE Store(c)
  <2>1. caller[c].at = "locked" /\ caller' = [caller EXCEPT ![c].at = "stored"]
    BY <1>3 DEF Store
  <2>2. caller[c] \in [at : {"locked", "stored"}, op : {"add", "del"}, peer : Peers]
    BY <1>1, <2>1 DEF Idle
  <2>3. /\ [caller[c] EXCEPT !.at = "stored"] \in Positions
        /\ [caller[c] EXCEPT !.at = "stored"].at = "stored"
    BY <2>2
  <2>4. caller' \in [Callers -> Positions] /\ caller'[c].at = "stored"
    BY <1>1, <2>1, <2>3
  <2>5. QED
    BY <2>4 DEF SnapInv, Stored
<1>4. CASE Flag(c)
  <2>1. caller' = [caller EXCEPT ![c] = Idle] /\ peers_updated' = TRUE
    BY <1>4 DEF Flag
  <2>2. caller' \in [Callers -> Positions]
    BY <1>1, <2>1
  <2>3. QED
    BY <2>1, <2>2 DEF SnapInv
<1>5. QED
  BY <1>2, <1>3, <1>4

\* The sender clears the flag before it copies, never after.
LEMMA SenderStep ==
    ASSUME SnapInv, sender_main
    PROVE  SnapInv'
<1>1. UNCHANGED <<caller, latency_db>>
  BY DEF sender_main, Loop, Wait, Check, Copy, Probe, Sleep, shared
<1>2. Stored' = Stored
  BY <1>1 DEF Stored
<1>3. CASE Check
  BY <1>1, <1>2, <1>3 DEF Check, SnapInv
<1>4. CASE Copy
  <2>1. PICK guess \in SUBSET torn : local_latency_db' = (latency_db \ torn) \cup guess
    BY <1>4 DEF Copy
  <2>2. sender = "copy" /\ sender' = "probe" /\ peers_updated' = peers_updated
    BY <1>4 DEF Copy, shared
  <2>3. torn = {} => local_latency_db' = latency_db
    BY <2>1
  <2>4. QED
    BY <1>1, <1>2, <2>2, <2>3 DEF SnapInv
<1>5. CASE Loop \/ Wait \/ Probe \/ Sleep
  <2>1. /\ UNCHANGED <<peers_updated, local_latency_db>>
        /\ sender # "copy" /\ sender' # "copy"
    BY <1>5 DEF Loop, Wait, Probe, Sleep, shared
  <2>2. QED
    BY <1>1, <1>2, <2>1 DEF SnapInv
<1>6. QED
  BY <1>3, <1>4, <1>5 DEF sender_main

\* Whenever no update is announced, by the flag or by a caller about to set it,
\* the sender's copy is the shared table.
THEOREM SnapshotIsCurrent == Spec => []SnapshotCurrent
<1>1. Init => SnapInv
  BY DEF Init, SnapInv
<1>2. SnapInv /\ [Next]_vars => SnapInv'
  <2> SUFFICES ASSUME SnapInv, [Next]_vars PROVE SnapInv'
    OBVIOUS
  <2>1. CASE \E c \in Callers : Lock(c) \/ Store(c) \/ Flag(c)
    BY <2>1, CallerStep
  <2>2. CASE sender_main
    BY <2>2, SenderStep
  <2>3. CASE signal_handler \/ Exit \/ UNCHANGED vars
    <3>1. UNCHANGED <<shared, threads, caller>>
      BY <2>3 DEF signal_handler, Exit, Shutdown, Return, vars
    <3>2. QED
      BY <3>1 DEF SnapInv, Stored, shared, threads
  <2>4. QED
    BY <2>1, <2>2, <2>3 DEF Next
<1>3. SnapInv => SnapshotCurrent
  BY DEF SnapInv, SnapshotCurrent, Stored
<1>4. QED
  BY <1>1, <1>2, <1>3, PTL DEF Spec

\* The part of TypeOK that is not about flags.
Typed ==
    /\ latency_db \subseteq Peers /\ local_latency_db \subseteq Peers /\ torn \subseteq Peers
    /\ sender \in {"loop", "wait", "check", "copy", "probe", "sleep", "done"}
    /\ caller \in [Callers -> Positions]
    /\ \A c, d \in Holding : c = d
    /\ calls \in 0 .. MaxCalls
    /\ main \in {"hold", "grace", "returned"}

\* The mutex: a caller takes it only when nobody is past it.
LEMMA CallerTypes ==
    ASSUME Typed, NEW c \in Callers, Lock(c) \/ Store(c) \/ Flag(c)
    PROVE  Typed'
<1>1. caller \in [Callers -> Positions]
  BY DEF Typed
<1>2. CASE Lock(c)
  <2>1. PICK p \in Peers, op \in {"add", "del"} :
            caller' = [caller EXCEPT ![c] = [at |-> "locked", op |-> op, peer |-> p]]
    BY <1>2 DEF Lock
  <2>2. [at |-> "locked", op |-> op, peer |-> p] \in Positions
    BY DEF Positions
  <2>3. caller' \in [Callers -> Positions]
    BY <1>1, <2>1, <2>2
  <2>4. \A d \in Holding' : d = c
    BY <1>1, <1>2, <2>1 DEF Lock, Holding
  <2>5. calls' \in 0 .. MaxCalls
    <3>1. calls < MaxCalls /\ calls' = calls + 1
      BY <1>2 DEF Lock
    <3>2. QED
      BY <3>1, CallsAssumption DEF Typed
  <2>6. QED
    BY <1>2, <2>3, <2>4, <2>5 DEF Lock, Typed, shared, threads
<1>3. CASE Store(c)
  <2>1. caller[c].at = "locked" /\ caller' = [caller EXCEPT ![c].at = "stored"]
    BY <1>3 DEF Store
  <2>2. caller[c] \in [at : {"locked", "stored"}, op : {"add", "del"}, peer : Peers]
    BY <1>1, <2>1 DEF Idle, Positions
  <2>3. [caller[c] EXCEPT !.at = "stored"] \in Positions /\ caller[c].peer \in Peers
    BY <2>2 DEF Positions
  <2>4. caller' \in [Callers -> Positions]
    BY <1>1, <2>1, <2>3
  <2>5. Holding' \subseteq Holding
    BY <1>1, <2>1 DEF Holding, Idle
  <2>6. latency_db' \subseteq Peers /\ torn' \subseteq Peers
    BY <1>3, <2>3 DEF Store, Typed
  <2>7. QED
    BY <1>3, <2>4, <2>5, <2>6 DEF Store, Typed
<1>4. CASE Flag(c)
  <2>1. caller' = [caller EXCEPT ![c] = Idle]
    BY <1>4 DEF Flag
  <2>2. caller' \in [Callers -> Positions]
    BY <1>1, <2>1 DEF Positions
  <2>3. Holding' \subseteq Holding
    BY <1>1, <2>1 DEF Holding, Idle
  <2>4. QED
    BY <1>4, <2>2, <2>3 DEF Flag, Typed, threads
<1>5. QED
  BY <1>2, <1>3, <1>4

\* The agent's state keeps its types, and add_peer and del_peer exclude each other
\* from the table.
THEOREM Types == Spec => []TypeOK
<1>1. Init => Typed
  <2>1. Init => caller \in [Callers -> Positions] /\ Holding = {}
    BY DEF Init, Positions, Holding, Idle
  <2>2. QED
    BY <2>1, CallsAssumption DEF Init, Typed
<1>2. Typed /\ [Next]_vars => Typed'
  <2> SUFFICES ASSUME Typed, [Next]_vars PROVE Typed'
    OBVIOUS
  <2>1. CASE \E c \in Callers : Lock(c) \/ Store(c) \/ Flag(c)
    BY <2>1, CallerTypes
  <2>2. CASE sender_main \/ signal_handler \/ Exit \/ UNCHANGED vars
    <3>1. UNCHANGED <<latency_db, caller, calls>>
      BY <2>2 DEF sender_main, Loop, Wait, Check, Copy, Probe, Sleep, signal_handler, Exit,
                  Shutdown, Return, vars, shared, threads
    <3>2. Holding' = Holding
      BY <3>1 DEF Holding
    <3>3. local_latency_db' \subseteq Peers /\ torn' \subseteq Peers
      BY <2>2 DEF Typed, sender_main, Loop, Wait, Check, Copy, Probe, Sleep, signal_handler, Exit,
                  Shutdown, Return, vars, shared, threads
    <3>4. /\ sender' \in {"loop", "wait", "check", "copy", "probe", "sleep", "done"}
          /\ main' \in {"hold", "grace", "returned"}
      BY <2>2 DEF Typed, sender_main, Loop, Wait, Check, Copy, Probe, Sleep, signal_handler, Exit,
                  Shutdown, Return, vars, shared, threads
    <3>5. QED
      BY <3>1, <3>2, <3>3, <3>4 DEF Typed
  <2>3. QED
    BY <2>1, <2>2 DEF Next
<1>3. Spec => [](peers_updated \in BOOLEAN /\ running \in BOOLEAN)
  <2>1. Init => peers_updated \in BOOLEAN /\ running \in BOOLEAN
    BY Zenon DEF Init
  <2>2. peers_updated \in BOOLEAN /\ running \in BOOLEAN /\ [Next]_vars
            => (peers_updated \in BOOLEAN /\ running \in BOOLEAN)'
    BY Zenon DEF Next, Lock, Store, Flag, sender_main, Loop, Wait, Check, Copy, Probe, Sleep,
                 signal_handler, Exit, Shutdown, Return, vars, shared, threads
  <2>3. QED
    BY <2>1, <2>2, PTL DEF Spec
<1>4. Typed /\ peers_updated \in BOOLEAN /\ running \in BOOLEAN => TypeOK
  BY DEF Typed, TypeOK, Positions
<1>5. QED
  BY <1>1, <1>2, <1>3, <1>4, PTL DEF Spec
=============================================================================
