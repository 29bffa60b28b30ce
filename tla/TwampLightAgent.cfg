SPECIFICATION Spec
CONSTANTS
    Peers = {r1, r2}
    Callers = {t1, t2}
    MaxCalls = 3
INVARIANTS
    TypeOK
    SnapshotCurrent
PROPERTIES
    PeersReachSender
CHECK_DEADLOCK FALSE
