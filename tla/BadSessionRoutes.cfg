SPECIFICATION Spec
CONSTANTS
    fast_convergence = TRUE
    rpkt_quanta = 2
    MaxAttempts = 2
    MaxPackets = 3
    MaxTroubles = 1
INVARIANTS
    RoutesHaveSession
CHECK_DEADLOCK FALSE
