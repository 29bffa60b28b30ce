SPECIFICATION Spec
CONSTANTS
    fast_convergence = TRUE
    rpkt_quanta = 2
    MaxAttempts = 3
    MaxPackets = 3
    MaxTroubles = 1
INVARIANTS
    TypeOK
    EstablishedPeersExact
    AssertionsHold
    NeverStranded
    CompletionFindsClearing
    RoutesOrphanedByXfer
PROPERTIES
    StubResolved
CHECK_DEADLOCK FALSE
