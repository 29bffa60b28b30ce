SPECIFICATION Spec
CONSTANTS
    pa = pa
    pb = pb
    pc = pc
    pd = pd
    NULL = NULL
    Paths <- Three
    Peer <- MedPeer
    Attrs <- MedAttrs
    Fickle = {pb}
    Flapping = {pa, pb, pc}
    Measured = {}
    Modes = {FALSE}
    Latencies = {}
    UINT32_MAX = 99
    damping_threshold = 1
    DETERMINISTIC_MED = TRUE
    ALWAYS_COMPARE_MED = FALSE
    COMPARE_ROUTER_ID = FALSE
    same_clusterlen = TRUE
    maxpaths_ibgp = 1
    maxpaths_ebgp = 1
INVARIANTS
    OrderIndependent
    RouteUsable
    SelectionStable
PROPERTIES
    ScheduledIsProcessed
    RemovedIsReaped
