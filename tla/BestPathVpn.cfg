SPECIFICATION Spec
CONSTANTS
    pa = pa
    pb = pb
    pc = pc
    pd = pd
    NULL = NULL
    Paths <- Two
    Peer <- LatencyPeer
    Attrs <- LatencyAttrs
    Fickle = {}
    Flapping = {}
    Measured = {pa, pb}
    Modes = {TRUE, FALSE}
    Latencies = {1, 3, 5}
    UINT32_MAX = 99
    damping_threshold = 1
    DETERMINISTIC_MED = TRUE
    ALWAYS_COMPARE_MED = FALSE
    COMPARE_ROUTER_ID = FALSE
    same_clusterlen = TRUE
    maxpaths_ibgp = 1
    maxpaths_ebgp = 1
INVARIANTS
    FastestWins
