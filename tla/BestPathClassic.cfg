SPECIFICATION Spec
CONSTANTS
    pa = pa
    pb = pb
    pc = pc
    pd = pd
    NULL = NULL
    Paths <- Four
    Peer <- ClassicPeer
    Attrs <- ClassicAttrs
    Fickle = {}
    Flapping = {}
    Measured = {}
    Modes = {FALSE}
    Latencies = {}
    UINT32_MAX = 99
    damping_threshold = 1
    DETERMINISTIC_MED = FALSE
    ALWAYS_COMPARE_MED = TRUE
    COMPARE_ROUTER_ID = FALSE
    same_clusterlen = TRUE
    maxpaths_ibgp = 1
    maxpaths_ebgp = 2
INVARIANTS
    TypeOK
    FibCurrent
    BestIsPreferred
    MultipathExact
