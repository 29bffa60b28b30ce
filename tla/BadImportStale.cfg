SPECIFICATION Spec
CONSTANTS
    pa = pa
    pb = pb
    pc = pc
    pd = pd
    NULL = NULL
    Paths <- Three
    Peer <- VpnPeer
    Attrs <- VpnAttrs
    Fickle = {}
    Flapping = {}
    Measured = {pa, pb}
    Modes = {TRUE, FALSE}
    Latencies = {1}
    UINT32_MAX = 99
    damping_threshold = 1
    DETERMINISTIC_MED = FALSE
    ALWAYS_COMPARE_MED = FALSE
    COMPARE_ROUTER_ID = FALSE
    same_clusterlen = TRUE
    maxpaths_ibgp = 1
    maxpaths_ebgp = 1
INVARIANTS
    ImportFollowsVpnPath
