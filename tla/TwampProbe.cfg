SPECIFICATION Spec
CONSTANTS
    Tools = {"cpp", "python"}
    num_packets = 3
    timeout = 2
    interval = 1
    Modulus = 64
    Copied = {1}
    Steps = {2}
INVARIANTS
    TypeOK
    LossNotUnderstated
    SampleMatchesProbe
    NeverUnderestimated
PROPERTIES
    RunEnds
CHECK_DEADLOCK FALSE
