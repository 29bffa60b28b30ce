SPECIFICATION Spec
CONSTANTS
    Routes = {r1, r2}
    SoftReconfig = {r1}
    Measured = {r1, r2}
    ASPaths = {x1}
    InputWeights = {0}
    LATENCY_WEIGHT = 32768
    Addresses = {a1, a2, a3, a4, a5}
    MaxLost = 1
    MaxRewrites = 1
    NULL = NULL
INVARIANTS
    TypeOK
    RefcountExact
    AspathRefcountExact
    TableCanonical
SYMMETRY AddressSymmetry
CHECK_DEADLOCK FALSE
