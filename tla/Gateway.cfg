CONSTANTS
    c1 = c1
    c2 = c2
    r1 = r1
    r2 = r2
    Requests = {g1, g2}
    Clients = {c1, c2}
    Routes = {r1, r2}
    PolicySets <- MCPolicySets
    Unit = 2
    Rate = 1
    Burst = 1
    GlobalRate = 2
    GlobalBurst = 2
    MaxBuckets = 2
    IdleTTL = 2
    Window = 2
    Threshold = 2
    MaxTracked = 1
    SweepEvery = 1
    MaxConcurrent = 2
    MaxPerClient = 1
    MaxTime = 3
    MaxStale = 1
SYMMETRY Symmetry
SPECIFICATION Spec
INVARIANTS
    GatewayTypeOK
    AdmissionExact
    AdmittedWithinRate
    RefusedRequestsCostNothing
    BannedAreNotForwarded
    CloseKnowsAllTunnels
PROPERTIES
    BansAreKept
