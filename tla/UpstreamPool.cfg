CONSTANTS
    Requests = {r1, r2}
    N = 2
    Weight <- MCWeight
    Priority <- MCPriority
    Algorithms = {"weighted_round_robin", "random_weighted"}
    RetryCount = 2
    Slots = 1
    MaxFlips = 2
SYMMETRY Symmetry
SPECIFICATION Spec
INVARIANTS
    PoolTypeOK
    ActiveExact
    RetriesSpread
    WeightsBalanced
PROPERTIES
    PoolChangesAreEarned
