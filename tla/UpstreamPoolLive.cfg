CONSTANTS
    Requests = {r1}
    N = 2
    Weight <- MCWeight
    Priority <- MCPriority
    Algorithms = {"round_robin", "weighted_round_robin", "least_connections",
                  "priority_failover", "random_weighted"}
    RetryCount = 2
    Slots = 1
    MaxFlips = 2
SPECIFICATION FairSpec
PROPERTIES
    HealthConverges
