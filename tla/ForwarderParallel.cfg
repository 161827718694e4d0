\* Two endpoints, two slots, two messages of sizes 1 or 2, room for three, and
\* throttling: requests overlap, and one append() evicts several transactions.
SPECIFICATION Spec
CONSTANTS
    e1 = e1
    e2 = e2
    k1 = k1
    Endpoints = {e1, e2}
    ApiKeys = {k1}
    Targets <- TwoTargets
    Sizes = {1, 2}
    MaxTransactions = 4
    MaxQueueSize = 3
    MaxParallelism = 2
    MaxEndpointErrors = 1
    ThrottlingDelay = 1
    ReplayDelay = 1
    MaxWaitForReplay = 1
    MaxFlushDuration = 2
    RequestTimeout = 1
    TicksPerSecond = 1
INVARIANTS
    SettlingSound QueueSound RequestsSound TimersSound
    EndpointsSpared
SYMMETRY EndpointSymmetry
