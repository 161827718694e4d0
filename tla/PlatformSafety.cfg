SPECIFICATION MCSpec
CONSTANTS
    \* Two agents, leases of three ticks refreshed one tick before they expire.
    n1 = n1
    n2 = n2
    Nodes <- TwoNodes
    LeaseDuration = 3
    RefreshMargin = 1
    MaxFaults = 2
    \* Two workers and two calls.
    PoolWorkers = {"w1", "w2"}
    PoolCalls = {"a", "b"}
    CallPlans <- Plans
    MaxTimeouts = 1
    \* Two datagrams and a flush.
    Datagrams <- Received
    ChunkSize = 1
    MaxDatagrams = 2
    MaxFlushes = 1
INVARIANTS
    LeasesKnown
    OneLeaderUntilExpiry
PROPERTIES
    LeadershipMoves
    PoolServes
    ServerSound
\* What is to come is bounded.
CHECK_DEADLOCK FALSE
