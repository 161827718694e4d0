\* One endpoint, room for one message out of three: evictions at every step.
SPECIFICATION FairSpec
CONSTANTS
    e1 = e1
    e2 = e2
    k1 = k1
    Endpoints = {e1}
    ApiKeys = {k1}
    Targets <- OneTarget
    Sizes = {1}
    MaxTransactions = 3
    MaxQueueSize = 1
    MaxParallelism = 1
    MaxEndpointErrors = 1
    ThrottlingDelay = 1
    ReplayDelay = 1
    MaxWaitForReplay = 1
    MaxFlushDuration = 1
    RequestTimeout = 1
    TicksPerSecond = 1
INVARIANT LostOnlyIfEvicted
PROPERTIES ImplementsOutbox EverythingSettles
