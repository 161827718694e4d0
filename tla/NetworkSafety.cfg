\* Two instances on two threads, jobs that time out after a tick, and a reload or
\* SIGTERM at any point of the runs.
SPECIFICATION NetFairSpec
CONSTANTS
    InstanceCount = 2
    PoolSize = 2
    Timeout = 0
    ThreadsPerWorker = 2
    SpareThreads = 1
    OtherThreads = 1
    MaxBatch = 1
    Stuck = {}
    MaxStops = 1
    Kept = {FALSE}
    MayTerminate = TRUE
PROPERTIES
    NetworkSound
