SPECIFICATION MCSpec
CONSTANTS
    \* Buckets of two ticks, flushed every two ticks or up to one tick late.
    Interval = 2
    ExpirySeconds = 5
    MaxTime <- TimeBound
    MaxPoints <- PointsBound
    FlushInterval = 2
    MaxDelay = 1
    \* A metric of each kind, up to four samples of three values until tick three.
    Inputs = {0, 1, 3}
    Percentile = 75
    MetricExpiry = 2
    MetricsMaxTime = 3
    MaxSamples = 4
    \* Payloads of ten bytes once compressed.
    MaxCompressedSize = 10
    Zipped <- SumOfSizes
    Ratios = {0, 1}
    Batches <- MetricBatches
    \* Two endpoints, an emitter with room for one packet, and a clock set back.
    Intakes <- Requests
    IntakeEndpoints = {"e1", "e2"}
    Emitters = {"emitter"}
    QueueLimit = 1
    GraphiteInput <- Pickles
    TransactionFlushInterval = 2
    AlarmDelay = 4
    Timeframe = 2
    MaxResets = 2
    LastTick = 6
    MaxSetBack = 2
INVARIANTS
    PointsReported
    MetricsAccounted
    IntakeSound
PROPERTIES
    ImplementsRollup
\* Time is bounded.
CHECK_DEADLOCK FALSE
