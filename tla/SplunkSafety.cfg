\* Four configurations of an instance at once; a run ends at the last second.
SPECIFICATION MCSpec
CONSTANTS
    Events <- EventsOfOne
    StartTime = 6
    MaxLag = 1
    Configurations <- AllConfigurations
    \* A search configured by name and one that is matched, and a restart.
    NamedSearches = {"n"}
    ServerSearches = {"n", "m"}
    Patterns <- SearchPatterns
    ExpirationDays = 1
    RenewalDays = 0
    IgnoreErrors = TRUE
    InitialExpiries <- Unlimited
    LastDay = 2
    MaxTokens = 2
    MaxRestarts = 1
INVARIANTS TelemetrySound SessionKept
PROPERTY StatusAdvances
\* The clock stops at the last second (bound).
CHECK_DEADLOCK FALSE
