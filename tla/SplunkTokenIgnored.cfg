\* A token of a day, written to disk, expires, and the YAML has a new one.
SPECIFICATION SessionSpec
CONSTANTS
    \* A search configured by name and one that is matched, and restarts.
    NamedSearches = {"n"}
    ServerSearches = {"n", "m"}
    Patterns <- SearchPatterns
    ExpirationDays = 1
    RenewalDays = 0
    IgnoreErrors = TRUE
    InitialExpiries <- UnlimitedOrSoon
    LastDay = 2
    MaxTokens = 3
    MaxRestarts = 1
INVARIANT NewTokenIsUsed
\* The days are bounded.
CHECK_DEADLOCK FALSE
