SPECIFICATION Spec
CONSTANTS
    Events <- EventsOfOne
    StartTime = 6
    MaxLag = 1
    Configurations <- UnreliableOnly
INVARIANT FailureNotCommitted
\* The clock stops at the last second (bound).
CHECK_DEADLOCK FALSE
