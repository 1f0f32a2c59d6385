\* Three concurrent callers of a breaker, two failures to open, several open and
\* half-open periods; a bucket of three over several intervals of two milliseconds.
CONSTANTS
    Call <- ThreeCalls
    FailureThreshold = 2
    ResetTimeout = 2
    MaxTime = 5
    Capacity = 3
    Refill = 1
    IntervalMs = 2
    TicksPerMs = 2
    MaxClock = 18
SPECIFICATION ResilienceSpec
INVARIANTS
    ProbeExclusive
    CountMatchesState
PROPERTIES
    OnlyFreshProbeCloses
    ProbeReleased
    ImplementsTokenBucket
CHECK_DEADLOCK FALSE
