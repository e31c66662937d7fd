\* Concurrent requests, two plans, entries left behind, the key dropped.
SPECIFICATION Spec
CONSTANTS
    Window = 3
    Second = 2
    Limits = {1, 2}
    MaxDelay = 1
    MaxRequests = 4
    MaxTime = 7
    MaxInFlight = 2
    MayVanish = TRUE
INVARIANTS TypeOK WithinLimit RetryAfterSuffices
CHECK_DEADLOCK FALSE
