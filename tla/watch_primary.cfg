SPECIFICATION FairSpec
CONSTANTS
    MaxEvents = 3
    MaxTime = 4
    TTL = 1
    EventStep = 2
    Lag = 0
INVARIANTS
    TypeOK
    SkippedOnlyLate
PROPERTIES
    RefusedOnlyExpired
    Reached
