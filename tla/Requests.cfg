CONSTANTS
    Slot = {s1, s2}
    PoolSize = 1
    Threshold = 1
    Window = 1
    MaxRetries = 1
SPECIFICATION FairSpec
INVARIANTS
    TypeOK
    AppliedAtMostOnce
    BreakerCounts
PROPERTIES
    RequestsAnswered
    BreakerCloses
