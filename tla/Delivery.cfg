CONSTANTS
    Producers = {p1, p2}
    Counts = {2}
    MaxMessages = 1
    Retries = 1
    StartOffsets = {0, 1}
    MaxLosses = 2
SPECIFICATION FairSpec
CHECK_DEADLOCK FALSE
INVARIANTS
    TypeOK
    AckedIsStored
    CopiesWithinAttempts
    ConsumedIsTheLog
PROPERTIES
    AckedIsConsumed
