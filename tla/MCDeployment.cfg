CONSTANTS
    Names = {grape, pear}
    MaxPartitions = 1
    Brokers = {b1, b2}
    Nobody = Nobody
    MaxRuns = 3
    MaxWrites = 3
SPECIFICATION Spec
SYMMETRY Symmetry
CHECK_DEADLOCK FALSE
INVARIANTS
    TypeOK
    OffsetsFollowOn
    AckedUntilRemoved
    NoRecordsOfOldTopics
