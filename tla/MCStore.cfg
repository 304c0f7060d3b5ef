CONSTANTS
    c1 = c1
    c2 = c2
    t1 = t1
    t2 = t2
    nameless = nameless
    Conns <- MCConns
    Topics <- StoreTopics
    PartitionIds = {0}
    Workload <- StoreWorkload
    Nameless = nameless
    MetadataAtFirst <- StoreMetadata
    Registrations <- StoreRegistrations
    MaxRequests = 2
    HighWater = 0
    Readers = {}
SPECIFICATION Spec
SYMMETRY ConnSymmetry
INVARIANTS
    TypeOK
    OffsetsContiguous
    EndOffsetIsFresh
    AcksTellTheTruth
    LogsHoldWhatWasSent
    FetchDeliversAll
PROPERTIES
    EndsNeverRecede
