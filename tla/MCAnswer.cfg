CONSTANTS
    c1 = c1
    c2 = c2
    t1 = t1
    t2 = t2
    nameless = nameless
    Conns <- MCConns
    Topics <- AnswerTopics
    PartitionIds = {0}
    Workload <- AnswerWorkload
    Nameless = nameless
    MetadataAtFirst <- AnswerMetadata
    Registrations = {}
    MaxRequests = 2
    HighWater = 0
    Readers <- MCReaders
SPECIFICATION FairSpec
INVARIANTS
    AnswersInOrder
PROPERTIES
    RequestsAreAnswered
    ConnectionsAreReleased
    ImplementsCommitLog
