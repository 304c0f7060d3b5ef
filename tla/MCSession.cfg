CONSTANTS
    NULL = NULL
    Clients <- AdvertisedClients
    Contents <- MCContents
    PartitionCounts = {0, 2, 126, 127, 255}
    LogData <- MCLogData
    MaxRequests = 2
SPECIFICATION Spec
CHECK_DEADLOCK FALSE
INVARIANTS
    RequestsUnderstood
    AnswersUnderstood
