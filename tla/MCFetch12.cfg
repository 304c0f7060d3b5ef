CONSTANTS
    NULL = NULL
    Clients <- Fetch12Clients
    Contents <- MCContents
    PartitionCounts = {0, 2, 126}
    LogData <- MCLogData
    MaxRequests = 2
SPECIFICATION Spec
CHECK_DEADLOCK FALSE
INVARIANTS
    FetchSince12Understood
