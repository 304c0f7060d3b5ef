CONSTANTS
    Data = {0, 5}
    MaxRecords = 2
    MaxCells = 11
    Cuts = {1, 2, 3, 4}
SPECIFICATION Spec
CHECK_DEADLOCK FALSE
INVARIANTS
    TypeOK
    ScansAgree
    EarlierBatchesStayReadable
