CONSTANTS
    Data = {0, 5}
    MaxRecords = 2
    MaxCells = 10
    Cuts = {3}
SPECIFICATION Spec
CHECK_DEADLOCK FALSE
INVARIANTS
    EndIsAfterLastRecord
