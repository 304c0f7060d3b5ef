CONSTANTS
    Wanted <- MCWanted
    FeatureName <- MCFeatureName
    Stamp <- MCStamp
    Checksum <- MCChecksum
    MaxRuns = 2
    MaxCuts = 1
    MaxCutBytes = 250
SPECIFICATION Spec
CHECK_DEADLOCK FALSE
INVARIANTS
    WholeFilesLoadWhole
    NewBatchesFollow
    CutsLoseNothingInFront
    TornFilesServeNothingElse
