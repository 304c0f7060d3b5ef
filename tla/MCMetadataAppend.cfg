CONSTANTS
    Wanted <- OneTopic
    FeatureName <- MCFeatureName
    Stamp <- MCStamp
    Checksum <- MCChecksum
    MaxRuns = 2
    MaxCuts = 1
    MaxCutBytes = 400
SPECIFICATION Spec
CHECK_DEADLOCK FALSE
INVARIANTS
    WrittenTopicsAreServed
