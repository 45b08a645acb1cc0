SPECIFICATION FairSpec
CONSTANTS
    MaxAttempts = 2
    MaxTimeouts = 1
    MaxFaults = 1
    MaxCrashes = 1
INVARIANTS ActiveIsComplete ServedIsComplete NoUnreachableData
PROPERTIES NodeComesUp PlaceIsFreed
