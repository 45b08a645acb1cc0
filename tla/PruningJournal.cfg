SPECIFICATION FairSpec
CONSTANTS
    MaxIndex = 2
    Span = 2
    Window = 1
    BatchBlocks = 1
    ReadBlocks = {1}
    MaxFaults = 1
    Outpoints = {1, 2, 3}
    SetAt <- MCSetAt
    MaxCrashes = 1
    AskedPoint = 1
INVARIANTS ReadyAnswersAreRight PendingIsDerivable SealedJobReachesTarget
PROPERTIES JobDeletesItsHistory DeletedStaysDeleted JobsAreDone ServesCompleteSets
CHECK_DEADLOCK FALSE
