SPECIFICATION Spec
CONSTANTS
    None = None
    Value = {"coin"}
    Outpoint <- MCOutpoint
    DAAScore <- MCDAAScore
    Coin <- MCCoin
    Carries <- MCCarries
    MaxBlock = 4
    DAGs <- MCDAGs
    MaxBlockParents = 2
    MergeSetSizeLimit = 2
    FinalityDepth = 2
    MergeDepth = 9
    MaxBlocksToResolve = 1
    MaxBad = 1
    MaxCrashes = 0
    MaxRepairs = 1
    SplitRelay = TRUE
INVARIANTS VirtualIsMineable VerdictsAreRight
PROPERTIES NoReorgPastFinality
CHECK_DEADLOCK FALSE
