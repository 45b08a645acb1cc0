SPECIFICATION Spec
CONSTANTS
    None = None
    Value = {"coin"}
    Outpoint <- MCNoSpendOutpoint
    DAAScore <- MCDAAScore
    Coin <- MCCoin
    Carries <- MCNoCarries
    MaxBlock = 4
    DAGs <- MCDAGs
    MaxBlockParents = 2
    MergeSetSizeLimit = 3
    FinalityDepth = 9
    MergeDepth = 2
    MaxBlocksToResolve = 1
    MaxBad = 0
    MaxCrashes = 0
    MaxRepairs = 0
    SplitRelay = TRUE
INVARIANTS TableIsVirtualPast
