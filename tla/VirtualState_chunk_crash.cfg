SPECIFICATION Spec
CONSTANTS
    None = None
    Value = {"coin"}
    Outpoint <- MCOutpoint
    DAAScore <- MCDAAScore
    Coin <- MCCoin
    Carries <- MCCarries
    MaxBlock = 3
    DAGs <- MCDAGs
    MaxBlockParents = 2
    MergeSetSizeLimit = 3
    FinalityDepth = 9
    MergeDepth = 9
    MaxBlocksToResolve = 1
    MaxBad = 0
    MaxCrashes = 1
    MaxRepairs = 0
    SplitRelay = TRUE
INVARIANTS PastIsRestorable
