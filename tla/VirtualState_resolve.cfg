SPECIFICATION Spec
CONSTANTS
    None = None
    Value = {"coin"}
    Outpoint <- MCOutpoint
    DAAScore <- MCDAAScore
    Coin <- MCCoin
    Carries <- MCCarries
    MaxBlock = 4
    DAGs <- MCDAGs
    MaxBlockParents = 2
    MergeSetSizeLimit = 3
    FinalityDepth = 9
    MergeDepth = 9
    MaxBlocksToResolve = 1
    MaxBad = 1
    MaxCrashes = 0
    MaxRepairs = 0
    SplitRelay = TRUE
INVARIANTS VirtualIsHeaviest PastIsRestorable SelectedParentIsOnlyRoot
PROPERTIES ImplementsConsensusState
