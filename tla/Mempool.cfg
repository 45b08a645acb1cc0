SPECIFICATION FairSpec
CONSTANTS
    Tx = {1, 2, 3, 4}
    NoTx = 0
    Coin = {"c1", "c2"}
    Inputs <- MCInputs
    Outputs <- MCOutputs
    Fee <- MCFee
    Mass <- MCMass
    Compound = {3}
    MaximumTransactionCount = 1
    MaximumOrphanTransactionCount = 1
    HoldOrphans = TRUE
    BlockTransactions <- MCBlockTransactions
INVARIANTS OneSpenderPerOutpoint LinksAreMutual
PROPERTIES HighPriorityStays InsertionEndsWithinLimit OperationsEnd
