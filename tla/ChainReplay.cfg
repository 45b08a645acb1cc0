SPECIFICATION Spec
CONSTANTS
    Outpoint <- MCOutpoint
    Value = {"v"}
    DAAScore <- MCScores
    None = None
    Tx <- MCTx
    InitialCoins = {"g"}
    ValueOf <- MCValueOf
    MaxScore = 3
    MaxResolved = 4
    CoinbaseMaturity = 1
    DuplicateCoinbases = FALSE
INVARIANTS DiffIsExact MultisetMatchesDiff StagedDiffIsExact
