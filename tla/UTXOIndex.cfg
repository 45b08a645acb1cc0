SPECIFICATION FairSpec
CONSTANTS
    None = None
    Value = {"coin"}
    Outpoint <- MCOutpoint
    DAAScore <- MCScores
    Parents <- MCParents
    UTXOSetOf <- MCUTXOSetOf
    Genesis = "p0"
    ChannelCapacity = 2
    PageSize = 2
    MaxMoves = 4
    MaxCrashes = 1
INVARIANTS SyncedIndexIsTable CountsMatchEntries
PROPERTIES IndexFollowsVirtual
CHECK_DEADLOCK FALSE
