SPECIFICATION FairSpec
CONSTANTS
    Block = {1, 2, 3}
    NoBlock = 0
    Parents <- MCParents
    Invalid = {2}
    Unmergeable = {1}
    Peer = {p1}
    RPC = {r1}
    NoFlow = none
    NoTemplate = none
    MaxOrphans = 1
    MaxQueuedDisqualifiedBlocks = 2
    MaxInvs = 1
INVARIANTS NoOrphanIsForgotten NoRequestIsForgotten TemplateIsCurrent
PROPERTIES FlowsComeBack
CHECK_DEADLOCK FALSE
