SPECIFICATION Spec
CONSTANTS
    Width = 5
    ReindexSlack = 1
    ReindexWindow = 1
    Work <- MCWork
    Hash <- MCHash
    MaxBlockParents = 3
    MaxLinks = 8
INVARIANTS IndexIsAncestry MergeSetsArePasts ChainIsTipsChain
