SPECIFICATION FairSpec
CONSTANTS
    c1 = c1
    c2 = c2
    c3 = c3
    NULL = NULL
    Threads = {t1, t2}
    Chunks = {c1, c2, c3}
    UsedSets <- MCUsedSets
    InitList <- MCInitList
    IdleSize = 0
    Requests <- MCRequests
    MaxSize <- MCMaxSize
    MaxBlock <- MCMaxBlock
INVARIANT TypeOK
INVARIANT MutualExclusion
INVARIANT NoDoubleAllocation
INVARIANT NothingLost
INVARIANT DestroyLeavesHeld
INVARIANT ListWellFormed
INVARIANT BlockFits
INVARIANT Accounting
PROPERTY KeepsGoing
