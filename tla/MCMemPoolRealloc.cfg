SPECIFICATION Spec
CONSTANTS
    c1 = c1
    c2 = c2
    c3 = c3
    NULL = NULL
    Threads = {t1}
    Chunks = {c1, c2, c3}
    UsedSets <- MCUsedSets
    InitList <- MCInitList
    IdleSize = 0
    Requests <- MCLargeRequests
    MaxSize <- MCMaxSize
    MaxBlock <- MCMaxBlock
INVARIANT ReallocHoldsRequest
