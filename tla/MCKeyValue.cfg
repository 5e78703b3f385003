SPECIFICATION Spec
CONSTANTS
    short = short
    long = long
    SENTINEL = SENTINEL
    NULL = NULL
    GARBAGE = GARBAGE
    Keys <- MCKeys
    Hash <- MCHash
    Nodes <- MCNodes
    Vals <- MCVals
    ValLen <- MCValLen
    ValsOf <- MCValsOf
    KEY_VALUE_SIZE = 2
    MaxLen = 65537
    MaxMemory = 65655
    SentinelLinks <- MCZeroed
INVARIANT TypeOK
INVARIANT BucketsRedBlack
INVARIANT DeleteKeepsTree
INVARIANT NothingLeaks
INVARIANT AccountExact
PROPERTY ImplementsMap
CHECK_DEADLOCK FALSE
