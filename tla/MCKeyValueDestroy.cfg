SPECIFICATION Spec
CONSTANTS
    short = short
    long = long
    SENTINEL = SENTINEL
    NULL = NULL
    GARBAGE = GARBAGE
    Keys <- MCKeys
    Hash <- MCHash
    Nodes <- MCNodes
    Vals <- MCVals
    ValLen <- MCValLen
    ValsOf <- MCValsOf
    KEY_VALUE_SIZE = 2
    MaxLen = 65537
    MaxMemory = 65655
    SentinelLinks <- MCUnset
INVARIANT DestroyStaysInTree
CHECK_DEADLOCK FALSE
