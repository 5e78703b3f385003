SPECIFICATION Spec
CONSTANTS
    Threads = {t1, t2}
    Nodes = {d, n1, n2}
    Dummy = d
    NULL = NULL
    NONE = NONE
    EMPTY = EMPTY
    BUSY = BUSY
    Kinds <- MCList
    CleanNodes = FALSE
    LengthMod = 2
INVARIANT TakesOldest
