SPECIFICATION FairSpec
CONSTANTS
    Threads = {t1, t2, t3}
    Nodes = {d, n1, n2}
    Dummy = d
    NULL = NULL
    NONE = NONE
    EMPTY = EMPTY
    BUSY = BUSY
    Kinds <- MCBoth
    CleanNodes = TRUE
    LengthMod = 1
INVARIANT TypeOK
INVARIANT LinksSpellItems
INVARIANT NoSharing
PROPERTY ImplementsFifo
PROPERTY TryReturns
