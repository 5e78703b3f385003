SPECIFICATION ProgramFairSpec
CONSTANTS
    NULL = NULL
    ANYTHING = ANYTHING
    GARBAGE = GARBAGE
    log_accept_handler = log_accept_handler
    log_read_handler = log_read_handler
    LISTENER = LISTENER
    Conns = {1, 2, 3}
    ReadSize = 2
    MaxPending = 1
    Procs <- MCProcs
    Fds <- MCFds
    evtsize = 3
    Leftover <- MCLeftover
    Names <- MCNames
    NameLen <- MCNameLen
    Keys <- MCKeys
    Values <- MCValues
    Levels <- MCLevels
    Filling <- MCFilling
    RUNON = RUNON
    Files <- MCFiles
INVARIANT ProgramTypeOK
INVARIANT EventsMatchFile
INVARIANT ClientsWatched
INVARIANT RuntimeFromFile
INVARIANT OnlyKnownLeaks
PROPERTY ClosesOnlyTheGone
PROPERTY HungUpClosed
CHECK_DEADLOCK FALSE
