SPECIFICATION Spec
CONSTANTS
    Procs = {p, q}
    NULL = NULL
    GARBAGE = GARBAGE
    Fds <- MCFds
    evtsize = 3
    Leftover <- MCLeftover
SYMMETRY MCSymmetry
INVARIANT TypeOK
INVARIANT InterestMatchesTable
INVARIANT MaxFdExact
INVARIANT CallsRegistered
INVARIANT RoundServesReported
