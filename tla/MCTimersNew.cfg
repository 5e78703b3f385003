SPECIFICATION Spec
CONSTANTS
    Timers = {a, b, c}
    NULL = NULL
    MS = 2
    PERM = 1
    Delays <- MCDelays
    Start = 2
    MaxNow = 6
    MaxId = 4
    MaxBack = 1
SYMMETRY MCSymmetry
INVARIANT NewTimersSkipped
CHECK_DEADLOCK FALSE
