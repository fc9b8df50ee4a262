SPECIFICATION Spec
CONSTANTS
    e1 = e1
    e2 = e2
    e3 = e3
    Entries = {e1, e2}
    BufSize = 2
    BatchSize = 2
    PGFaults = FALSE
INVARIANT NothingLost
CHECK_DEADLOCK FALSE
