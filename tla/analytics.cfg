SPECIFICATION FairSpec
CONSTANTS
    e1 = e1
    e2 = e2
    e3 = e3
    Entries = {e1, e2, e3}
    BufSize = 1
    BatchSize = 2
    PGFaults = TRUE
INVARIANTS TypeOK OnePlace
PROPERTIES LogPromise LoggedEventuallySettled
CHECK_DEADLOCK FALSE
