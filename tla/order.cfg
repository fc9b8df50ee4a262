SPECIFICATION FairSpec
CONSTANTS
    o1 = o1
    o2 = o2
    o3 = o3
    p1 = p1
    p2 = p2
    Orders = {o1, o2, o3}
    UserOf <- MCUsers
    Processes = {p1, p2}
    ProcOf <- MCProcs
    SeqMod = 2
    RandMod = 1
    MaxStart = 0
    NoOrder = NoOrder
    MaxFaults = 1
CHECK_DEADLOCK FALSE
INVARIANTS TypeOK NumbersClash RowsKeepTheirUser AnsweredKept LockProtects
PROPERTIES OnlyOwnerReleases RequestsEnd
