SPECIFICATION PartSpec
CONSTANTS
    c1 = c1
    c2 = c2
    Callers = {c1, c2}
    MaxRequests = 2
    Timeout = 0
    FailNum = 1
    FailDen = 3
    MaxCount = 3
    Goroutines = {c1, c2}
    Capacity = 2
    RefillRate = 2
    Scale = 3
    MaxTime = 8
INVARIANTS TypeOK BucketOK BurstBound NoTokenLost
PROPERTIES BreakerPromise Recovery
