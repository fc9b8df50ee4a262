SPECIFICATION ProbesSpec
CONSTANTS
    c1 = c1
    c2 = c2
    c3 = c3
    Callers = {c1, c2, c3}
    MaxRequests = 2
    Timeout = 0
    FailNum = 1
    FailDen = 3
    MaxCount = 3
INVARIANTS HalfOpenLimit
