SPECIFICATION PartSpec
CONSTANTS
    p1 = p1
    p2 = p2
    r1 = r1
    w1 = w1
    w2 = w2
    v1 = v1
    v2 = v2
    Pods = {p1, p2}
    Readers = {r1}
    Writers = {w1, w2}
    PodOf <- TwoPods
    Kind = "order"
    Rows = {v1}
    Miss = Miss
    Null = Null
    Lag = TRUE
    RedisFaults = TRUE
    MaxRestarts = 1
    MaxDBErrors = 1
    a1 = a1
    a2 = a2
    Accessors = {a1, a2}
    MaxRings = 2
    None = None
    Slots = 2
    Interval = 2
    Threshold = 2
    Divisor = 2
    MaxTime = 4
    MaxAccesses = 3
INVARIANTS TypeOK DoubleDeleteHeals DetectorOK OldForgotten
PROPERTIES EventuallyFresh RecentCounted BusyRingStays LowKeysCleaned
