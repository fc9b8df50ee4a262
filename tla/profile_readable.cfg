SPECIFICATION FairSpec
CONSTANTS
    p1 = p1
    p2 = p2
    r1 = r1
    w1 = w1
    w2 = w2
    v1 = v1
    v2 = v2
    Pods = {p1}
    Readers = {r1}
    Writers = {w1}
    PodOf <- OnePod
    Kind = "profile"
    Rows = {v1}
    Miss = Miss
    Null = Null
    Lag = FALSE
    RedisFaults = FALSE
    MaxRestarts = 0
    MaxDBErrors = 0
PROPERTY EventuallyFresh
