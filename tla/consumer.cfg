SPECIFICATION FairSpec
CONSTANTS
    o1 = o1
    o2 = o2
    w1 = w1
    w2 = w2
    Orders = {o1, o2}
    Poison = {o2}
    Workers = {w1, w2}
    MaxRetries = 1
    WriteAttempts = 2
    MaxLog = 2
    MaxRestarts = 1
    DBFaults = TRUE
    KafkaFaults = TRUE
    OpsTopics <- HandMade
INVARIANTS TypeOK Accounted SkipBound
PROPERTY AcceptedEventuallySettled
CHECK_DEADLOCK FALSE
