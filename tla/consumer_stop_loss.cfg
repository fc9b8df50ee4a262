SPECIFICATION Spec
CONSTANTS
    o1 = o1
    o2 = o2
    w1 = w1
    w2 = w2
    Orders = {o1, o2}
    Poison = {}
    Workers = {w1, w2}
    MaxRetries = 1
    WriteAttempts = 2
    MaxLog = 4
    MaxRestarts = 1
    DBFaults = FALSE
    KafkaFaults = FALSE
    OpsTopics <- HandMade
INVARIANT FailedMessagesNotLost
CHECK_DEADLOCK FALSE
