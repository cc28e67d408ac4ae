SPECIFICATION FairSpec
CONSTANTS
    e1 = e1
    e2 = e2
    w1 = w1
    r1 = r1
    NoEvent = NoEvent
    Events = {e1, e2}
    Kind <- Mixed
    Workers = {w1}
    Redrives = {r1}
    MaxRetries = 1
    Count = 1
    PumpCount = 1
    MaxPublishes = 2
    MaxRedrives = 0
    MaxDisturbances = 1
    Bases <- SomeBases
    RetryLimit = 70
INVARIANTS
    NoEventLost
    RetryDelaysGrow
PROPERTIES
    Drains
CHECK_DEADLOCK FALSE
