SPECIFICATION RailFairSpec
CONSTANTS
    w1 = w1
    r1 = r1
    p1 = p1
    NoEvent = NoEvent
    NoRow = NoRow
    NoKey = NoKey
    Events = {1}
    Kind <- AllWebhook
    Workers = {w1}
    Redrives = {r1}
    MaxRetries = 0
    Count = 2
    PumpCount = 2
    MaxPublishes = 2
    MaxRedrives = 1
    MaxDisturbances = 1
    Requests = {"first"}
    Key <- OneKey
    Hash <- OneHash
    Publishers = {p1}
    MaxDelay = 1
    MaxFaults = 1
    MaxReplays = 1
INVARIANTS
    AcceptedNotLost
PROPERTIES
    ImplementsLifecycle
CHECK_DEADLOCK FALSE
