SPECIFICATION Spec
CONSTANTS
    e1 = e1
    w1 = w1
    w2 = w2
    r1 = r1
    r2 = r2
    NoEvent = NoEvent
    Events = {e1}
    Kind <- AllWebhook
    Workers = {w1, w2}
    Redrives = {r1, r2}
    MaxRetries = 1
    Count = 2
    PumpCount = 2
    MaxPublishes = 1
    MaxRedrives = 2
    MaxDisturbances = 2
SYMMETRY Symmetric
CONSTRAINT RetryBound
INVARIANTS
    TypeOK
    NoEventLost
    AckedIsRecorded
    RecordHasCopy
    RedrivesAnswerDeadLetters
