SPECIFICATION SystemFairSpec
CONSTANTS
    e1 = e1
    e2 = e2
    w1 = w1
    r1 = r1
    NoEvent = NoEvent
    Events = {e1, e2}
    ValidBody = {e1}
    Kind <- AllWebhook
    Workers = {w1}
    Redrives = {r1}
    MaxRetries = 1
    Count = 2
    PumpCount = 2
    MaxPublishes = 2
    MaxRedrives = 1
    MaxDisturbances = 0
    MaxFailNext = 1
    MaxFailures = 1
    MaxChanges = 1
INVARIANTS
    OneReceiptPerEvent
    DeliveredHasReceipt
    RetryBudgetSpent
PROPERTIES
    RedriveRecovers
