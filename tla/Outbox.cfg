CONSTANTS
    Events = {"a", "b", "c"}
    Healthy = {"a", "b"}
    p1 = p1
    p2 = p2
    Publishers = {p1, p2}
    NoRow = NoRow
    MaxDelay = 2
    MaxFaults = 1
    MaxInt = 15
    MaxAttempt = 7
SPECIFICATION FairSpec
INVARIANTS
    PublishedWasSent
    DuplicatesNeedFaults
    BackoffIsCapped
PROPERTIES
    PublishedIsFinal
    HealthyRowsPublished
