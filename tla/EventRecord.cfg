SPECIFICATION RecordSpec
CONSTANTS
    Codes = {200, 302, 400, 404, 429, 599, 600}
    Texts = {{}, {"permanent", "forbidden"}}
    MaxRetries = 2
    MaxItems = 7
    MaxAttempts = 4
INVARIANTS
    ExplainAgreesWithWorker
    SnapshotWithinLimits
    RetryCountIsLongestPass
    TriageFollowsAttempts
CHECK_DEADLOCK FALSE
