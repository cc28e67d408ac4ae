SPECIFICATION RecordSpec
CONSTANTS
    Codes = {200, 400, 503}
    Texts = {{}}
    MaxRetries = 1
    MaxItems = 20
    MaxAttempts = 3
INVARIANTS
    TimeoutIsOutage
CHECK_DEADLOCK FALSE
