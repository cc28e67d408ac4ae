SPECIFICATION Spec
CONSTANTS
    Workers = {w1}
    Redrives = {r1}
    Outbox = Outbox
    Reads = {"EventStatus", "DLQDetail"}
    MaxEntries = 2
    MaxFaults = 1
INVARIANTS
    OutcomesShowAttempts
    SnapshotAccepted
    SettledShowsOutcome
CHECK_DEADLOCK FALSE
