CONSTANTS
    Requests = {"first", "again", "other", "legacy", "keyless"}
    Key <- RequestKey
    Hash <- RequestHash
    NoKey = "none"
    EventIds = {1, 2, 3}
    LegacyEvents <- OldRows
SPECIFICATION FairSpec
INVARIANTS
    StoredWithOutbox
PROPERTIES
    ImplementsStore
    EveryRequestAnswered
CHECK_DEADLOCK FALSE
