SPECIFICATION FairSpec
CONSTANTS
    Events = {1, 2, 3, 4, 5, 6}
    CreatedAt <- Times
    From = 2
    To = 4
    Matching = {1, 2, 3, 4, 5}
    Limits = {0, 1, 7}
    DefaultLimit = 2
    MaxLimit = 3
    MaxFailures = 1
    MaxResends = 1
INVARIANTS
    ReplayComplete
    RepeatsNeedFailures
PROPERTIES
    ReplayEnds
CHECK_DEADLOCK FALSE
