SPECIFICATION DeploymentFairSpec
CONSTANTS
    Files = {1, 2, 3}
    Rerunnable = {1, 3}
    Processes = {p1, p2}
    Watched = p1
    Guide = {1, 2}
    MaxCrashes = 1
    MaxRestarts = 1
    Requests = {q1}
INVARIANTS
    AppliedInOrder
    AcceptingMeansRunning
    CallsUseOpenClients
PROPERTIES
    OneComesUp
    SignalEndsProcess
CHECK_DEADLOCK FALSE
