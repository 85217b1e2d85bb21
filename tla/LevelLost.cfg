CONSTANTS
    Workers = {w1}
    NoCall = NoCall
    Calls <- MCDeletes
    AutoApproveAfter = 3
    DefaultLevel = "balanced"
    RequestWindow = 5
    MaxAttempts = 2
    MaxRequests = 1
    MaxOwnerOps = 1
    MaxFaults = 1
SPECIFICATION Spec
INVARIANT LevelStands
CHECK_DEADLOCK FALSE
