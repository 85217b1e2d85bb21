CONSTANTS
    Workers = {w1}
    NoCall = NoCall
    Calls <- MCDeletes
    AutoApproveAfter = 1
    DefaultLevel = "balanced"
    RequestWindow = 5
    MaxAttempts = 2
    MaxRequests = 2
    MaxOwnerOps = 2
    MaxFaults = 0
SPECIFICATION Spec
PROPERTY RefusedNeverPasses
CHECK_DEADLOCK FALSE
