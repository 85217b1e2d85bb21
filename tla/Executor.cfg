CONSTANTS
    Workers = {w1, w2}
    NoCall = NoCall
    Calls <- MCDeletes
    AutoApproveAfter = 1
    DefaultLevel = "balanced"
    RequestWindow = 1
    MaxAttempts = 2
    MaxRequests = 2
    MaxOwnerOps = 2
    MaxFaults = 1
SYMMETRY Symmetry
SPECIFICATION MCSpec
INVARIANTS TypeOK NoUnlicensedEffect  RefusalIsLearned
 
CHECK_DEADLOCK FALSE
