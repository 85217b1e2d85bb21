CONSTANTS
    Workers = {w1, w2}
    NoWorker = NoWorker
    MaxSteps = 2
    MaxRetries = 1
    Tasks = {1}
    ClaimBatch = 5
    PersistForever = TRUE
    MaxOwnerOps = 2
    MaxOutages = 2
    MaxCrashes = 1
    MaxLost = 1
SYMMETRY Symmetry
SPECIFICATION Spec
INVARIANTS TypeOK SoleRunner RunningIsHeld 
PROPERTIES FinishedStaysFinished FollowsProtocol
CHECK_DEADLOCK FALSE
