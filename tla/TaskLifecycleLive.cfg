CONSTANTS
    Workers = {w1, w2}
    NoWorker = NoWorker
    MaxSteps = 1
    MaxRetries = 1
    Tasks = {1, 2}
    ClaimBatch = 1
    PersistForever = FALSE
    MaxOwnerOps = 0
    MaxOutages = 2
    MaxCrashes = 1
    MaxLost = 1
SPECIFICATION MCFairSpec
PROPERTY EveryTaskSettles
CHECK_DEADLOCK FALSE
