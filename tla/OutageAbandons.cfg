CONSTANTS
    Workers = {w1}
    NoWorker = NoWorker
    MaxSteps = 2
    MaxRetries = 1
    Tasks = {1}
    ClaimBatch = 5
    PersistForever = TRUE
    MaxOwnerOps = 1
    MaxOutages = 2
    MaxCrashes = 0
    MaxLost = 0
SPECIFICATION Spec
INVARIANT OutagesNeverAbandon
CHECK_DEADLOCK FALSE
