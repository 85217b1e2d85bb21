CONSTANTS
    Workers = {w1}
    NoWorker = NoWorker
    MaxSteps = 2
    MaxRetries = 1
    Tasks = {1}
    ClaimBatch = 5
    PersistForever = TRUE
    MaxOwnerOps = 0
    MaxOutages = 1
    MaxCrashes = 1
    MaxLost = 0
SPECIFICATION Spec
PROPERTY ReflectionIsHarmless
CHECK_DEADLOCK FALSE
