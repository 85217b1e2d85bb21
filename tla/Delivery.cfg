SPECIFICATION Spec
CONSTANTS
    j1 = j1
    Tasks = {t1, t2}
    Messages = {m1}
    Jobs = {j1}
    Kind <- MCKind
    MaxRuns <- MCMaxRuns
    SweepLimit = 1
    MaxFaults = 2
    MaxOwner = 1
SYMMETRY Symmetry
INVARIANTS
    TypeOK
    ToldOnce
    
    
    OneTaskPerMessage
    RunsAreCounted
PROPERTIES
    SweepIsThorough
    FollowsProtocol
CHECK_DEADLOCK FALSE
