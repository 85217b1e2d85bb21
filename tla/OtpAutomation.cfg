SPECIFICATION MCSpec
CONSTANTS
    f1 = f1
    f2 = f2
    x = x
    Files = {f1, f2}
    Countries = {x}
    Holds <- MCHolds
    Desks = {d1, d2}
    Cyclers = {k1, k2}
    Timings <- MCTimings
    Day = 2
    GlobalStart <- AtOnce
    MaxRefills = 1
    RunLength = 1
    Interval = 1
    MaxClock = 1
    MaxTaps = 1
INVARIANTS
    TypeOK
    OnlyTaggedRun
    ActiveWasServed
    
    
    
    
CHECK_DEADLOCK FALSE
SYMMETRY Symmetry
