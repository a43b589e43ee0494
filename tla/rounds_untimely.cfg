SPECIFICATION Spec
CONSTANTS
    n1 = n1
    n2 = n2
    None = None
    Nodes <- MCNodes
    Kinds <- MCKinds
    TotalOpen = 1
    TotalClose = 6
    Cycles = {2}
    FirstCycle = 2
    RegisterAt = {1, 3}
    LockTTL = 2
    Horizon = 5
    Budget <- CrashLoss
    Timely = FALSE
SYMMETRY NodeSymmetry
INVARIANTS
    OneWindowPerRound
    
    
    WindowReadyWithNumber
