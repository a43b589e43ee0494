SPECIFICATION Spec
CONSTANTS
    n1 = n1
    n2 = n2
    b1 = b1
    b2 = b2
    None = None
    Nodes <- MCNodes
    Robots <- OneRobot
    PlayerScores = {1, 3}
    DefaultToken = {1}
    MaxToken = 4
    MaxDifference = 2
    Bps = {2, 4}
    Scale = 2
    GrowCd = 1
    OvertakeTime = 3
    Interval = 2
    LockTime = 1
    GameEnd = 6
    CacheTTL = 2
    StepTime = 1
    MaxFaults = 1
SYMMETRY NodeSymmetry
INVARIANTS
    TypeOK
    RobotsWithinLimits
    
PROPERTY ScoresGoBackOnlyIfForked
