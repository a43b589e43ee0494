SPECIFICATION FairSpec
CONSTANTS
    n1 = n1
    n2 = n2
    None = None
    Nodes <- MCNodes
    Kinds <- MCKinds
    TotalOpen = 1
    TotalClose = 4
    Cycles = {2}
    FirstCycle = 2
    RegisterAt = {1}
    LockTTL = 2
    Horizon = 5
    Budget <- StopScoreOutage
    Timely = TRUE
 
PROPERTY EveryScoredRoundSettled
