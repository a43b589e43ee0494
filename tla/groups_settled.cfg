SPECIFICATION FairSpec
CONSTANTS
    n1 = n1
    n2 = n2
    u1 = u1
    u2 = u2
    u3 = u3
    r1 = r1
    r2 = r2
    r3 = r3
    r4 = r4
    None = None
    Nodes <- MCNodes
    Users <- TwoUsers
    Requests <- ThreeRequests
    UserOf <- TwoUserOf
    Capacity = 2
    Tiers = 0
    GroupIds = {1, 2, 3}
    CloseAt = 1
    SettleAt = 2
    LockTTL = 1
    Horizon = 3
    Prompt = TRUE
    Faults = {}
    MaxFaults = 1
 
PROPERTIES
    
    
    ImplementsLeaderboard
