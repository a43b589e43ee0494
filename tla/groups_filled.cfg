SPECIFICATION Spec
CONSTANTS
    n1 = n1
    n2 = n2
    u1 = u1
    u2 = u2
    u3 = u3
    r1 = r1
    r2 = r2
    r3 = r3
    r4 = r4
    None = None
    Nodes <- MCOneNode
    Users <- MCUsers
    Requests <- MCRequests
    UserOf <- MCUserOf
    Capacity = 3
    Tiers = 1
    GroupIds = {1, 2, 3, 4}
    CloseAt = 1
    SettleAt = 1
    LockTTL = 1
    Horizon = 1
    Prompt = TRUE
    Faults = {"crash", "error", "gm"}
    MaxFaults = 1
INVARIANTS
    TypeOK
    WithinCapacity
    
    
