SPECIFICATION Spec
CONSTANTS
    n1 = n1
    n2 = n2
    None = None
    Nodes <- MCNodes
    Times = {1}
    Retention = 1
    Horizon = 3
    MaxQueue = 1
    Events = {}
    MaxEvents = 0
SYMMETRY NodeSymmetry
INVARIANT HistoryKept
CHECK_DEADLOCK FALSE
