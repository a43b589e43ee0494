SPECIFICATION Spec
CONSTANTS
    n1 = n1
    n2 = n2
    None = None
    Nodes <- MCNodes
    Times = {1, 3}
    Retention = 0
    Horizon = 2
    MaxQueue = 1
    Events = {"update", "delete"}
    MaxEvents = 1
SYMMETRY NodeSymmetry
PROPERTIES
    OpenActivityIsServed
    UpdatesAreKept
CHECK_DEADLOCK FALSE
