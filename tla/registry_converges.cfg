SPECIFICATION FairSpec
CONSTANTS
    n1 = n1
    n2 = n2
    None = None
    Nodes <- MCNodes
    Times = {1}
    Retention = 0
    Horizon = 2
    MaxQueue = 2
    Events = {"lose", "miss", "crash"}
    MaxEvents = 3
INVARIANT TypeOK
PROPERTIES
    OpenActivityKeepsData
    OpenActivityIsServed
    EverywhereInTheEnd
CHECK_DEADLOCK FALSE
