SPECIFICATION Spec
CONSTANTS
    n1 = n1
    n2 = n2
    None = None
    Absent = Absent
    Permanent = Permanent
    Nodes <- MCNodes
    Kinds = {"once", "round"}
    Ends = {2, 3}
    FirstEnd = 2
    Retention = 2
    Cycle = 1
    Grace = 1
    Horizon = 6
    MaxMoves = 2
    MaxCrashes = 2
INVARIANT TypeOK
PROPERTIES
    KeptUntilRetentionEnds
    NoKeyStaysForEver
