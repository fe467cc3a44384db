SPECIFICATION Spec
CONSTANTS
    Procs = {p1, p2}
    Names = {n1, n2}
    Contents = {c1, c2}
    MaxWrites = 3
    MaxFaults = 2
    MaxDrafts = 3
    None = None
    Torn = Torn
SYMMETRY Symmetry
CHECK_DEADLOCK FALSE
INVARIANTS
    CitationsHold
    ReturnedIsDurable
PROPERTIES
    WriteOnce
    ImplementsTrajectoryLog
