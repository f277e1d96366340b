CONSTANTS
    o0 = o0
    o1 = o1
    o2 = o2
    p1 = p1
    p2 = p2
    None = None
    Ops = {o0, o1, o2}
    Profiles = {p1}
    Baseline <- Fresh
    MaxFaults = 1
    Serialized = FALSE
    Corruptible = {}
SPECIFICATION Spec
SYMMETRY AllOpsSymmetry
INVARIANTS
    TypeOK
    HistoryCanBeUndone
    ProjectionTracksActive
    EndsAreWhole
PROPERTIES
    ImplementsHistory
CHECK_DEADLOCK FALSE
