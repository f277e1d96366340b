CONSTANTS
    o0 = o0
    o1 = o1
    o2 = o2
    p1 = p1
    p2 = p2
    None = None
    Ops = {o0, o1, o2}
    Profiles = {p1, p2}
    Baseline <- Installed
    MaxFaults = 2
    Serialized = TRUE
    Corruptible = {o1}
SPECIFICATION FairSpec
INVARIANTS
    AllOrNothing
PROPERTIES
    NoResurrection
    RecoveryConverges
CHECK_DEADLOCK FALSE
