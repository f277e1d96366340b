CONSTANTS
    o1 = o1
    o2 = o2
    b1 = b1
    b2 = b2
    Gc = Gc
    Nothing = Nothing
    Ops <- BothOps
    Blobs <- BothBlobs
    MaxFaults = 2
SPECIFICATION Spec
SYMMETRY Symmetry
INVARIANTS
    NoBlobIsLost
    SweepSparesHeld
    FaultlessRowsNameTheirFiles
CHECK_DEADLOCK FALSE
