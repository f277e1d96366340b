CONSTANTS
    t1 = t1
    t2 = t2
    h1 = h1
    h2 = h2
    Theirs = Theirs
    Absent = Absent
    None = None
    Targets = {t1, t2}
    Hashes = {h1, h2}
    MaxFaults = 1
SPECIFICATION Spec
SYMMETRY Symmetry
INVARIANTS
    CommittedIsKept
PROPERTIES
    FullyOldOrFullyNew
    OnlyManagedFilesChange
