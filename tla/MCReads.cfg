SPECIFICATION Spec
CONSTANTS
    Folders = {f1, f2}
    Snaps = {s1}
    NoSnap = NoSnap
    NumKeys = 2
    MaxWrites = 1
    MaxErrors = 1
    MaxGets = 0
    MaxBrowsers = 0
SYMMETRY Symmetry
INVARIANTS
    TypeOK
    FoldReturnsItsView
    SnapshotReadsAgree
    FoldLeavesNoIterator
CHECK_DEADLOCK FALSE
