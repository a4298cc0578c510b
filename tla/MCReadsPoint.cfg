SPECIFICATION FairSpec
CONSTANTS
    Folders = {f1}
    Snaps = {s1}
    NoSnap = NoSnap
    NumKeys = 2
    MaxWrites = 1
    MaxErrors = 1
    MaxGets = 1
    MaxBrowsers = 1
INVARIANTS
    SnapshotReadsAgree
    WalksHaveNoGaps
PROPERTIES
    OnlyCallsUnderWayReadOn
    IteratorsAreClosed
CHECK_DEADLOCK FALSE
