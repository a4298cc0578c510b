SPECIFICATION Spec
CONSTANTS
    Folders = {f1}
    Snaps = {s1}
    NoSnap = NoSnap
    NumKeys = 2
    MaxWrites = 1
    MaxErrors = 1
    MaxGets = 1
    MaxBrowsers = 0
INVARIANT
    FoldVisitsEveryElement
CHECK_DEADLOCK FALSE
