SPECIFICATION FairSpec
CONSTANTS
    Threads = {t1, t2}
    NumHandles = 2
    Opens <- MCOpens
    Families = {"users"}
    Copy = "copy"
    None = None
    MaxPuts = 1
    t1 = t1
    t2 = t2
INVARIANTS
    TypeOK
    
    AcknowledgedWritesSurvive
PROPERTIES
    OpensObeyTheirOptions
    EveryHandleKeepsItsPromise
    
CHECK_DEADLOCK FALSE
