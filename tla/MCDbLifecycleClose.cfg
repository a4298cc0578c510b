SPECIFICATION FairSpec
CONSTANTS
    Threads = {t1, t2}
    Db = Db
    Itrs = {i2}
    Snaps = {}
    Cfs = {c1}
    TLogs = {}
    Existing = {i2, c1}
    NoCf = NoCf
    CfOf <- MCCfOf
    t1 = t1
    t2 = t2
    i1 = i1
    i2 = i2
    s1 = s1
    c1 = c1
    l1 = l1
INVARIANTS
    DestroyedOnceInOrder
PROPERTIES
    CloseEndsInDestruction
    CollectionEnds
