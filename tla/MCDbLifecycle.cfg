SPECIFICATION Spec
CONSTANTS
    Threads = {t1, t2}
    Db = Db
    Itrs = {i1}
    Snaps = {s1}
    Cfs = {c1}
    TLogs = {}
    Existing = {c1}
    NoCf = NoCf
    CfOf <- MCCfOf
    t1 = t1
    t2 = t2
    i1 = i1
    i2 = i2
    s1 = s1
    c1 = c1
    l1 = l1
SYMMETRY Symmetry
INVARIANTS
    TypeOK
    RefsBalance
    DbClosedLast
    ListedIsAlive
CHECK_DEADLOCK FALSE
