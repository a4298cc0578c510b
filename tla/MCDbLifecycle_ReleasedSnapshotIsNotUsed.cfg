SPECIFICATION Spec
CONSTANTS
    Threads = {t1, t2}
    Db = Db
    Itrs = {}
    Snaps = {s1}
    Cfs = {}
    TLogs = {}
    Existing = {s1}
    NoCf = NoCf
    CfOf <- MCCfOf
    t1 = t1
    t2 = t2
    i1 = i1
    i2 = i2
    s1 = s1
    c1 = c1
    l1 = l1
SYMMETRY Symmetry
INVARIANTS
    ReleasedSnapshotIsNotUsed
