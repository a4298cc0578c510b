SPECIFICATION FairSpec
CONSTANTS
    Threads = {t1, t2, t3}
    Children = {c1, c2}
    t1 = t1
    t2 = t2
    t3 = t3
    c1 = c1
    c2 = c2
INVARIANTS
    TypeOK
    CountIsHolders
    DestructorRunsOnce
    EntitledHoldersAreSafe
    FreedOnlyWhenDone
PROPERTIES
    ImplementsHandle
    AwaitReturns
