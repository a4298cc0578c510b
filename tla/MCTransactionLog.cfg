SPECIFICATION FairSpec
CONSTANTS
    MaxSeq = 3
    MaxBatch = 2
    MaxFamilies = 1
    MaxFailures = 1
    MaxErrors = 1
    MaxKills = 1
    Since = {2}
INVARIANTS
    TypeOK
    ReplicaIsPrefix
    GapIsReal
    WatcherMissesNothing
PROPERTIES
    CatchesUp
CHECK_DEADLOCK FALSE
