SPECIFICATION Spec
CONSTANTS
    Owners = {o1, o2}
    Cfs = {c1}
    Default = Default
    MaxUpdates = 3
    MaxSavepoints = 2
    MaxList = 2
    MaxFailures = 1
SYMMETRY Symmetry
INVARIANTS
    TypeOK
    EveryUpdateIsAccountedFor
    AppliedOnceInOrder
    SavepointsFit
