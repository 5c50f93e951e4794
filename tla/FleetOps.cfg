SPECIFICATION FleetSpec
CONSTANTS
    j1 = j1
    j2 = j2
    None = None
    Instance = {i1}
    Front = {i1}
    Job = {j1, j2}
    KindSets <- MCKindSets
    N = 3
    Material <- MCMaterial
    DeadLetters = {1, 2}
    Filter = {2}
    PageSize = 1
    WaveSize = 2
    MaxAttempts = 2
    MaxCrashes = 1
    Worker = {w1}
    Detector = {d1, d2}
    Hysteresis = 2
    MaxJobs = 1
    MaxBoots = 2
    MaxIntents = 1
INVARIANT OperationsConsistent
PROPERTIES EndedStays FleetSettles
CHECK_DEADLOCK FALSE
