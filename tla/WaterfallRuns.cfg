SPECIFICATION EngineSpec
CONSTANTS
    j1 = j1  j2 = j2  t1 = t1  t2 = t2  s1 = s1  p1 = p1  p2 = p2  f1 = f1  k0 = k0
    Worker = {w1, w2}
    Job = {j1, j2}
    Tenant = {t1, t2}
    Subject = {s1}
    Params = {k0}
    Field = {f1}
    Provider = {p1, p2}
    Value = {v1}
    Evidence = {1, 2}
    NoValue = NoValue
    Unrecorded = Unrecorded
    Cost <- MCCost
    Req <- Requests
    MaxDeliveries <- Deliveries
    MaxFaults = 1
    Instance = {i1}
    Call = {c1}
    Operator = {o1}
    Sustained = 2
    MaxOps = 1
INVARIANTS
    CeilingHolds
    SpendIsAccounted
    PersistedIsReplayable
    TargetMetIsBacked
PROPERTIES
    
    RunsAndCachesSettle
CHECK_DEADLOCK FALSE
