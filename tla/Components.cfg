SPECIFICATION ComponentsSpec
CONSTANTS
    MaxKeys = 4
    MaxKeyWeight = 5
    MaxScore = 3
    MaxWeight = 2
    MaxPoints = 4
    Unit = 10
    MaxObservations = 4
    Instance = {i1, i2}
    Batch = 3
    Limits = {2, 5}
    Cap = 5
    MaxDay = 2
    Caller = {"c1", "c2", "c3"}
    PoolId = {"p1"}
    Orders <- MCOrders
    MaxUpsets = 1
    Operator = {"o1", "o2", "o3"}
    Slug = {"p", "q"}
    Home <- MCHome
    IdemKeyOf <- OneKey
    Errands <- MCErrands
    MaxTroubles = 1
    Nil = Nil
INVARIANTS DrawsByWeight ConfidenceIsSound  BudgetsHold 
PROPERTY GrantFits
SYMMETRY Symmetry
CHECK_DEADLOCK FALSE
