SPECIFICATION FairSpec
CONSTANTS
    j1 = j1  p1 = p1  p2 = p2  w1 = w1  w2 = w2  q1 = q1  q2 = q2  b1 = b1
    Job = {j1}
    Process = {p1, p2}
    Worker = {w1, w2}
    Request = {q1, q2}
    Home <- ReplicaHome
    JobOf <- SameJobOf
    BodyOf <- SameBodyOf
    Sync = {q2}
    NoRow = NoRow
    MaxAttempts = 2
    BatchSize = 1
    Capacity = 1
    MaxFaults = 1
    MaxRedrives = 1
INVARIANT OutboxConsistent
PROPERTIES FinishedStays 
CHECK_DEADLOCK FALSE
