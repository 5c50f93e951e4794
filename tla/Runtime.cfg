SPECIFICATION RuntimeSpec
CONSTANTS
    j1 = j1  j2 = j2  j3 = j3  j4 = j4  q1 = q1  q2 = q2  q3 = q3  q4 = q4
    Job = {j1, j2, j3, j4}
    Worker = {w1, w2}
    Request = {q1, q2, q3, q4}
    JobOf <- OneEach
    Premium = {j1}
    NoJob = NoJob
    Capacity = 2
    Conn = {c1, c2}
    Client = {k1, k2, k3}
    Tenant = {t1, t2}
    Nobody = Nobody
    NoConn = NoConn
    MaxOpen = 2
    Runner = {"api", "dash", "dash2"}
    Files = 3
    Known <- MCKnown
    NoTxn = {2}
    Stmts = 2
    MaxMishaps = 2
INVARIANTS QueueSafe PoolSafe MigrationsSafe
PROPERTY RuntimeServes
CHECK_DEADLOCK FALSE
