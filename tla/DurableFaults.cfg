SPECIFICATION DurableSpec
CONSTANTS
    j1 = j1  j2 = j2  j3 = j3  q1 = q1  q2 = q2  q3 = q3
    submit = submit  update = update  finish = finish
    Job = {j1, j2, j3}
    Worker = {w1, w2}
    Request = {q1, q2, q3}
    JobOf <- ThreeJobOf
    Sync = {q3}
    NoJob = NoJob
    NoBatch = NoBatch
    Capacity = 1
    MaxCrashes = 2
    MaxErrors = 1
    Batch = {submit, update, finish}
    Sizes <- SmallBatches
    CommitSize = 1
    Hole = Hole
    MaxOutages = 3
    MaxRefusals = 1
INVARIANTS  LogSurvives
  
CHECK_DEADLOCK FALSE
