SPECIFICATION FairSpec
CONSTANTS
    r1 = r1  r2 = r2  u1 = u1  u2 = u2  u3 = u3
    Editor = {e1, e2}
    Request = {r1, r2}
    User = {u1, u2, u3}
    Approver = {u2, u3}
    By <- Filed
    Required <- Quorums
    Body = {good, bad}
    Valid = {good}
    NoHash = NoHash
    MaxVersions = 2
    MaxEdits = 3
    MaxFaults = 1
INVARIANTS ActiveIsValidated ExecutedOnce
PROPERTY RequestsEnd
CHECK_DEADLOCK FALSE
