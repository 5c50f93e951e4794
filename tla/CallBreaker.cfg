SPECIFICATION EFair
CONSTANTS
    vendor = vendor
    Provider = {vendor}
    Caller = {c1, c2}
    Of <- OneProvider
    MaxAttempts = 3
    FailureThreshold = 2
    Key = {k1, k2}
    Shapes <- SomeShapes
    None = None
INVARIANT CallsAreSafe
PROPERTY CallsEnd
