SPECIFICATION SelSpec
CONSTANTS
    N = 3
    Strategies = {"random", "ordered", "round_robin", "banded", "region_based"}
    Region = {us, eu}
    Fallback = us
    NumBands = 3
    MaxScore = 2
    Lessee = {g1, g2}
    MaxLeases <- Concurrent
INVARIANT WalkConsistent
PROPERTY PicksWell
SYMMETRY Symmetry
