SPECIFICATION Spec
CONSTANTS
    v1 = v1
    v2 = v2
    v3 = v3
    Values <- MCValues
    Weights = {0, 2, 3}
    Elapsed = {5, 9}
    Edges = {1, 5}
    MaxRetvals = 2
    MaxCalls = 6
SYMMETRY MCSymmetry
CHECK_DEADLOCK FALSE
INVARIANTS
    TypeOK
    TableBounded
    ErrorWithin
    CountedColumn
    UnlistedIsLight
    HeavyHittersListed
    HistogramComplete
