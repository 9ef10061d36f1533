SPECIFICATION Spec
CONSTANTS
    Sources = {s1, s2}
    MaxRuns = 2
    MaxStops = 1
    Keep <- MCKeep
    Bucket <- MCBucket
INVARIANTS TiersWhole
SYMMETRY Symmetry
CHECK_DEADLOCK FALSE
