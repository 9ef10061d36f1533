SPECIFICATION Spec
CONSTANTS
    Sources = {s1, s2}
    MaxRuns = 3
    MaxStops = 2
    Keep <- MCKeep
    Bucket <- MCBucket
INVARIANTS TypeOK RetainedWhole CompletedRestorable
SYMMETRY Symmetry
CHECK_DEADLOCK FALSE
