CONSTANTS
    Sources = {"a", "b"}
    Direct = {}
    AutoCapture = {"b"}
    MaxFaults = 1
    MaxTime = 2
SPECIFICATION FairSpec
CHECK_DEADLOCK FALSE
INVARIANTS TypeOK FinalizedWhole SucceededFinalized CompletedRecorded
PROPERTIES SucceededIsFinal RunEnds
