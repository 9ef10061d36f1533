CONSTANTS
    Volume = {1, 2}
    Latest = Latest
    Requests = {3, Latest}
    MaxFaults = 1
SPECIFICATION FairSpec
CHECK_DEADLOCK FALSE
INVARIANTS TypeOK SucceededCopied RecordedIsCopied
PROPERTIES RestoreEnds DeletedRunStops
