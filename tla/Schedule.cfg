SPECIFICATION FairSpec
CONSTANTS
    Invalid = Invalid
    Schedules = {{1, 2, 4}, {1, 6}, {}, Invalid}
    MaxTime = 5
    Minute = 2
    Lookback = 3
    Iterations = 2
    MaxFaults = 1
INVARIANTS TypeOK OncePerTime
PROPERTIES StepsThroughSchedule CatchesUp NoOrphans
CHECK_DEADLOCK FALSE
