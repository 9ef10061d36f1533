CONSTANTS
    Runs = {"r1", "r2"}
    Reporters = {"source", "target", "other"}
    RunOf <- MCRunOf
    Subscribers = {1}
    All = "all"
    ReplayLimit = 1
    Buffer = 1
    MaxEvents = 3
SPECIFICATION FairSpec
CHECK_DEADLOCK FALSE
INVARIANTS TypeOK InOrderOnce NothingSlipsThrough
PROPERTIES PublishReturns EventsArrive
