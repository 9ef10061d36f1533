CONSTANTS
    Commands = {"recover", "retry", "finalize"}
    Final = {"finalize"}
    Streams = {1, 2}
    Buffer = 1
    MaxRestarts = 1
SPECIFICATION FairSpec
CHECK_DEADLOCK FALSE
INVARIANTS TypeOK
PROPERTIES ImplementsCommandLog EnqueueReturns
