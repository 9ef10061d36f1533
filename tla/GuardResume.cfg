SPECIFICATION Spec
CONSTANTS
    Backups = {1, 2}
    Restores = {}
    Policy = "Forbid"
    MaxFaults = 1
INVARIANTS
    NeverTwoActive
CHECK_DEADLOCK FALSE
