SPECIFICATION Spec
CONSTANTS
    Backups = {1, 2}
    Restores = {}
    Policy = "Replace"
    MaxFaults = 1
INVARIANTS OneActiveBackup
CHECK_DEADLOCK FALSE
