SPECIFICATION Spec
CONSTANTS
    Backups = {1}
    Restores = {1}
    Policy = "Forbid"
    MaxFaults = 0
INVARIANTS
    NoBackupDuringRestore
CHECK_DEADLOCK FALSE
