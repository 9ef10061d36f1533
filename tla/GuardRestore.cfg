SPECIFICATION FairSpec
CONSTANTS
    Backups = {1}
    Restores = {1}
    Policy = "Forbid"
    MaxFaults = 1
PROPERTIES
    WaitingRestoreSettles
    WaitingBackupSettles
    GuardLeavesTerminalRun
CHECK_DEADLOCK FALSE
