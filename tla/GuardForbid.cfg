SPECIFICATION FairSpec
CONSTANTS
    Backups = {1, 2}
    Restores = {}
    Policy = "Forbid"
    MaxFaults = 0
INVARIANTS TypeOK
PROPERTIES ForbidNeverPreempts WaitingBackupSettles
CHECK_DEADLOCK FALSE
