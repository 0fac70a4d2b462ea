SPECIFICATION Spec
CONSTANTS
    MAX_PROCESSES = 6
    Settings <- UpgradeReload
INVARIANTS
    MasterExitsLast
CHECK_DEADLOCK FALSE
