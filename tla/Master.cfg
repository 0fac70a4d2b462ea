SPECIFICATION HangSpec
CONSTANTS
    MAX_PROCESSES = 7
    Settings <- AllSettings
INVARIANTS
    NoOrphans
    WorkersBounded
    MasterExitsLast
    OldProcessesQuit
    NewProcessesStay
PROPERTIES
    TerminateCompletes
    QuitCompletes
    WorkersReplenished
    UpgradeRollsBack
CHECK_DEADLOCK FALSE
