SPECIFICATION FairSpec
CONSTANTS
    MAX_PROCESSES = 4
    Settings <- FailingReload
PROPERTIES
    RequestsServed
CHECK_DEADLOCK FALSE
