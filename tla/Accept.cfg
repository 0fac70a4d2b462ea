SPECIFICATION FairSpec
CONSTANTS
    w1 = w1
    w2 = w2
    http = http
    own = own
    None = None
    Workers <- TwoWorkers
    Sockets <- TwoSockets
    Reuseport <- OwnSockets
    AcceptMutex <- BothSettings
    MultiAccept = FALSE
    ConnectionN = 8
    InitialFree = 1
    MaxArrivals = 2
    MaxFaults = 2
INVARIANTS
    ReleasedBetweenTurns
    ListensInTurn
PROPERTIES
    SharedServed
CHECK_DEADLOCK FALSE
