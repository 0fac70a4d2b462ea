SPECIFICATION Spec
CONSTANTS
    r1 = r1
    r2 = r2
    k1 = k1
    k2 = k2
    Requests <- TwoRequests
    Settings <- Abandoning
PROPERTY AbandonedSkipped
CHECK_DEADLOCK FALSE
