SPECIFICATION Spec
CONSTANTS
    MaxSockets = 3
    MaxCalls = 5
    ConnectionN = 3
INVARIANTS
    ListsExact
PROPERTIES
    ReuseFrees
    ReportsReachTheirSocket
CHECK_DEADLOCK FALSE
