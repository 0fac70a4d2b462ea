SPECIFICATION Spec
CONSTANTS
    r1 = r1
    r2 = r2
    k1 = k1
    k2 = k2
    Requests <- TwoRequests
    Settings <- AllSettings
SYMMETRY Symmetry
INVARIANTS CountExact SizeExact PopulatedOnce
PROPERTY EvictionFinds
CHECK_DEADLOCK FALSE
