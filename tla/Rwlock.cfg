SPECIFICATION FairSpec
CONSTANTS
    w1 = w1
    w2 = w2
    w3 = w3
    Procs <- Workers3
    Width = 3
    MaxCalls = 2
INVARIANTS
    WriterAlone
    WordCounts
PROPERTIES
    Drained
CHECK_DEADLOCK FALSE
