SPECIFICATION FairSpec
CONSTANTS
    m = m
    w1 = w1
    w2 = w2
    w3 = w3
    Procs <- Workers3
    Master = m
    None = None
    Semaphore = TRUE
    SpinRounds = 1
    CrashAt <- OutsideWakeup
    MaxFaults = 1
INVARIANTS MutualExclusion WaitersCounted NoLostWakeup
PROPERTIES SleeperWakes ImplementsMutex
