SPECIFICATION FairSpec
CONSTANTS
    Threads = {t1, t2, t3}
    Tasks = {a, b, c}
    Exit = Exit
    None = None
    MaxQueue = 1
    MaxIndex = 2
INVARIANTS
    WaitingExact
    WakesEnough
    DestroyedAlone
PROPERTIES
    TasksComplete
    DestroyCompletes
    ImplementsTaskService
CHECK_DEADLOCK FALSE
