SPECIFICATION Spec
CONSTANTS
    Settings <- MCSettings
    MaxSub = 2
    MaxCount = 4
    MaxAgain = 2
INVARIANTS
    ReferencesExact
    FreedAlone
    OutputInOrder
    NeverForgotten
CHECK_DEADLOCK FALSE
