SPECIFICATION Spec
CONSTANTS
    N = 4
    MaxRun = 3
    Classes = {small, exact, big}
    small = small
    exact = exact
    big = big
    Free = Free
    NULL = NULL
    Kind <- MCKind
    Chunks <- MCChunks
    Bitmap <- MCBitmap
INVARIANTS
    HeldApart
    FreeRunsExact
    SlotsExact
