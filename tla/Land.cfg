CONSTANTS
    Role = {1, 2}
    Cell = {"a", "b"}
    InitOwner <- MCOneFree
    GiveUpDelay = 1
    BuildTime = 1
    WarFree = 1
    MaxLevel = 2
    BuildLimit = 1
    FortressLimit = 1
    Window = 3
    MaxPause = 2
    MaxRestarts = 1
    MaxNow = 7
SPECIFICATION Spec
CONSTRAINT Within
CHECK_DEADLOCK FALSE
INVARIANTS TypeOK   Deadlines
