CONSTANTS
    Role = {1}
    Cell = {"a"}
    InitOwner <- MCFirst
    GiveUpDelay = 2
    BuildTime = 1
    WarFree = 1
    MaxLevel = 1
    BuildLimit = 2
    FortressLimit = 1
    Window = 2
    MaxPause = 1
    MaxRestarts = 0
    MaxNow = 6
SPECIFICATION Spec
CHECK_DEADLOCK FALSE
INVARIANTS OnlyGivenUpIsTaken
