CONSTANTS
    Role = {1, 2, 3}
    MaxUnions = 2
    MaxApplies = 2
    MaxRestarts = 0
    MemberLimit = 3
    QueueCap = 0
    MayCrash = FALSE
    Battles <- MCNoBattle
    Titles = {}
SPECIFICATION Spec
CHECK_DEADLOCK FALSE
INVARIANTS OneUnion
