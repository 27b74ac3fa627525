CONSTANTS
    Role = {1, 2, 3}
    MaxUnions = 2
    MaxApplies = 1
    MaxRestarts = 1
    MemberLimit = 3
    QueueCap = 2
    MayCrash = TRUE
    Battles <- MCSiege
    Titles = {"Vice", "Common"}
SPECIFICATION Spec
CHECK_DEADLOCK FALSE
INVARIANTS TypeOK  
