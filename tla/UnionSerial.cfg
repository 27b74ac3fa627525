CONSTANTS
    Role = {1, 2, 3}
    MaxUnions = 2
    MaxApplies = 2
    MaxRestarts = 1
    MemberLimit = 2
    QueueCap = 0
    MayCrash = FALSE
    Battles <- MCSiege
    Titles = {"Vice", "Common"}
SPECIFICATION SerialSpec
CHECK_DEADLOCK FALSE
INVARIANT MembersAgree
PROPERTY PromiseKept
