CONSTANTS
    Conn = {x1, x2}
    Role = {r}
    NoRole = noRole
    Account = {"u"}
    AccountOf <- MCAccountOf
    UidOf <- MCUidOf
    City = {"c", "d"}
    NoCity = noCity
    Fac = {"JiShi", "MinJu"}
    NoFac = noFac
    JiShi = "JiShi"
    Goods = {"wood"}
    MaxLevel = 2
    CostTime = 1
    Need <- MCNeed
    StartRes <- MCStart
    RoleYield <- MCRoleYield
    FacYield <- MCFacYield
    BaseCapacity = 2
    FacCapacity <- MCFacCapacity
    MaxUnits = 2
    DecreeLimit = 2
    DecreeRounds = 1
    RecoveryTime = 2
    CollectTimesLimit = 2
    DayLength = 6
    Amounts <- MCAmounts
    MaxEntries = 2
    MaxRequests = 3
    MaxFailures = 1
    MaxRestarts = 1
    MaxNow = 6
    Gen = {g1, g2, g3}
    NoGen = noGen
    CfgOf <- MCCfgOf
    Star <- MCStar
    SkillCfg = {s, t}
    SkillSlot = {1, 2}
    SkillCap = 1
    Order = {1, 2}
    Place = {1, 2}
    InitialGenerals = 2
    DrawTimes = {2}
    DrawCost = 1
    GeneralLimit = 3
    ConvertGold = 1
SPECIFICATION GeneralSpec
SYMMETRY Symmetry
CONSTRAINT Within
CHECK_DEADLOCK FALSE
INVARIANTS GeneralTypeOK NoOverdraft   EntryComplete SkillsAgree   ArmyOnce
PROPERTIES LevelsKept ProduceOnlyAdds
