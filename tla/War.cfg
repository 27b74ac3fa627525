CONSTANTS
    ArmyGCnt = 3
    maxRound = 2
    Skills <- MCSkills
    Dev = FALSE
    DevKill = 1
    MaxMen = 1
    MaxWars = 2
SPECIFICATION Spec
CHECK_DEADLOCK FALSE
INVARIANTS WarTypeOK VerdictsTell FullArmiesFight
PROPERTIES WarsEnd
