CONSTANTS
    Role = {1, 2}
    Army = {1, 2}
    RIdOf <- MCRIdOf3
    Cell = {"p"}
    CityPos <- MCCityPos
    UnionOf <- MCUnions
    Near <- MCNear
    TravelTime <- MCTravelTime
    MaxTravel = 1
    ReclamationTime = 1
    BuildLimit = 2
    HoldArmyCnt = 1
    InitOwner <- MCOwned
    InitFort = {"p"}
    Orders = {"Attack", "Defend", "Reclamation", "Transfer", "Back", "ConscriptNone"}
    MaxOrders = 2
    MaxSweeps = 1
    MaxNow = 8
SPECIFICATION Spec
CHECK_DEADLOCK FALSE
INVARIANTS TypeOK WayIsBounded NoArmyLost 
