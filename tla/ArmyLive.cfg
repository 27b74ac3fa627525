CONSTANTS
    Role = {1, 2}
    Army = {1, 2}
    RIdOf <- MCRIdOf2
    Cell = {"p"}
    CityPos <- MCCityPos
    UnionOf <- MCNoUnion
    Near <- MCNear
    TravelTime <- MCTravelTime
    MaxTravel = 1
    ReclamationTime = 1
    BuildLimit = 2
    HoldArmyCnt = 1
    InitOwner <- MCOwned
    InitFort = {"p"}
    Orders = {"Attack", "Defend", "Reclamation", "Transfer", "Back", "Conscript"}
    MaxOrders = 2
    MaxSweeps = 0
    MaxNow = 8
SPECIFICATION FairSpec
CHECK_DEADLOCK FALSE
 
PROPERTIES  WorkEnds
