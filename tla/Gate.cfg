CONSTANTS
    Client = {c1}
    Server = {slg, chat}
    SlgServer = slg
    ChatServer = chat
    MaxRequests = 2
    MaxPushes = 1
    MaxStops = 1
SPECIFICATION FairSpec
CHECK_DEADLOCK FALSE
INVARIANTS TypeOK SendsConnected NothingPending
PROPERTIES Forwards
