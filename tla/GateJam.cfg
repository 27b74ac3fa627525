CONSTANTS
    Client = {c1, c2}
    Server = {slg, chat}
    SlgServer = slg
    ChatServer = chat
    MaxRequests = 2
    MaxPushes = 0
    MaxStops = 0
SPECIFICATION FairSpec
CHECK_DEADLOCK FALSE
PROPERTIES RequestsEnd
