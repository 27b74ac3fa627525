CONSTANTS
    Conn = {c1, c2}
    NoConn = noConn
    Role = {r1, r2}
    NoRole = noRole
    Union = {u, v}
    NoGroup = noGroup
    World = world
    OutCap = 1
    HistoryCap = 0
    MaxRequests = 5
SPECIFICATION Spec
SYMMETRY Symmetry
CHECK_DEADLOCK FALSE
INVARIANTS TypeOK OneChannel NoStranger Takeover NoStandstill
