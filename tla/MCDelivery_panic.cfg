SPECIFICATION Spec
CONSTANTS
    p1 = p1
    p2 = p2
    r = r
    q = q
    x = x
    idA = idA
    idB = idB
    Conns = {c1}
    States = {u1}
    Msgs = {p1}
    Ids = {idA}
    MsgId <- Identifiers
    Kind <- Kinds
    Perishable = {}
    NoConn = NoConn
    NoState = NoState
    NoId = NoId
    MaxDeliveries = 2
    MaxFaults = 0
CHECK_DEADLOCK FALSE
INVARIANTS
    NoPanic
