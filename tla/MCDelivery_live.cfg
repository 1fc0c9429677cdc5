SPECIFICATION FairSpec
CONSTANTS
    p1 = p1
    p2 = p2
    r = r
    q = q
    x = x
    idA = idA
    idB = idB
    Conns = {c1, c2}
    States = {u1}
    Msgs = {p1, p2, r, q}
    Ids = {idA, idB}
    MsgId <- Identifiers
    Kind <- Kinds
    Perishable = {r}
    NoConn = NoConn
    NoState = NoState
    NoId = NoId
    MaxDeliveries = 2
    MaxFaults = 0
CHECK_DEADLOCK FALSE
INVARIANTS
    SettledOnce
    NothingForgotten
PROPERTY
    UnackedResolves
