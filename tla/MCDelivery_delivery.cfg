SPECIFICATION Spec
CONSTANTS
    p1 = p1
    p2 = p2
    r = r
    q = q
    x = x
    idA = idA
    idB = idB
    Conns = {c1, c2}
    States = {u1, u2}
    Msgs = {p1, x}
    Ids = {idA}
    MsgId <- Identifiers
    Kind <- Kinds
    Perishable = {p1, x}
    NoConn = NoConn
    NoState = NoState
    NoId = NoId
    MaxDeliveries = 2
    MaxFaults = 1
SYMMETRY Interchangeable
CHECK_DEADLOCK FALSE
INVARIANTS
    TypeOK
    RegisteredIsServed
    OnlineIsConsumed
    NoLeakedState
PROPERTY
    ImplementsDeviceQueue
