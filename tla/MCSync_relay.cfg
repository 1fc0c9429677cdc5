SPECIFICATION FairSpec
CONSTANTS
    a1 = a1
    w1 = w1
    w2 = w2
    Conns = {a1, w1, w2}
    Role <- Roles
    Sessions = {s1, s2}
    relayed = s1
    NoConn = NoConn
    NoSession = NoSession
    BufferSize = 2
    MaxFrames = 3
CHECK_DEADLOCK FALSE
INVARIANTS
    TypeOK
    NoLeakedSession
    ReaderIsRegistered
    WebIsServed
PROPERTIES
    ImplementsRelay
    ForwarderStops
