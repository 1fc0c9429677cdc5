SPECIFICATION FairSpec
CONSTANTS
    m = m
    b = b
    Msgs = {m, b}
    Kind <- Kinds
    Keys = {k}
    Drains = {r1, r2}
    Asking = {r1}
    NoFrame = NoFrame
    Limit = 2
    Perishable = {m}
    MaxFaults = 1
CHECK_DEADLOCK FALSE
INVARIANTS
    TypeOK
    NoMoreMeansEmpty
PROPERTIES
    NothingDropped
    DrainEnds
    StoredKeyArrives
