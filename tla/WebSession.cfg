SPECIFICATION FairSpec
CONSTANTS
    Polls = {p1, p2}
    Authorisers = {a1, a2}
    NoDevice = NoDevice
    MaxCrashes = 1
CHECK_DEADLOCK FALSE
INVARIANTS
    PollsAgree
    PairedIsProvisioned
    NoDoubleClose
PROPERTY
    PollEnds
