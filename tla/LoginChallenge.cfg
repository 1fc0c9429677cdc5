SPECIFICATION Spec
CONSTANTS
    Users = {u1, u2}
    Challenges = {h1, h2}
    Devices = {d1, d2, d3}
    Reqs = {r1, r2}
    NoChallenge = NoChallenge
    NoDevice = NoDevice
    NoUser = NoUser
CHECK_DEADLOCK FALSE
INVARIANTS
    SingleUse
    VoidIsRefused
    UnusedIsCached
    TokenNamesOwnDevice
