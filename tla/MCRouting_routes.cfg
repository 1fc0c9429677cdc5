SPECIFICATION FairSpec
CONSTANTS
    alice = alice
    bob = bob
    a1 = a1
    a2 = a2
    b1 = b1
    both = both
    bobs = bobs
    Users = {alice, bob}
    Groups = {both, bobs}
    Devices = {a1, a2, b1}
    OwnerOf <- Owners
    MembersOf <- Groupings
    HasToken = {a2, b1}
    Senders = {a1}
    Posters = {b1}
    NoDevice = NoDevice
    NoUser = NoUser
    Movers = {bob}
    MaxConns = 2
CHECK_DEADLOCK FALSE
INVARIANTS
    TypeOK
    CopiesArrive
    ShownToNobodyElse
    SleepersWoken
    NoStrayConnection
PROPERTY
    Reconnects
