SPECIFICATION Spec
CONSTANTS
    owner = owner
    bob = bob
    d2 = d2
    d3 = d3
    Users = {owner, bob}
    Devices = {d2, d3}
    OwnerOf <- DeviceOwners
    Creator = owner
    Reqs = {r1, r2}
    NoUser = NoUser
    MaxUses = 1
SYMMETRY Interchangeable
INVARIANTS
    TypeOK
    MembersBound
    OnlyMembersBound
    ExitIsHeard
    InviteWithinLimit
