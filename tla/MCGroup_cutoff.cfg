SPECIFICATION Spec
CONSTANTS
    owner = owner
    bob = bob
    d2 = d2
    d3 = d3
    Users = {owner, bob}
    Devices = {d2}
    OwnerOf <- DeviceOwners
    Creator = owner
    Reqs = {r1, r2}
    NoUser = NoUser
    MaxUses = 1
INVARIANT
    RemovedCutOff
