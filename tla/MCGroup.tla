------------------------------ MODULE MCGroup ------------------------------
(* Instances of GroupMembership for TLC: the devices are those of bob. *)
EXTENDS GroupMembership, TLC

CONSTANTS owner, bob, d2, d3

DeviceOwners == [d \in Devices |-> bob]

Interchangeable == Permutations(Reqs) \cup Permutations({d2, d3})
=============================================================================
