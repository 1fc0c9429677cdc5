----------------------------- MODULE MCRouting -----------------------------
(* Instances of MessageRouting for TLC: alice with two devices, bob with   *)
(* one, a group of both and one alice is not in.                           *)
EXTENDS MessageRouting

CONSTANTS alice, bob, a1, a2, b1, both, bobs

Owners == [d \in Devices |-> IF d = b1 THEN bob ELSE alice]
Groupings == [g \in Groups |-> IF g = both THEN {alice, bob} ELSE {bob}]
=============================================================================
