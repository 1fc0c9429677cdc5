----------------------------- MODULE MCDelivery -----------------------------
(* Instances of DeviceDelivery for TLC.                                    *)
EXTENDS DeviceDelivery, TLC

CONSTANTS p1, p2, r, q, x, idA, idB

\* p1 and p2 are copies of one payload: the group fan-out and the multi-device
\* echo of a message carry the same message_id to the sender's other device.
\* r is a payload of its own, q a frame of another type and x an echo of what
\* the device itself has sent.
Identifiers == [m \in Msgs |-> IF m \in {r, q} THEN idB ELSE idA]
Kinds == [m \in Msgs |-> IF m = q THEN "other" ELSE IF m = x THEN "own" ELSE "payload"]

Interchangeable == Permutations(Conns) \cup Permutations(States)
=============================================================================
