------------------------------- MODULE MCSync -------------------------------
(* An instance of SyncManager, and of one channel of it, for TLC: connections by role. *)
EXTENDS SyncRelay

CONSTANTS a1, w1, w2

Roles == [c \in Conns |-> IF c = a1 THEN "android" ELSE "web"]
=============================================================================
