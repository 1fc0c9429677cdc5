------------------------------- MODULE MCInbox -------------------------------
(* Instances of Inbox for TLC. *)
EXTENDS Inbox

CONSTANTS m, b

Kinds == [f \in Msgs |-> IF f = b THEN "broken" ELSE "payload"]
=============================================================================
