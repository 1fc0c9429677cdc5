---------------------------- MODULE DeviceQueue ----------------------------
(***************************************************************************)
(* What the server promises about one device's broker queue.  A message    *)
(* that was handed to a consumer leaves only for a reason the sender can   *)
(* live with (MayLeave), or it is waiting again.  A message that waits     *)
(* leaves unseen when it has been in the queue for the queue's time to     *)
(* live, seven days, counted from its publication (Expire); nothing else   *)
(* takes it.  This is the abstract specification; DeviceDelivery is the    *)
(* connection manager that has to implement it.                            *)
(***************************************************************************)
EXTENDS FiniteSets

CONSTANTS Msgs,        \* messages published to the device's queue
          Ids,         \* message identifiers the clients put in payloads
          MsgId,       \* MsgId[m]: the identifier carried by m
          Kind         \* Kind[m]: "payload", "other", "own" or "broken"

VARIABLES ready,       \* messages waiting in the queue
          inflight,    \* messages handed to a consumer and not yet settled
          done,        \* messages that have left the queue for good
          shown,       \* messages written to at least one of the device's sockets
          receipted    \* identifiers for which the device sent DELIVERED

vars == <<ready, inflight, done, shown, receipted>>

\* The server may settle a message for good when nobody needs it: it cannot be
\* decoded, it is the echo of what this device sent, it is not a payload and was
\* shown, or it is a payload that was shown and that the device confirmed.
MayLeave(m) ==
    \/ Kind[m] \in {"broken", "own"}
    \/ Kind[m] = "other" /\ m \in shown
    \/ Kind[m] = "payload" /\ m \in shown /\ MsgId[m] \in receipted

Init ==
    /\ ready = Msgs
    /\ inflight = {}
    /\ done = {}
    /\ shown = {}
    /\ receipted = {}

Hand(m) ==
    /\ m \in ready
    /\ ready' = ready \ {m}
    /\ inflight' = inflight \cup {m}
    /\ UNCHANGED <<done, shown, receipted>>

Show(m) ==
    /\ shown' = shown \cup {m}
    /\ UNCHANGED <<ready, inflight, done, receipted>>

Confirm(i) ==
    /\ receipted' = receipted \cup {i}
    /\ UNCHANGED <<ready, inflight, done, shown>>

Leave(m) ==
    /\ m \in inflight
    /\ MayLeave(m)
    /\ inflight' = inflight \ {m}
    /\ done' = done \cup {m}
    /\ UNCHANGED <<ready, shown, receipted>>

\* x-message-ttl (topology.go:74): the broker drops what has waited for too long,
\* shown or not; what a consumer holds does not expire before it is given back.
Expire(m) ==
    /\ m \in ready
    /\ ready' = ready \ {m}
    /\ done' = done \cup {m}
    /\ UNCHANGED <<inflight, shown, receipted>>

\* A requeue, a closed channel or a lost connection gives messages back.
GiveBack(S) ==
    /\ S \subseteq inflight
    /\ inflight' = inflight \ S
    /\ ready' = ready \cup S
    /\ UNCHANGED <<done, shown, receipted>>

Next ==
    \/ \E m \in Msgs : Hand(m) \/ Show(m) \/ Leave(m) \/ Expire(m)
    \/ \E i \in Ids : Confirm(i)
    \/ \E S \in SUBSET inflight : GiveBack(S)

Spec == Init /\ [][Next]_vars
=============================================================================
