--------------------------- MODULE DeviceDelivery ---------------------------
(***************************************************************************)
(* Delivery of one device's broker queue to its WebSocket connections, as  *)
(* internal/websocket/connection_manager.go does it.  The model covers one *)
(* session key (userID|deviceID): the entry of m.clients, the userStates   *)
(* created for it over time, each with its AMQP channel, consumer          *)
(* goroutine, pendingAcks map and ack timers, and the goroutine of every   *)
(* WebSocket connection of the device (Register; ReadPump; Unregister).    *)
(*                                                                         *)
(* The broker is external.  A delivery tag is an index of the deliveries   *)
(* made on a channel; the order of the messages that wait is abstracted    *)
(* away, and a message that is published later is one that the broker has  *)
(* not handed out yet.  The queue's time to live may end for any message   *)
(* that waits.                                                             *)
(***************************************************************************)
EXTENDS Naturals, Sequences, FiniteSets

CONSTANTS Conns,          \* WebSocket connections of the device
          States,         \* userState objects that may be allocated
          Msgs, Ids, MsgId, Kind,   \* as in DeviceQueue
          Perishable,     \* bound: messages whose time to live may end
          NoConn, NoState, NoId,
          MaxDeliveries,  \* bound: deliveries per channel
          MaxFaults       \* bound: losses of the broker connection or of a channel,
                    \*   failures of Consume and process crashes

ASSUME DeliveryAssumption ==
    /\ NoConn \notin Conns
    /\ NoState \notin States
    /\ NoId \notin Ids
    /\ MsgId \in [Msgs -> Ids]
    /\ Kind \in [Msgs -> {"payload", "other", "own", "broken"}]
    /\ Perishable \subseteq Msgs
    /\ MaxDeliveries \in Nat
    /\ MaxFaults \in Nat

VARIABLES
    mu,         \* connection whose Register holds m.mu between its two steps
    clients,    \* m.clients[key]
    conns,      \* us.conns
    cancelled,  \* the context of the consumer is cancelled
    mapNil,     \* us.pendingAcks has been set to nil
    ch,         \* us.ch: "unused", "open", "dead" (closed by the broker), "nil"
    work,       \* consumer goroutine: where it is, and the delivery it handles
    taken,      \* deliveries the consumer has received from the Go channel
    delivered,  \* messages delivered on the channel; the tag is the index
    unacked,    \* tags the broker waits for
    pending,    \* us.pendingAcks: tag of the entry, 0 when there is none
    armed,      \* tags whose ack timer runs
    fired,      \* tags whose timer function waits for pendingMu
    nacking,    \* tags a timer function has removed and will nack
    sock,       \* the socket of a connection is open
    rd,         \* goroutine of a connection
    ready,      \* messages waiting in the queue
    done,       \* messages gone from the queue
    shown,      \* messages written to a socket (history)
    receipted,  \* identifiers of the DELIVERED receipts read (history)
    faults,     \* faults so far, see MaxFaults
    panicked    \* a goroutine wrote to a nil map (history)

connVars == <<mu, clients, conns, sock, rd>>
consumerVars == <<cancelled, work, taken>>
ackVars == <<mapNil, pending, armed, fired, nacking>>
brokerVars == <<ch, delivered, unacked, ready, done>>
historyVars == <<shown, receipted, faults, panicked>>
vars == <<connVars, consumerVars, ackVars, brokerVars, historyVars>>

Tags == 1 .. MaxDeliveries

Idle(pc) == [pc |-> pc, tag |-> 0, todo |-> {}, hit |-> FALSE]
Writing(t, todo, hit) == [pc |-> "writing", tag |-> t, todo |-> todo, hit |-> hit]
Reader(pc) == [pc |-> pc, us |-> NoState, id |-> NoId, tag |-> 0]
Cleaner(pc, u) == [pc |-> pc, us |-> u, id |-> NoId, tag |-> 0]
Receipt(pc, u, i, t) == [pc |-> pc, us |-> u, id |-> i, tag |-> t]

\* Channel closed or connection lost: what it held is waiting again.
Held(u) == {delivered[u][t] : t \in unacked[u]}

-----------------------------------------------------------------------------
(* Settling a delivery: us.ack and us.nack, with chMu held for the call.   *)
(* Both return without effect once us.ch is nil or its channel is closed.  *)

Ack(u, t) ==
    IF ch[u] = "open"
    THEN /\ unacked' = [unacked EXCEPT ![u] = @ \ {t}]
         /\ done' = done \cup ({delivered[u][t]} \cap Held(u))
         /\ UNCHANGED <<ch, delivered, ready>>
    ELSE UNCHANGED brokerVars

Requeue(u, t) ==
    IF ch[u] = "open"
    THEN /\ unacked' = [unacked EXCEPT ![u] = @ \ {t}]
         /\ ready' = ready \cup ({delivered[u][t]} \cap Held(u))
         /\ UNCHANGED <<ch, delivered, done>>
    ELSE UNCHANGED brokerVars

-----------------------------------------------------------------------------
(* Register.  m.mu is held from the lookup to the insertion in us.conns;   *)
(* the consumer it starts runs in between.                                 *)

RegisterCreate(c) ==
    /\ rd[c].pc = "new" /\ mu = NoConn /\ clients = NoState
    /\ \E u \in States :
        /\ ch[u] = "unused"
        /\ ch' = [ch EXCEPT ![u] = "open"]
        /\ work' = [work EXCEPT ![u] = Idle("starting")]
        /\ clients' = u
    /\ mu' = c
    /\ UNCHANGED <<conns, sock, rd, cancelled, taken, ackVars, delivered,
                   unacked, ready, done, historyVars>>

RegisterJoin(c) ==
    /\ rd[c].pc = "new" /\ clients # NoState /\ mu \in {NoConn, c}
    /\ conns' = [conns EXCEPT ![clients] = @ \cup {c}]
    /\ rd' = [rd EXCEPT ![c] = Reader("reading")]
    /\ mu' = NoConn
    /\ UNCHANGED <<clients, sock, consumerVars, ackVars, brokerVars, historyVars>>

\* The queue cannot be provisioned or no channel can be opened.
RegisterFail(c) ==
    /\ rd[c].pc = "new" /\ mu = NoConn /\ clients = NoState
    /\ sock' = [sock EXCEPT ![c] = FALSE]
    /\ rd' = [rd EXCEPT ![c] = Reader("reading")]
    /\ UNCHANGED <<mu, clients, conns, consumerVars, ackVars, brokerVars, historyVars>>

-----------------------------------------------------------------------------
(* consumeUserQueue and handleDelivery, by the consumer goroutine of u.    *)

ConsumerStart(u) ==
    /\ work[u].pc = "starting"
    /\ work' = [work EXCEPT ![u] = Idle(IF ch[u] = "open" THEN "waiting" ELSE "failed")]
    /\ UNCHANGED <<connVars, cancelled, taken, ackVars, brokerVars, historyVars>>

\* The broker refuses Consume, which may close the channel: the goroutine
\* returns, and the userState stays in m.clients.
ConsumeFails(u) ==
    /\ faults < MaxFaults
    /\ work[u].pc = "starting" /\ ch[u] = "open"
    /\ faults' = faults + 1
    /\ work' = [work EXCEPT ![u] = Idle("failed")]
    /\ \E state \in {"open", "dead"} : ch' = [ch EXCEPT ![u] = state]
    /\ UNCHANGED <<connVars, cancelled, taken, ackVars, delivered, unacked, ready,
                   done, shown, receipted, panicked>>

ConsumerExit(u) ==
    /\ work[u].pc = "waiting"
    /\ cancelled[u] \/ ch[u] # "open"
    /\ work' = [work EXCEPT ![u] = Idle("exited")]
    /\ UNCHANGED <<connVars, cancelled, taken, ackVars, brokerVars, historyVars>>

\* No prefetch limit is set: the broker pushes to every subscribed channel.
BrokerDeliver(u, m) ==
    /\ ch[u] = "open" /\ work[u].pc \in {"waiting", "writing", "exited"}
    /\ m \in ready /\ Len(delivered[u]) < MaxDeliveries
    /\ delivered' = [delivered EXCEPT ![u] = Append(@, m)]
    /\ unacked' = [unacked EXCEPT ![u] = @ \cup {Len(delivered[u]) + 1}]
    /\ ready' = ready \ {m}
    /\ UNCHANGED <<connVars, consumerVars, ackVars, ch, done, historyVars>>

\* The next delivery of the Go channel, with its tag t and message m.
Receives(u, t, m) ==
    /\ work[u].pc = "waiting"
    /\ taken[u] < Len(delivered[u])
    /\ t = taken[u] + 1
    /\ m = delivered[u][t]
    /\ taken' = [taken EXCEPT ![u] = t]
    /\ UNCHANGED <<connVars, cancelled, ackVars, historyVars>>

\* A body that does not decode is rejected without requeue; a message that
\* carries this device's id as its source is acked unseen.
DeliveryDiscard(u) ==
    \E t \in Tags, m \in Msgs :
        /\ Receives(u, t, m)
        /\ Kind[m] \in {"broken", "own"}
        /\ Ack(u, t)
        /\ UNCHANGED work

DeliveryOffline(u) ==
    \E t \in Tags, m \in Msgs :
        /\ Receives(u, t, m)
        /\ Kind[m] \in {"payload", "other"}
        /\ conns[u] = {}
        /\ Requeue(u, t)
        /\ UNCHANGED work

\* The connections are copied under connsMu and written to after its release.
DeliveryStart(u) ==
    \E t \in Tags, m \in Msgs :
        /\ Receives(u, t, m)
        /\ Kind[m] \in {"payload", "other"}
        /\ conns[u] # {}
        /\ work' = [work EXCEPT ![u] = Writing(t, conns[u], FALSE)]
        /\ UNCHANGED brokerVars

WriteOk(u, c) ==
    /\ work[u].pc = "writing" /\ c \in work[u].todo /\ sock[c]
    /\ work' = [work EXCEPT ![u] = Writing(@.tag, @.todo \ {c}, TRUE)]
    /\ shown' = shown \cup {delivered[u][work[u].tag]}
    /\ UNCHANGED <<connVars, cancelled, taken, ackVars, brokerVars, receipted, faults, panicked>>

WriteFail(u, c) ==
    /\ work[u].pc = "writing" /\ c \in work[u].todo
    /\ work' = [work EXCEPT ![u] = Writing(@.tag, @.todo \ {c}, @.hit)]
    /\ sock' = [sock EXCEPT ![c] = FALSE]
    /\ UNCHANGED <<mu, clients, conns, rd, cancelled, taken, ackVars, brokerVars, historyVars>>

Written(u) == work[u].pc = "writing" /\ work[u].todo = {}
InHand(u) == delivered[u][work[u].tag]

\* (mutant) the frame is acked although no write succeeded
NobodyReachedAcks(u) ==
    /\ Written(u) /\ ~work[u].hit
    /\ Ack(u, work[u].tag)
    /\ work' = [work EXCEPT ![u] = Idle("waiting")]
    /\ UNCHANGED <<connVars, cancelled, taken, ackVars, historyVars>>

\* (mutant) the nack is missing
NobodyReachedSilent(u) ==
    /\ Written(u) /\ ~work[u].hit
    /\ work' = [work EXCEPT ![u] = Idle("waiting")]
    /\ UNCHANGED <<connVars, cancelled, taken, ackVars, brokerVars, historyVars>>

NobodyReached(u) ==
    /\ Written(u) /\ ~work[u].hit
    /\ Requeue(u, work[u].tag)
    /\ work' = [work EXCEPT ![u] = Idle("waiting")]
    /\ UNCHANGED <<connVars, cancelled, taken, ackVars, historyVars>>

NonPayloadForwarded(u) ==
    /\ Written(u) /\ work[u].hit /\ Kind[InHand(u)] = "other"
    /\ Ack(u, work[u].tag)
    /\ work' = [work EXCEPT ![u] = Idle("waiting")]
    /\ UNCHANGED <<connVars, cancelled, taken, ackVars, historyVars>>

\* (mutant) no timer is started
AwaitReceiptForever(u) ==
    /\ Written(u) /\ work[u].hit /\ Kind[InHand(u)] = "payload"
    /\ ~mapNil[u]
    /\ pending' = [pending EXCEPT ![u][MsgId[InHand(u)]] = work[u].tag]
    /\ work' = [work EXCEPT ![u] = Idle("waiting")]
    /\ UNCHANGED <<connVars, cancelled, taken, mapNil, armed, fired, nacking, brokerVars, historyVars>>

\* pendingMu is held while the timer is created and the entry is stored; an
\* entry with the same message_id is overwritten and its timer keeps running.
AwaitReceipt(u) ==
    /\ Written(u) /\ work[u].hit /\ Kind[InHand(u)] = "payload"
    /\ ~mapNil[u]
    /\ pending' = [pending EXCEPT ![u][MsgId[InHand(u)]] = work[u].tag]
    /\ armed' = [armed EXCEPT ![u] = @ \cup {work[u].tag}]
    /\ work' = [work EXCEPT ![u] = Idle("waiting")]
    /\ UNCHANGED <<connVars, cancelled, taken, mapNil, fired, nacking, brokerVars, historyVars>>

-----------------------------------------------------------------------------
(* The ack timer: time.AfterFunc(userAckTimeout, ...).                     *)

TimerFire(u, t) ==
    /\ t \in armed[u]
    /\ armed' = [armed EXCEPT ![u] = @ \ {t}]
    /\ fired' = [fired EXCEPT ![u] = @ \cup {t}]
    /\ UNCHANGED <<connVars, consumerVars, mapNil, pending, nacking, brokerVars, historyVars>>

\* (mutant) the entry is not deleted
TimerTakeKeeps(u, t) ==
    /\ t \in fired[u]
    /\ fired' = [fired EXCEPT ![u] = @ \ {t}]
    /\ nacking' = [nacking EXCEPT ![u] =
                      @ \cup ({pending[u][MsgId[delivered[u][t]]]} \ {0})]
    /\ UNCHANGED <<connVars, consumerVars, mapNil, pending, armed, brokerVars, historyVars>>

\* (mutant) whether the entry exists is not asked
TimerTakeBlind(u, t) ==
    /\ t \in fired[u]
    /\ fired' = [fired EXCEPT ![u] = @ \ {t}]
    /\ LET id == MsgId[delivered[u][t]] IN
        /\ nacking' = [nacking EXCEPT ![u] = @ \cup {pending[u][id]}]
        /\ pending' = [pending EXCEPT ![u][id] = 0]
    /\ UNCHANGED <<connVars, consumerVars, mapNil, armed, brokerVars, historyVars>>

\* The function looks its message_id up, whatever tag is stored there now.
TimerTake(u, t) ==
    /\ t \in fired[u]
    /\ fired' = [fired EXCEPT ![u] = @ \ {t}]
    /\ LET id == MsgId[delivered[u][t]] IN
        /\ nacking' = [nacking EXCEPT ![u] = @ \cup ({pending[u][id]} \ {0})]
        /\ pending' = [pending EXCEPT ![u][id] = 0]
    /\ UNCHANGED <<connVars, consumerVars, mapNil, armed, brokerVars, historyVars>>

TimerNack(u, t) ==
    /\ t \in nacking[u]
    /\ nacking' = [nacking EXCEPT ![u] = @ \ {t}]
    /\ Requeue(u, t)
    /\ UNCHANGED <<connVars, consumerVars, mapNil, pending, armed, fired, historyVars>>

-----------------------------------------------------------------------------
(* ReadPump and handleReceipt, by the goroutine of connection c.           *)

\* The peer leaves, a ping fails or the read deadline passes.
SocketBreak(c) ==
    /\ rd[c].pc # "new" /\ sock[c]
    /\ sock' = [sock EXCEPT ![c] = FALSE]
    /\ UNCHANGED <<mu, clients, conns, rd, consumerVars, ackVars, brokerVars, historyVars>>

\* A DELIVERED receipt for any identifier; the userState is looked up in
\* m.clients under m.mu.
ReceiptRead(c, i) ==
    /\ rd[c].pc = "reading" /\ sock[c] /\ mu = NoConn
    /\ receipted' = receipted \cup {i}
    /\ rd' = [rd EXCEPT ![c] =
                 IF clients = NoState THEN Reader("reading")
                 ELSE Receipt("receipt", clients, i, 0)]
    /\ UNCHANGED <<mu, clients, conns, sock, consumerVars, ackVars, brokerVars,
                   shown, faults, panicked>>

ReceiptTake(c) ==
    /\ rd[c].pc = "receipt"
    /\ LET u == rd[c].us
           t == pending[u][rd[c].id]
       IN /\ pending' = [pending EXCEPT ![u][rd[c].id] = 0]
          /\ armed' = [armed EXCEPT ![u] = @ \ {t}]
          /\ rd' = [rd EXCEPT ![c] = IF t = 0 THEN Reader("reading")
                                     ELSE Receipt("acking", u, @.id, t)]
    /\ UNCHANGED <<mu, clients, conns, sock, consumerVars, mapNil, fired, nacking,
                   brokerVars, historyVars>>

ReceiptAck(c) ==
    /\ rd[c].pc = "acking"
    /\ Ack(rd[c].us, rd[c].tag)
    /\ rd' = [rd EXCEPT ![c] = Reader("reading")]
    /\ UNCHANGED <<mu, clients, conns, sock, consumerVars, ackVars, historyVars>>

-----------------------------------------------------------------------------
(* Unregister and cleanupUserState, deferred by the same goroutine.        *)

Leaving(c) == rd[c].pc = "reading" /\ ~sock[c] /\ mu = NoConn

\* (mutant) whatever connections remain, the userState is removed and cleaned
UnregisterAlways(c) ==
    /\ Leaving(c) /\ clients # NoState
    /\ conns' = [conns EXCEPT ![clients] = @ \ {c}]
    /\ clients' = NoState
    /\ rd' = [rd EXCEPT ![c] = Cleaner("cancel", clients)]
    /\ UNCHANGED <<mu, sock, consumerVars, ackVars, brokerVars, historyVars>>

\* (mutant) the last connection cleans up and leaves the entry in m.clients
UnregisterKeepsEntry(c) ==
    /\ Leaving(c) /\ clients # NoState
    /\ LET rest == conns[clients] \ {c} IN
        /\ conns' = [conns EXCEPT ![clients] = rest]
        /\ rd' = [rd EXCEPT ![c] =
                     IF rest = {} THEN Cleaner("cancel", clients)
                     ELSE Reader("gone")]
    /\ UNCHANGED <<mu, clients, sock, consumerVars, ackVars, brokerVars, historyVars>>

Unregister(c) ==
    /\ Leaving(c)
    /\ IF clients = NoState
       THEN /\ rd' = [rd EXCEPT ![c] = Reader("gone")]
            /\ UNCHANGED <<clients, conns>>
       ELSE LET rest == conns[clients] \ {c} IN
            /\ conns' = [conns EXCEPT ![clients] = rest]
            /\ clients' = IF rest = {} THEN NoState ELSE clients
            /\ rd' = [rd EXCEPT ![c] =
                         IF rest = {} THEN Cleaner("cancel", clients)
                         ELSE Reader("gone")]
    /\ UNCHANGED <<mu, sock, consumerVars, ackVars, brokerVars, historyVars>>

\* (mutant) the userState is forgotten without being cleaned up
CleanupSkipped(c) ==
    /\ rd[c].pc = "cancel"
    /\ rd' = [rd EXCEPT ![c] = Reader("gone")]
    /\ UNCHANGED <<mu, clients, conns, sock, consumerVars, ackVars, brokerVars, historyVars>>

CleanupCancel(c) ==
    /\ rd[c].pc = "cancel"
    /\ cancelled' = [cancelled EXCEPT ![rd[c].us] = TRUE]
    /\ rd' = [rd EXCEPT ![c] = Cleaner("drop", @.us)]
    /\ UNCHANGED <<mu, clients, conns, sock, work, taken, ackVars, brokerVars, historyVars>>

\* Only the timers of the entries that are in the map are stopped.
CleanupDrop(c) ==
    /\ rd[c].pc = "drop"
    /\ LET u == rd[c].us IN
        /\ armed' = [armed EXCEPT ![u] = @ \ {pending[u][i] : i \in Ids}]
        /\ pending' = [pending EXCEPT ![u] = [i \in Ids |-> 0]]
        /\ mapNil' = [mapNil EXCEPT ![u] = TRUE]
    /\ rd' = [rd EXCEPT ![c] = Cleaner("close", @.us)]
    /\ UNCHANGED <<mu, clients, conns, sock, consumerVars, fired, nacking, brokerVars, historyVars>>

CleanupClose(c) ==
    /\ rd[c].pc = "close"
    /\ LET u == rd[c].us IN
        /\ ch' = [ch EXCEPT ![u] = "nil"]
        /\ ready' = ready \cup Held(u)
        /\ unacked' = [unacked EXCEPT ![u] = {}]
    /\ rd' = [rd EXCEPT ![c] = Reader("gone")]
    /\ UNCHANGED <<mu, clients, conns, sock, consumerVars, ackVars, delivered, done, historyVars>>

-----------------------------------------------------------------------------
(* The broker drops what has waited for the queue's time to live.          *)

Expire(m) ==
    /\ m \in Perishable /\ m \in ready
    /\ ready' = ready \ {m}
    /\ done' = done \cup {m}
    /\ UNCHANGED <<connVars, consumerVars, ackVars, ch, delivered, unacked, historyVars>>

-----------------------------------------------------------------------------
(* Faults.  The broker closes one channel (a delivery was unacknowledged   *)
(* for too long), or the connection is lost and with it every channel; the *)
(* userStates stay as they are.  A process that stops loses its memory.    *)

AllHeld == UNION {Held(u) : u \in States}

ChannelClosed(u) ==
    /\ faults < MaxFaults
    /\ ch[u] = "open"
    /\ faults' = faults + 1
    /\ ch' = [ch EXCEPT ![u] = "dead"]
    /\ ready' = ready \cup Held(u)
    /\ unacked' = [unacked EXCEPT ![u] = {}]
    /\ UNCHANGED <<connVars, consumerVars, ackVars, delivered, done, shown, receipted, panicked>>

BrokerLoss ==
    /\ faults < MaxFaults
    /\ \E u \in States : ch[u] = "open"
    /\ faults' = faults + 1
    /\ ch' = [u \in States |-> IF ch[u] = "open" THEN "dead" ELSE ch[u]]
    /\ ready' = ready \cup AllHeld
    /\ unacked' = [u \in States |-> {}]
    /\ UNCHANGED <<connVars, consumerVars, ackVars, delivered, done, shown, receipted, panicked>>

ProcessStops ==
    /\ mu' = NoConn
    /\ clients' = NoState
    /\ conns' = [u \in States |-> {}]
    /\ sock' = [c \in Conns |-> sock[c] /\ rd[c].pc = "new" /\ mu # c]
    /\ rd' = [c \in Conns |-> Reader(IF rd[c].pc = "new" /\ mu # c THEN "new" ELSE "gone")]
    /\ ch' = [u \in States |-> IF ch[u] = "unused" THEN "unused" ELSE "nil"]
    /\ work' = [u \in States |-> Idle(IF ch[u] = "unused" THEN "unused" ELSE "exited")]
    /\ pending' = [u \in States |-> [i \in Ids |-> 0]]
    /\ armed' = [u \in States |-> {}]
    /\ fired' = [u \in States |-> {}]
    /\ nacking' = [u \in States |-> {}]
    /\ ready' = ready \cup AllHeld
    /\ unacked' = [u \in States |-> {}]
    /\ UNCHANGED <<cancelled, taken, mapNil, delivered, done, shown, receipted>>

Crash ==
    /\ faults < MaxFaults
    /\ faults' = faults + 1
    /\ ProcessStops
    /\ UNCHANGED panicked

\* cleanupUserState has set pendingAcks to nil: the assignment panics in the
\* consumer goroutine, which nothing recovers, and the process exits.
AwaitReceiptPanic(u) ==
    /\ Written(u) /\ work[u].hit /\ Kind[InHand(u)] = "payload"
    /\ mapNil[u]
    /\ panicked' = TRUE
    /\ ProcessStops
    /\ UNCHANGED faults

-----------------------------------------------------------------------------
Init ==
    /\ mu = NoConn
    /\ clients = NoState
    /\ conns = [u \in States |-> {}]
    /\ cancelled = [u \in States |-> FALSE]
    /\ mapNil = [u \in States |-> FALSE]
    /\ ch = [u \in States |-> "unused"]
    /\ work = [u \in States |-> Idle("unused")]
    /\ taken = [u \in States |-> 0]
    /\ delivered = [u \in States |-> <<>>]
    /\ unacked = [u \in States |-> {}]
    /\ pending = [u \in States |-> [i \in Ids |-> 0]]
    /\ armed = [u \in States |-> {}]
    /\ fired = [u \in States |-> {}]
    /\ nacking = [u \in States |-> {}]
    /\ sock = [c \in Conns |-> TRUE]
    /\ rd = [c \in Conns |-> Reader("new")]
    /\ ready = Msgs
    /\ done = {}
    /\ shown = {}
    /\ receipted = {}
    /\ faults = 0
    /\ panicked = FALSE

ConnStep(c) ==
    \/ RegisterCreate(c) \/ RegisterJoin(c) \/ RegisterFail(c)
    \/ SocketBreak(c)
    \/ \E i \in Ids : ReceiptRead(c, i)
    \/ ReceiptTake(c) \/ ReceiptAck(c)
    \/ Unregister(c)
    \/ CleanupCancel(c) \/ CleanupDrop(c) \/ CleanupClose(c)

ConsumerStep(u) ==
    \/ ConsumerStart(u) \/ ConsumeFails(u) \/ ConsumerExit(u)
    \/ DeliveryDiscard(u) \/ DeliveryOffline(u) \/ DeliveryStart(u)
    \/ \E c \in Conns : WriteOk(u, c) \/ WriteFail(u, c)
    \/ NobodyReached(u) \/ NonPayloadForwarded(u)
    \/ AwaitReceipt(u) \/ AwaitReceiptPanic(u)

TimerStep(u, t) == TimerFire(u, t) \/ TimerTake(u, t) \/ TimerNack(u, t)

Next ==
    \/ \E c \in Conns : ConnStep(c)
    \/ \E u \in States : ConsumerStep(u)
    \/ \E u \in States, t \in Tags : TimerStep(u, t)
    \/ \E u \in States, m \in Msgs : BrokerDeliver(u, m)
    \/ \E m \in Msgs : Expire(m)
    \/ \E u \in States : ChannelClosed(u)
    \/ BrokerLoss
    \/ Crash

Spec == Init /\ [][Next]_vars

-----------------------------------------------------------------------------
(* Fairness: goroutines and timers are scheduled, a write ends within its  *)
(* deadline, a connection goroutine goes on with what it has started.      *)
(* Nothing obliges a peer to connect, to confirm or to leave.              *)

Proceeds(c) ==
    \/ mu = c /\ RegisterJoin(c)
    \/ ReceiptTake(c) \/ ReceiptAck(c)
    \/ Unregister(c)
    \/ CleanupCancel(c) \/ CleanupDrop(c) \/ CleanupClose(c)

Fairness ==
    /\ \A c \in Conns : WF_vars(Proceeds(c))
    /\ \A u \in States : WF_vars(ConsumerStep(u))
    /\ \A u \in States, t \in Tags : WF_vars(TimerStep(u, t))

FairSpec == Spec /\ Fairness

-----------------------------------------------------------------------------
WorkType ==
    [pc : {"unused", "starting", "waiting", "writing", "exited", "failed"},
     tag : Tags \cup {0}, todo : SUBSET Conns, hit : BOOLEAN]

ReaderType ==
    [pc : {"new", "reading", "receipt", "acking", "cancel", "drop", "close", "gone"},
     us : States \cup {NoState}, id : Ids \cup {NoId}, tag : Tags \cup {0}]

TypeOK ==
    /\ mu \in Conns \cup {NoConn}
    /\ clients \in States \cup {NoState}
    /\ conns \in [States -> SUBSET Conns]
    /\ cancelled \in [States -> BOOLEAN]
    /\ mapNil \in [States -> BOOLEAN]
    /\ ch \in [States -> {"unused", "open", "dead", "nil"}]
    /\ work \in [States -> WorkType]
    /\ taken \in [States -> Tags \cup {0}]
    /\ delivered \in [States -> Seq(Msgs)]
    /\ unacked \in [States -> SUBSET Tags]
    /\ pending \in [States -> [Ids -> Tags \cup {0}]]
    /\ armed \in [States -> SUBSET Tags]
    /\ fired \in [States -> SUBSET Tags]
    /\ nacking \in [States -> SUBSET Tags]
    /\ sock \in [Conns -> BOOLEAN]
    /\ rd \in [Conns -> ReaderType]
    /\ ready \subseteq Msgs /\ done \subseteq Msgs
    /\ shown \subseteq Msgs /\ receipted \subseteq Ids
    /\ faults \in Nat /\ panicked \in BOOLEAN

\* The tags that somebody is going to ack or nack: the delivery being written,
\* the entries of pendingAcks, what a timer function or a receipt has removed.
InHandTags(u) == {t \in Tags : work[u].pc = "writing" /\ work[u].tag = t}
PendingTags(u) == {pending[u][i] : i \in Ids} \ {0}
Acks(c, u, t) == rd[c].pc = "acking" /\ rd[c].us = u /\ rd[c].tag = t
AckingTags(u) == {t \in Tags : \E c \in Conns : Acks(c, u, t)}
Committed(u) == InHandTags(u) \cup PendingTags(u) \cup nacking[u] \cup AckingTags(u)

\* A tag is settled at most once on its channel: whatever the order of the
\* receipt, the 30 s timer, the cleanup and the consumer, a tag that somebody
\* is going to settle is still unacked, and nobody else is going to settle it.
\* (A second ack of a tag makes the broker close the channel.)
SettledOnce ==
    \A u \in States : ch[u] = "open" =>
        /\ Committed(u) \subseteq unacked[u]
        /\ InHandTags(u) \cap (PendingTags(u) \cup nacking[u] \cup AckingTags(u)) = {}
        /\ PendingTags(u) \cap (nacking[u] \cup AckingTags(u)) = {}
        /\ nacking[u] \cap AckingTags(u) = {}
        /\ \A c, d \in Conns, t \in Tags : Acks(c, u, t) /\ Acks(d, u, t) => c = d

\* No other payload carries the identifier of m.
Alone(m) == \A n \in Msgs : Kind[n] = "payload" /\ MsgId[n] = MsgId[m] => n = m

\* "message forwarded, awaiting client ack" (connection_manager.go:377): until
\* cleanupUserState drops the map, somebody is going to settle every delivery
\* the consumer took, and its entry of pendingAcks has a timer that finds it,
\* unless another payload with its message_id took the entry over.
NothingForgotten ==
    \A u \in States : ch[u] = "open" /\ ~mapNil[u] =>
        \A t \in unacked[u] \cap (1 .. taken[u]) : Alone(delivered[u][t]) =>
            /\ t \in Committed(u)
            /\ t \in PendingTags(u) => t \in armed[u] \cup fired[u]

\* Register against Unregister: a connection that is still being read belongs
\* to the userState in m.clients, so the consumer writes to it.
RegisteredIsServed ==
    \A c \in Conns : rd[c].pc \in {"reading", "receipt", "acking"} /\ sock[c] =>
        clients # NoState /\ c \in conns[clients]

Cleaning(c, u) == rd[c].us = u /\ rd[c].pc \in {"cancel", "drop", "close"}

\* No channel is leaked and none is shut under a device that is connected: a
\* userState with a channel is either the one in m.clients, with a connection,
\* or in the hands of exactly one Unregister that cleans it up.
NoLeakedState ==
    \A u \in States : ch[u] \in {"open", "dead"} =>
        \/ /\ clients = u
           /\ mu # NoConn \/ conns[u] # {}
           /\ \A c \in Conns : ~Cleaning(c, u)
        \/ /\ clients # u
           /\ \E c \in Conns : Cleaning(c, u) /\ \A d \in Conns : Cleaning(d, u) => d = c

\* The userState in m.clients was never cancelled nor emptied by the cleanup of
\* an earlier one, and its consumer runs on an open channel, unless its Consume
\* was refused or its own channel was closed under it by a fault.  What a
\* userState lost in that way is lost until its last connection leaves; the next
\* Register starts with a consumer again.
OnlineIsConsumed ==
    clients # NoState =>
        /\ ~cancelled[clients] /\ ~mapNil[clients]
        /\ \/ ch[clients] = "open" /\ work[clients].pc \in {"starting", "waiting", "writing"}
           \/ faults > 0 /\ ch[clients] = "open" /\ work[clients].pc = "failed"
           \/ faults > 0 /\ ch[clients] = "dead"

\* main.go:49: a panic is caught, the server goes on without crashing.
NoPanic == ~panicked

\* A delivery whose identifier is its own does not stay unacked: it is settled,
\* requeued by its timer, or given back with the channel.
UnackedResolves ==
    \A u \in States, t \in Tags :
        (t \in unacked[u] /\ Alone(delivered[u][t])) ~> t \notin unacked[u]

Inflight == AllHeld

\* The connection manager implements the promise made for the queue.
Queue == INSTANCE DeviceQueue WITH inflight <- Inflight
ImplementsDeviceQueue == Queue!Spec
=============================================================================
