------------------------ MODULE DeviceDelivery_proofs ------------------------
(***************************************************************************)
(* Type correctness of DeviceDelivery and the proofs that a delivery is    *)
(* settled at most once, that Register and Unregister leak no userState    *)
(* and shut none under a connection, that whoever is read is served, that  *)
(* every step keeps the promise of DeviceQueue, and that nothing the       *)
(* consumer took is forgotten.  For any number of connections, userStates  *)
(* and messages and any bounds.                                            *)
(***************************************************************************)
EXTENDS DeviceDelivery, TLAPS

USE DeliveryAssumption

\* What the types rest on: tags are indices of deliveries made, the tag in hand
\* is the last one taken, timers exist for tags taken, and a goroutine that
\* handles a receipt or cleans up has a userState.
WellFormedState(u) ==
    /\ taken[u] <= Len(delivered[u])
    /\ Len(delivered[u]) <= MaxDeliveries
    /\ unacked[u] \subseteq 1 .. Len(delivered[u])
    /\ armed[u] \subseteq 1 .. taken[u]
    /\ fired[u] \subseteq 1 .. taken[u]
    /\ work[u].pc = "writing" => work[u].tag = taken[u] /\ taken[u] # 0

WellFormedReader(c) ==
    /\ rd[c].pc \in {"receipt", "acking", "cancel", "drop", "close"} => rd[c].us \in States
    /\ rd[c].pc = "receipt" => rd[c].id \in Ids

WellFormed ==
    /\ \A u \in States : WellFormedState(u)
    /\ \A c \in Conns : WellFormedReader(c)

TypeInv == TypeOK /\ WellFormed

\* What a channel holds are messages of the queue.
LEMMA HeldMsgs == ASSUME TypeInv, NEW u \in States PROVE Held(u) \subseteq Msgs
  BY DEF TypeInv, TypeOK, WellFormed, WellFormedState, Held, Tags

\* Settling a delivery only takes its tag away from the channel.
LEMMA AckType ==
  ASSUME TypeInv, NEW u \in States, NEW t, Ack(u, t)
  PROVE  /\ unacked' \in [States -> SUBSET Tags]
         /\ \A v \in States : unacked'[v] \subseteq unacked[v]
         /\ done' \subseteq Msgs
         /\ UNCHANGED <<ch, delivered, ready>>
<1>0. Held(u) \subseteq Msgs
  BY HeldMsgs
<1> USE DEF TypeInv, TypeOK
<1>1. CASE ch[u] = "open"
  <2>1. /\ unacked' = [unacked EXCEPT ![u] = @ \ {t}]
        /\ done' = done \cup ({delivered[u][t]} \cap Held(u))
        /\ UNCHANGED <<ch, delivered, ready>>
    BY <1>1 DEF Ack
  <2>. QED
    BY <1>0, <2>1
<1>2. CASE ch[u] # "open"
  BY <1>2 DEF Ack, brokerVars
<1>. QED
  BY <1>1, <1>2

LEMMA RequeueType ==
  ASSUME TypeInv, NEW u \in States, NEW t, Requeue(u, t)
  PROVE  /\ unacked' \in [States -> SUBSET Tags]
         /\ \A v \in States : unacked'[v] \subseteq unacked[v]
         /\ ready' \subseteq Msgs
         /\ UNCHANGED <<ch, delivered, done>>
<1>0. Held(u) \subseteq Msgs
  BY HeldMsgs
<1> USE DEF TypeInv, TypeOK
<1>1. CASE ch[u] = "open"
  <2>1. /\ unacked' = [unacked EXCEPT ![u] = @ \ {t}]
        /\ ready' = ready \cup ({delivered[u][t]} \cap Held(u))
        /\ UNCHANGED <<ch, delivered, done>>
    BY <1>1 DEF Requeue
  <2>. QED
    BY <1>0, <2>1
<1>2. CASE ch[u] # "open"
  BY <1>2 DEF Requeue, brokerVars
<1>. QED
  BY <1>1, <1>2

LEMMA TypeInit == Init => TypeInv
<1> SUFFICES ASSUME Init PROVE TypeInv
  OBVIOUS
<1>1. Idle("unused") \in WorkType /\ Reader("new") \in ReaderType
  BY DEF Idle, Reader, WorkType, ReaderType, Tags
<1>2. delivered \in [States -> Seq(Msgs)] /\ pending \in [States -> [Ids -> Tags \cup {0}]]
  BY DEF Init
<1>3. TypeOK
  BY <1>1, <1>2 DEF Init, TypeOK, Tags
<1>4. WellFormed
  BY DEF Init, WellFormed, WellFormedState, WellFormedReader, Idle, Reader
<1>. QED
  BY <1>3, <1>4 DEF TypeInv

LEMMA TypeNext == TypeInv /\ [Next]_vars => TypeInv'
<1> SUFFICES ASSUME TypeInv, [Next]_vars PROVE TypeInv'
  OBVIOUS
<1> USE DEF TypeInv, TypeOK, WellFormed, WellFormedState, WellFormedReader, Tags, WorkType, ReaderType,
            connVars, consumerVars, ackVars, brokerVars, historyVars
<1>1. ASSUME NEW c \in Conns, RegisterCreate(c) PROVE TypeInv'
  BY <1>1 DEF RegisterCreate, Idle
<1>2. ASSUME NEW c \in Conns, RegisterJoin(c) PROVE TypeInv'
  BY <1>2 DEF RegisterJoin, Reader
<1>3. ASSUME NEW c \in Conns, RegisterFail(c) PROVE TypeInv'
  BY <1>3 DEF RegisterFail, Reader
<1>4. ASSUME NEW c \in Conns, SocketBreak(c) PROVE TypeInv'
  BY <1>4 DEF SocketBreak
<1>5. ASSUME NEW c \in Conns, NEW i \in Ids, ReceiptRead(c, i) PROVE TypeInv'
  BY <1>5 DEF ReceiptRead, Reader, Receipt
<1>6. ASSUME NEW c \in Conns, ReceiptTake(c) PROVE TypeInv'
  <2>1. rd[c].us \in States /\ rd[c].id \in Ids
    BY <1>6 DEF ReceiptTake
  <2>2. pending[rd[c].us][rd[c].id] \in Tags \cup {0}
    BY <2>1
  <2>3. rd' \in [Conns -> ReaderType] /\ \A d \in Conns : WellFormedReader(d)'
    BY <1>6, <2>1, <2>2 DEF ReceiptTake, Reader, Receipt
  <2>4. pending' \in [States -> [Ids -> Tags \cup {0}]]
    BY <1>6, <2>1 DEF ReceiptTake
  <2>5. /\ armed' \in [States -> SUBSET Tags]
        /\ \A v \in States : armed'[v] \subseteq armed[v]
    BY <1>6, <2>1 DEF ReceiptTake
  <2>. QED
    BY <1>6, <2>3, <2>4, <2>5 DEF ReceiptTake
<1>7. ASSUME NEW c \in Conns, ReceiptAck(c) PROVE TypeInv'
  <2>1. rd[c].us \in States
    BY <1>7 DEF ReceiptAck
  <2>. QED
    BY <1>7, <2>1, AckType DEF ReceiptAck, Reader
<1>8. ASSUME NEW c \in Conns, Unregister(c) PROVE TypeInv'
  <2>1. CASE clients = NoState
    <3>1. rd' = [rd EXCEPT ![c] = Reader("gone")] /\ UNCHANGED <<clients, conns>>
      BY <1>8, <2>1 DEF Unregister
    <3>. QED
      BY <1>8, <3>1 DEF Unregister, Reader
  <2>2. CASE clients # NoState /\ conns[clients] \ {c} # {}
    <3>1. /\ rd' = [rd EXCEPT ![c] = Reader("gone")] /\ UNCHANGED clients
          /\ conns' = [conns EXCEPT ![clients] = @ \ {c}]
      BY <1>8, <2>2 DEF Unregister
    <3>. QED
      BY <1>8, <3>1 DEF Unregister, Reader
  <2>3. CASE clients # NoState /\ conns[clients] \ {c} = {}
    <3>1. /\ rd' = [rd EXCEPT ![c] = Cleaner("cancel", clients)] /\ clients' = NoState
          /\ conns' = [conns EXCEPT ![clients] = @ \ {c}]
      BY <1>8, <2>3 DEF Unregister
    <3>. QED
      BY <1>8, <2>3, <3>1 DEF Unregister, Cleaner
  <2>. QED
    BY <2>1, <2>2, <2>3
<1>9. ASSUME NEW c \in Conns, CleanupCancel(c) PROVE TypeInv'
  BY <1>9 DEF CleanupCancel, Cleaner
<1>10. ASSUME NEW c \in Conns, CleanupDrop(c) PROVE TypeInv'
  BY <1>10 DEF CleanupDrop, Cleaner
<1>11. ASSUME NEW c \in Conns, CleanupClose(c) PROVE TypeInv'
  BY <1>11 DEF CleanupClose, Held, Reader
<1>12. ASSUME NEW u \in States, ConsumerStart(u) PROVE TypeInv'
  BY <1>12 DEF ConsumerStart, Idle
<1>13. ASSUME NEW u \in States, ConsumerExit(u) PROVE TypeInv'
  BY <1>13 DEF ConsumerExit, Idle
<1>14. ASSUME NEW u \in States, DeliveryDiscard(u) PROVE TypeInv'
  <2>1. PICK t \in Tags, m \in Msgs : Receives(u, t, m) /\ Ack(u, t) /\ UNCHANGED work
    BY <1>14 DEF DeliveryDiscard
  <2>2. /\ work[u].pc = "waiting" /\ t = taken[u] + 1 /\ taken[u] < Len(delivered[u])
        /\ taken' = [taken EXCEPT ![u] = t]
        /\ UNCHANGED <<connVars, cancelled, ackVars, historyVars>>
    BY <2>1 DEF Receives
  <2>3. taken[u] \in Nat /\ Len(delivered[u]) \in Nat
    OBVIOUS
  <2>4. t <= Len(delivered[u])
    BY <2>2, <2>3
  <2>5. /\ unacked' \in [States -> SUBSET Tags] /\ done' \subseteq Msgs
        /\ \A v \in States : unacked'[v] \subseteq unacked[v]
        /\ UNCHANGED <<ch, delivered, ready>>
    BY <2>1, AckType
  <2>6. TypeOK'
    BY <2>1, <2>2, <2>5
  <2>7. WellFormed'
    BY <2>1, <2>2, <2>4, <2>5
  <2>. QED
    BY <2>6, <2>7
<1>15. ASSUME NEW u \in States, DeliveryOffline(u) PROVE TypeInv'
  BY <1>15, RequeueType DEF DeliveryOffline, Receives
<1>16. ASSUME NEW u \in States, DeliveryStart(u) PROVE TypeInv'
  BY <1>16 DEF DeliveryStart, Receives, Writing
<1>17. ASSUME NEW u \in States, NEW c \in Conns, WriteOk(u, c) PROVE TypeInv'
  BY <1>17 DEF WriteOk, Writing
<1>18. ASSUME NEW u \in States, NEW c \in Conns, WriteFail(u, c) PROVE TypeInv'
  BY <1>18 DEF WriteFail, Writing
<1>19. ASSUME NEW u \in States, NobodyReached(u) PROVE TypeInv'
  BY <1>19, RequeueType DEF NobodyReached, Written, Idle
<1>20. ASSUME NEW u \in States, NonPayloadForwarded(u) PROVE TypeInv'
  BY <1>20, AckType DEF NonPayloadForwarded, Written, Idle
<1>21. ASSUME NEW u \in States, AwaitReceipt(u) PROVE TypeInv'
  BY <1>21 DEF AwaitReceipt, Written, InHand, Idle
<1>22. ASSUME NEW u \in States, NEW t \in Tags, TimerFire(u, t) PROVE TypeInv'
  BY <1>22 DEF TimerFire
<1>23. ASSUME NEW u \in States, NEW t \in Tags, TimerTake(u, t) PROVE TypeInv'
  BY <1>23 DEF TimerTake
<1>24. ASSUME NEW u \in States, NEW t \in Tags, TimerNack(u, t) PROVE TypeInv'
  BY <1>24, RequeueType DEF TimerNack
<1>25. ASSUME NEW u \in States, NEW m \in Msgs, BrokerDeliver(u, m) PROVE TypeInv'
  BY <1>25 DEF BrokerDeliver
<1>26. ASSUME ProcessStops, faults' \in {faults, faults + 1}, panicked' \in BOOLEAN
      PROVE TypeInv'
  BY <1>26 DEF ProcessStops, AllHeld, Held, Reader, Idle
<1>27. ASSUME NEW u \in States, AwaitReceiptPanic(u) PROVE TypeInv'
  BY <1>26, <1>27 DEF AwaitReceiptPanic
<1>28. CASE BrokerLoss
  BY <1>28 DEF BrokerLoss, AllHeld, Held
<1>31. ASSUME NEW m \in Msgs, Expire(m) PROVE TypeInv'
  BY <1>31 DEF Expire
<1>32. ASSUME NEW u \in States, ConsumeFails(u) PROVE TypeInv'
  BY <1>32 DEF ConsumeFails, Idle
<1>33. ASSUME NEW u \in States, ChannelClosed(u) PROVE TypeInv'
  BY <1>33 DEF ChannelClosed, Held
<1>29. CASE Crash
  BY <1>26, <1>29 DEF Crash
<1>30. CASE UNCHANGED vars
  BY <1>30 DEF vars
<1>. QED
  BY <1>1, <1>2, <1>3, <1>4, <1>5, <1>6, <1>7, <1>8, <1>9, <1>10, <1>11, <1>12, <1>13, <1>14, <1>15, <1>16, <1>17, <1>18, <1>19, <1>20, <1>21, <1>22, <1>23, <1>24, <1>25, <1>26, <1>27, <1>28, <1>29, <1>30, <1>31, <1>32, <1>33 DEF Next, ConnStep, ConsumerStep, TimerStep

\* The connection manager never leaves the types its state is declared with:
\* every tag it keeps is one of its channel, every owner of one exists.
THEOREM TypeCorrect == Spec => []TypeOK
<1>1. TypeInv => TypeOK
  BY DEF TypeInv
<1>. QED
  BY TypeInit, TypeNext, <1>1, PTL DEF Spec

-----------------------------------------------------------------------------
(* SettledOnce is not inductive: it does not say that what a pending entry *)
(* holds is a delivery with the entry's identifier (so that two entries    *)
(* never hold one tag), nor that everything pushed and not yet taken is    *)
(* unacked (so that the next delivery taken is), nor that a userState that *)
(* was never allocated owns nothing.                                       *)

PendingOK(u) ==
    \A i \in Ids : pending[u][i] # 0 =>
        /\ pending[u][i] \in unacked[u] /\ pending[u][i] <= taken[u]
        /\ MsgId[delivered[u][pending[u][i]]] = i

NackingOK(u) ==
    \A t \in nacking[u] :
        t \in unacked[u] /\ t <= taken[u] /\ \A i \in Ids : pending[u][i] # t

AckingOK(u) ==
    \A c \in Conns, t \in Tags : Acks(c, u, t) =>
        /\ t \in unacked[u] /\ t <= taken[u] /\ t \notin nacking[u]
        /\ \A i \in Ids : pending[u][i] # t
        /\ \A d \in Conns : Acks(d, u, t) => d = c

InHandOK(u) ==
    work[u].pc = "writing" =>
        /\ work[u].tag \in unacked[u] /\ work[u].tag \notin nacking[u]
        /\ \A i \in Ids : pending[u][i] # work[u].tag
        /\ \A c \in Conns : ~Acks(c, u, work[u].tag)

UntakenOK(u) ==
    \A t \in 1 .. Len(delivered[u]) : t > taken[u] => t \in unacked[u]

OwnersOK(u) == PendingOK(u) /\ NackingOK(u) /\ AckingOK(u) /\ InHandOK(u) /\ UntakenOK(u)

OwnsNothing(u) ==
    /\ work[u].pc = "unused" /\ taken[u] = 0 /\ delivered[u] = <<>>
    /\ nacking[u] = {} /\ \A i \in Ids : pending[u][i] = 0
    /\ \A c \in Conns : ~(rd[c].pc = "acking" /\ rd[c].us = u)

Settled(u) ==
    /\ ch[u] = "open" => OwnersOK(u)
    /\ ch[u] = "unused" => OwnsNothing(u)

SettleInv == \A u \in States : Settled(u)

LEMMA SettleInit == Init => SettleInv
  BY DEF Init, SettleInv, Settled, OwnersOK, OwnsNothing, Idle, Reader

\* A step that leaves the tags of a userState with the owners they have.
KeepsChannel(u) ==
    ch'[u] = ch[u] /\ delivered'[u] = delivered[u] /\ unacked'[u] = unacked[u]
KeepsTable(u) == pending'[u] = pending[u] /\ nacking'[u] = nacking[u]
KeepsHand(u) ==
    /\ taken'[u] = taken[u]
    /\ work'[u].pc = "writing" => work[u].pc = "writing" /\ work'[u].tag = work[u].tag
    /\ work[u].pc = "unused" => work'[u].pc = "unused"
KeepsReceipts(u) ==
    \A c \in Conns : rd'[c].pc = "acking" /\ rd'[c].us = u => rd'[c] = rd[c]
Keeps(u) == KeepsChannel(u) /\ KeepsTable(u) /\ KeepsHand(u) /\ KeepsReceipts(u)

LEMMA KeepsSettled ==
  ASSUME TypeInv, SettleInv, NEW u \in States, Keeps(u)
  PROVE  Settled(u)'
(* First the steps that only drop owners (Keeps), and those that hand a  *)
(* tag from one owner to another, conjunct by conjunct.                  *)
<1> USE DEF Keeps, KeepsChannel, KeepsTable, KeepsHand, KeepsReceipts
<1>1. \A c \in Conns, t \in Tags : Acks(c, u, t)' => Acks(c, u, t)
  BY DEF Acks
<1>2. ASSUME ch[u] = "open" PROVE OwnersOK(u)'
  <2>0. OwnersOK(u)
    BY <1>2 DEF SettleInv, Settled
  <2>1. PendingOK(u)'
    BY <2>0 DEF OwnersOK, PendingOK
  <2>2. NackingOK(u)'
    BY <2>0 DEF OwnersOK, NackingOK
  <2>3. AckingOK(u)'
    BY <1>1, <2>0 DEF OwnersOK, AckingOK
  <2>4. work'[u].pc = "writing" => work'[u].tag \in Tags
    BY <2>0 DEF TypeInv, TypeOK, WellFormed, WellFormedState, WorkType, Tags
  <2>5. InHandOK(u)'
    BY <1>1, <2>0, <2>4 DEF OwnersOK, InHandOK
  <2>6. UntakenOK(u)'
    BY <2>0 DEF OwnersOK, UntakenOK
  <2>. QED
    BY <2>1, <2>2, <2>3, <2>5, <2>6 DEF OwnersOK
<1>3. ASSUME ch[u] = "unused" PROVE OwnsNothing(u)'
  BY <1>3 DEF SettleInv, Settled, OwnsNothing
<1>. QED
  BY <1>2, <1>3 DEF Settled

LEMMA SettleNext == TypeInv /\ SettleInv /\ [Next]_vars => SettleInv'
<1> SUFFICES ASSUME TypeInv, SettleInv, [Next]_vars PROVE SettleInv'
  OBVIOUS
<1>0. ASSUME \A v \in States : Keeps(v) PROVE SettleInv'
  BY <1>0, KeepsSettled DEF SettleInv
<1>t. /\ taken \in [States -> Tags \cup {0}] /\ work \in [States -> WorkType]
      /\ rd \in [Conns -> ReaderType] /\ pending \in [States -> [Ids -> Tags \cup {0}]]
      /\ nacking \in [States -> SUBSET Tags] /\ unacked \in [States -> SUBSET Tags]
      /\ ch \in [States -> {"unused", "open", "dead", "nil"}]
      /\ delivered \in [States -> Seq(Msgs)]
  BY DEF TypeInv, TypeOK
<1>w. \A u \in States : /\ WellFormedState(u)
                        /\ ch[u] = "open" => OwnersOK(u)
                        /\ ch[u] = "unused" => OwnsNothing(u)
  BY DEF TypeInv, WellFormed, SettleInv, Settled
<1>s. ASSUME NEW u \in States, Settled(u)', \A v \in States : v # u => Keeps(v)
      PROVE  SettleInv'
  BY <1>s, KeepsSettled DEF SettleInv
<1> USE DEF Keeps, KeepsChannel, KeepsTable, KeepsHand, KeepsReceipts,
            connVars, consumerVars, ackVars, brokerVars, historyVars
<1>1. ASSUME NEW c \in Conns, RegisterCreate(c) PROVE SettleInv'
  <2>1. PICK u \in States :
           /\ ch[u] = "unused" /\ ch' = [ch EXCEPT ![u] = "open"]
           /\ work' = [work EXCEPT ![u] = Idle("starting")]
           /\ UNCHANGED <<rd, taken, pending, nacking, delivered, unacked>>
    BY <1>1 DEF RegisterCreate
  <2>2. OwnsNothing(u) /\ ch'[u] = "open" /\ work'[u].pc = "starting"
    BY <2>1, <1>t, <1>w DEF Idle
  <2>3. OwnersOK(u)'
    BY <2>1, <2>2 DEF OwnsNothing, OwnersOK, PendingOK, NackingOK, AckingOK, InHandOK, UntakenOK, Acks
  <2>4. \A v \in States : v # u => Keeps(v)
    BY <2>1, <1>t
  <2>. QED
    BY <1>s, <2>2, <2>3, <2>4 DEF Settled
<1>2. ASSUME NEW c \in Conns, RegisterJoin(c) PROVE SettleInv'
  BY <1>0, <1>2, <1>t DEF RegisterJoin, Reader
<1>3. ASSUME NEW c \in Conns, RegisterFail(c) PROVE SettleInv'
  BY <1>0, <1>3, <1>t DEF RegisterFail, Reader
<1>4. ASSUME NEW c \in Conns, SocketBreak(c) PROVE SettleInv'
  BY <1>0, <1>4 DEF SocketBreak
<1>5. ASSUME NEW c \in Conns, NEW i \in Ids, ReceiptRead(c, i) PROVE SettleInv'
  BY <1>0, <1>5, <1>t DEF ReceiptRead, Reader, Receipt
<1>6. ASSUME NEW c \in Conns, ReceiptTake(c) PROVE SettleInv'
  <2>1. /\ rd[c].us \in States /\ rd[c].id \in Ids
        /\ pending[rd[c].us][rd[c].id] \in Tags \cup {0}
    BY <1>6, <1>t DEF ReceiptTake, TypeInv, WellFormed, WellFormedReader
  <2>2. PICK w \in States, i \in Ids, t \in Tags \cup {0} :
           /\ t = pending[w][i] /\ pending' = [pending EXCEPT ![w][i] = 0]
           /\ t # 0 => rd' = [rd EXCEPT ![c] = Receipt("acking", w, i, t)]
           /\ t = 0 => rd' = [rd EXCEPT ![c] = Reader("reading")]
           /\ UNCHANGED <<work, taken, nacking, ch, delivered, unacked>>
    BY <1>6, <2>1 DEF ReceiptTake
  <2>3. \A j \in Ids : pending'[w][j] = IF j = i THEN 0 ELSE pending[w][j]
    BY <2>2, <1>t
  <2>4. \A d \in Conns, v \in States, s \in Tags : Acks(d, v, s)' => Acks(d, v, s) \/ (d = c /\ v = w /\ s = t)
    BY <2>2, <1>t DEF Acks, Reader, Receipt
  <2>5. \A v \in States : v # w => Keeps(v)
    BY <2>2, <1>t DEF Reader, Receipt
  <2>6. ASSUME ch[w] = "open" PROVE OwnersOK(w)'
    <3>0. OwnersOK(w) /\ taken[w] \in Nat
      BY <2>6, <1>t, <1>w DEF Tags
    <3>1. t # 0 => /\ t \in unacked[w] /\ t <= taken[w] /\ MsgId[delivered[w][t]] = i
                   /\ t \notin nacking[w] /\ \A d \in Conns : ~Acks(d, w, t)
      BY <2>2, <3>0 DEF OwnersOK, PendingOK, NackingOK, AckingOK
    <3>2. t # 0 => \A j \in Ids : pending'[w][j] # t
      BY <2>3, <3>0, <3>1 DEF OwnersOK, PendingOK
    <3>3. \A s \in Tags : s # 0
      BY DEF Tags
    <3>4. PendingOK(w)'
      BY <2>2, <2>3, <3>0 DEF OwnersOK, PendingOK
    <3>5. NackingOK(w)'
      BY <2>2, <2>3, <3>0, <3>3, <1>t DEF OwnersOK, NackingOK
    <3>6. AckingOK(w)'
      BY <2>2, <2>3, <2>4, <3>0, <3>1, <3>2, <3>3 DEF OwnersOK, AckingOK
    <3>7. InHandOK(w)'
      <4>1. work[w].pc = "writing" => work[w].tag \in Tags /\ work[w].tag # t
        BY <2>2, <3>0, <1>t, <1>w DEF OwnersOK, InHandOK, WellFormedState, Tags
      <4>. QED
        BY <2>2, <2>3, <2>4, <3>0, <3>3, <4>1 DEF OwnersOK, InHandOK
    <3>8. UntakenOK(w)'
      BY <2>2, <3>0 DEF OwnersOK, UntakenOK
    <3>. QED
      BY <3>4, <3>5, <3>6, <3>7, <3>8 DEF OwnersOK
  <2>7. ASSUME ch[w] = "unused" PROVE OwnsNothing(w)'
    <3>1. OwnsNothing(w) /\ t = 0
      BY <2>2, <2>7, <1>w DEF OwnsNothing
    <3>2. rd' = [rd EXCEPT ![c] = Reader("reading")] /\ Reader("reading").pc # "acking"
      BY <2>2, <3>1 DEF Reader
    <3>3. \A d \in Conns : rd'[d].pc = "acking" => rd'[d] = rd[d]
      BY <3>2, <1>t
    <3>. QED
      BY <2>2, <2>3, <3>1, <3>3 DEF OwnsNothing
  <2>. QED
    BY <1>s, <2>2, <2>5, <2>6, <2>7 DEF Settled
<1>8. ASSUME NEW c \in Conns, Unregister(c) PROVE SettleInv'
  <2>1. PICK new \in {Reader("gone"), Cleaner("cancel", clients)} :
           rd' = [rd EXCEPT ![c] = new]
    BY <1>8 DEF Unregister
  <2>2. \A d \in Conns : rd'[d].pc = "acking" => rd'[d] = rd[d]
    BY <2>1, <1>t DEF Reader, Cleaner
  <2>. QED
    BY <1>0, <1>8, <2>2 DEF Unregister
<1>9. ASSUME NEW c \in Conns, CleanupCancel(c) PROVE SettleInv'
  BY <1>0, <1>9, <1>t DEF CleanupCancel, Cleaner
<1>11. ASSUME NEW c \in Conns, CleanupClose(c) PROVE SettleInv'
  <2> DEFINE w == rd[c].us
  <2>1. /\ w \in States /\ ch' = [ch EXCEPT ![w] = "nil"]
        /\ unacked' = [unacked EXCEPT ![w] = {}] /\ rd' = [rd EXCEPT ![c] = Reader("gone")]
        /\ UNCHANGED <<work, taken, nacking, pending, delivered>>
    BY <1>11 DEF CleanupClose, TypeInv, WellFormed, WellFormedReader
  <2>2. \A v \in States : v # w => Keeps(v)
    BY <2>1, <1>t DEF Reader
  <2>3. ch'[w] = "nil"
    BY <2>1, <1>t
  <2>. QED
    BY <1>s, <2>1, <2>2, <2>3 DEF Settled
<1>12. ASSUME NEW u \in States, ConsumerStart(u) PROVE SettleInv'
  <2>1. PICK pc \in {"waiting", "failed"} : work' = [work EXCEPT ![u] = Idle(pc)]
    BY <1>12 DEF ConsumerStart
  <2>2. \A v \in States : work'[v].pc = "writing" => work'[v] = work[v]
    BY <2>1, <1>t DEF Idle
  <2>3. \A v \in States : work[v].pc = "unused" => work'[v].pc = "unused"
    BY <1>12, <2>1, <1>t DEF ConsumerStart
  <2>. QED
    BY <1>0, <1>12, <2>2, <2>3 DEF ConsumerStart
<1>13. ASSUME NEW u \in States, ConsumerExit(u) PROVE SettleInv'
  BY <1>0, <1>13, <1>t DEF ConsumerExit, Idle
<1>17. ASSUME NEW u \in States, NEW c \in Conns, WriteOk(u, c) PROVE SettleInv'
  BY <1>0, <1>17, <1>t DEF WriteOk, Writing
<1>18. ASSUME NEW u \in States, NEW c \in Conns, WriteFail(u, c) PROVE SettleInv'
  BY <1>0, <1>18, <1>t DEF WriteFail, Writing
<1>22. ASSUME NEW u \in States, NEW t \in Tags, TimerFire(u, t) PROVE SettleInv'
  BY <1>0, <1>22 DEF TimerFire
<1>i. ASSUME NEW u \in States, Written(u)
      PROVE  /\ ch[u] # "unused" /\ work[u].tag = taken[u] /\ taken[u] \in Tags
             /\ ch[u] = "open" =>
                   /\ OwnersOK(u) /\ taken[u] \in unacked[u] /\ taken[u] \notin nacking[u]
                   /\ \A i \in Ids : pending[u][i] # taken[u]
                   /\ \A c \in Conns : ~Acks(c, u, taken[u])
  <2>1. work[u].pc = "writing"
    BY <1>i DEF Written
  <2>2. work[u].tag = taken[u] /\ taken[u] \in Tags
    BY <2>1, <1>t, <1>w DEF WellFormedState
  <2>3. ch[u] # "unused"
    BY <2>1, <1>w DEF OwnsNothing
  <2>. QED
    BY <2>1, <2>2, <2>3, <1>w DEF OwnersOK, InHandOK
<1>21. ASSUME NEW u \in States, AwaitReceipt(u) PROVE SettleInv'
  <2> DEFINE t == taken[u]
             id == MsgId[InHand(u)]
  <2>1. /\ Written(u) /\ pending' = [pending EXCEPT ![u][id] = work[u].tag]
        /\ work' = [work EXCEPT ![u] = Idle("waiting")]
        /\ UNCHANGED <<rd, taken, nacking, ch, delivered, unacked>>
    BY <1>21 DEF AwaitReceipt
  <2>2. work'[u].pc = "waiting" /\ \A v \in States : v # u => Keeps(v)
    BY <2>1, <1>t DEF Idle
  <2>3. ch[u] # "unused" /\ work[u].tag = t /\ t \in Tags
    BY <1>i, <2>1
  <2>4. id \in Ids /\ MsgId[delivered[u][t]] = id
    <3>1. t \in 1 .. Len(delivered[u]) /\ delivered[u] \in Seq(Msgs)
      BY <2>3, <1>t, <1>w DEF WellFormedState, Tags
    <3>2. delivered[u][t] \in Msgs /\ InHand(u) = delivered[u][t]
      BY <2>3, <3>1 DEF InHand
    <3>. QED
      BY <3>2
  <2>5. \A i \in Ids : pending'[u][i] = IF i = id THEN t ELSE pending[u][i]
    BY <2>1, <2>3, <2>4, <1>t
  <2> HIDE DEF id, t
  <2>6. ASSUME ch[u] = "open" PROVE OwnersOK(u)'
    <3>0. /\ OwnersOK(u) /\ t \in unacked[u] /\ t \notin nacking[u] /\ t <= taken[u]
          /\ \A c \in Conns : ~Acks(c, u, t)
      BY <1>i, <2>1, <2>3, <2>6 DEF t, Tags
    <3>1. PendingOK(u)'
      BY <2>1, <2>4, <2>5, <3>0 DEF OwnersOK, PendingOK
    <3>2. NackingOK(u)'
      BY <2>1, <2>5, <3>0 DEF OwnersOK, NackingOK
    <3>3. AckingOK(u)'
      BY <2>1, <2>5, <3>0 DEF OwnersOK, AckingOK, Acks
    <3>4. InHandOK(u)'
      BY <2>2 DEF InHandOK
    <3>5. UntakenOK(u)'
      BY <2>1, <3>0 DEF OwnersOK, UntakenOK
    <3>. QED
      BY <3>1, <3>2, <3>3, <3>4, <3>5 DEF OwnersOK
  <2>. QED
    BY <1>s, <2>1, <2>2, <2>3, <2>6 DEF Settled
<1>23. ASSUME NEW u \in States, NEW t \in Tags, TimerTake(u, t) PROVE SettleInv'
  <2>1. /\ t \in fired[u] /\ taken[u] \in Nat /\ taken[u] <= Len(delivered[u])
        /\ fired[u] \subseteq 1 .. taken[u] /\ delivered[u] \in Seq(Msgs)
    BY <1>23, <1>t, <1>w DEF TimerTake, WellFormedState, Tags
  <2>2. delivered[u][t] \in Msgs
    <3>1. t \in 1 .. Len(delivered[u])
      BY <2>1
    <3>. QED
      BY <2>1, <3>1
  <2>3. /\ MsgId[delivered[u][t]] \in Ids
        /\ pending[u][MsgId[delivered[u][t]]] \in Tags \cup {0}
    BY <2>2, <1>t
  <2>4. PICK id \in Ids, s \in Tags \cup {0} :
           /\ id = MsgId[delivered[u][t]] /\ s = pending[u][id]
           /\ nacking' = [nacking EXCEPT ![u] = @ \cup ({s} \ {0})]
           /\ pending' = [pending EXCEPT ![u][id] = 0]
           /\ UNCHANGED <<rd, work, taken, ch, delivered, unacked>>
    BY <1>23, <2>3 DEF TimerTake
  <2>5. /\ nacking'[u] = nacking[u] \cup ({s} \ {0})
        /\ \A i \in Ids : pending'[u][i] = IF i = id THEN 0 ELSE pending[u][i]
    BY <2>4, <1>t
  <2>6. \A v \in States : v # u => Keeps(v)
    BY <2>4, <1>t
  <2>7. \A r \in Tags : r # 0
    BY DEF Tags
  <2>8. ASSUME ch[u] = "open" PROVE OwnersOK(u)'
    <3>0. OwnersOK(u)
      BY <2>8, <1>w
    <3>1. s # 0 => s \in unacked[u] /\ s <= taken[u] /\ MsgId[delivered[u][s]] = id
      BY <2>4, <3>0 DEF OwnersOK, PendingOK
    <3>2. s # 0 => \A i \in Ids : pending'[u][i] # s
      <4>1. ASSUME s # 0, NEW i \in Ids, pending'[u][i] = s PROVE FALSE
        <5>1. i # id /\ pending[u][i] = s
          BY <2>5, <4>1
        <5>2. MsgId[delivered[u][s]] = i
          BY <3>0, <4>1, <5>1 DEF OwnersOK, PendingOK
        <5>. QED
          BY <3>1, <4>1, <5>1, <5>2
      <4>. QED
        BY <4>1
    <3>3. s # 0 => \A c \in Conns : ~Acks(c, u, s)
      BY <2>4, <3>0 DEF OwnersOK, AckingOK
    <3>4. work[u].pc = "writing" => work[u].tag \in Tags /\ work[u].tag # s
      BY <2>4, <3>0, <1>t, <1>w DEF OwnersOK, InHandOK, WellFormedState, Tags
    <3>5. PendingOK(u)'
      BY <2>4, <2>5, <3>0 DEF OwnersOK, PendingOK
    <3>6. NackingOK(u)'
      <4>1. \A r \in nacking[u] : r # 0
        BY <2>7, <1>t
      <4>2. \A r \in nacking[u] :
               r \in unacked[u] /\ r <= taken[u] /\ \A i \in Ids : pending[u][i] # r
        BY <3>0 DEF OwnersOK, NackingOK
      <4>3. \A r \in nacking[u] : \A i \in Ids : pending'[u][i] # r
        BY <2>5, <4>1, <4>2
      <4>4. \A r \in nacking'[u] : r \in nacking[u] \/ (r = s /\ s # 0)
        BY <2>5
      <4>. QED
        BY <2>4, <3>1, <3>2, <4>2, <4>3, <4>4 DEF NackingOK
    <3>7. AckingOK(u)'
      <4>1. \A c \in Conns, r \in Tags : Acks(c, u, r)' => Acks(c, u, r) /\ r # s
        BY <2>4, <2>7, <3>3 DEF Acks
      <4>2. \A c \in Conns, r \in Tags : Acks(c, u, r) => Acks(c, u, r)'
        BY <2>4 DEF Acks
      <4>. QED
        BY <2>4, <2>5, <2>7, <3>0, <4>1, <4>2 DEF OwnersOK, AckingOK
    <3>8. InHandOK(u)'
      <4>1. ASSUME work[u].pc = "writing"
            PROVE  /\ work[u].tag \in unacked[u] /\ work[u].tag \notin nacking'[u]
                   /\ \A i \in Ids : pending'[u][i] # work[u].tag
                   /\ \A c \in Conns : ~Acks(c, u, work[u].tag)
        <5>1. work[u].tag \in Tags /\ work[u].tag # s /\ work[u].tag # 0
          BY <2>7, <3>4, <4>1
        <5>. QED
          BY <2>5, <3>0, <4>1, <5>1 DEF OwnersOK, InHandOK
      <4>. QED
        BY <2>4, <4>1 DEF InHandOK, Acks
    <3>9. UntakenOK(u)'
      BY <2>4, <3>0 DEF OwnersOK, UntakenOK
    <3>. QED
      BY <3>5, <3>6, <3>7, <3>8, <3>9 DEF OwnersOK
  <2>9. ch[u] # "unused"
    BY <2>1, <1>w DEF OwnsNothing
  <2>. QED
    BY <1>s, <2>4, <2>6, <2>8, <2>9 DEF Settled
(* Then the steps that settle a tag, take or push a delivery, or stop the *)
(* process: the solver does them with the whole invariant expanded.       *)
<1> USE DEF TypeInv, TypeOK, WellFormed, WellFormedState, WellFormedReader, Tags,
            WorkType, ReaderType, SettleInv, Settled, OwnersOK, OwnsNothing, PendingOK, NackingOK,
            AckingOK, InHandOK, UntakenOK, Acks
<1>7. ASSUME NEW c \in Conns, ReceiptAck(c) PROVE SettleInv'
  <2> DEFINE w == rd[c].us
             s == rd[c].tag
  <2>1. w \in States /\ s \in Tags \cup {0} /\ rd' = [rd EXCEPT ![c] = Reader("reading")]
        /\ UNCHANGED <<work, taken, nacking, pending>> /\ rd[c].pc = "acking"
    BY <1>7 DEF ReceiptAck
  <2>2. CASE ch[w] = "open"
    <3>1. unacked' = [unacked EXCEPT ![w] = @ \ {s}] /\ UNCHANGED <<ch, delivered>>
      BY <1>7, <2>2 DEF ReceiptAck, Ack
    <3>2. \A v \in States, d \in Conns, t \in Tags :
             Acks(d, v, t)' => Acks(d, v, t) /\ (v = w => t # s)
      BY <2>1, <2>2 DEF Reader
    <3>3. s # 0 => Acks(c, w, s)
      BY <2>1
    <3>. QED
      BY <2>1, <3>1, <3>2, <3>3, <2>2 DEF Reader
  <2>3. CASE ch[w] # "open"
    BY <1>7, <2>1, <2>3 DEF ReceiptAck, Ack, Reader
  <2>. QED
    BY <2>2, <2>3
<1>10. ASSUME NEW c \in Conns, CleanupDrop(c) PROVE SettleInv'
  BY <1>10, SMTT(20) DEF CleanupDrop, Cleaner
<1>14. ASSUME NEW u \in States, DeliveryDiscard(u) PROVE SettleInv'
  BY <1>14, SMTT(20) DEF DeliveryDiscard, Receives, Ack
<1>15. ASSUME NEW u \in States, DeliveryOffline(u) PROVE SettleInv'
  BY <1>15, SMTT(20) DEF DeliveryOffline, Receives, Requeue
<1>16. ASSUME NEW u \in States, DeliveryStart(u) PROVE SettleInv'
  <2>1. PICK t \in Tags, m \in Msgs :
           /\ Receives(u, t, m)
           /\ work' = [work EXCEPT ![u] = Writing(t, conns[u], FALSE)]
           /\ UNCHANGED brokerVars
    BY <1>16 DEF DeliveryStart
  <2>0. taken[u] \in Nat /\ Len(delivered[u]) \in Nat
    OBVIOUS
  <2>2. /\ t = taken[u] + 1 /\ t <= Len(delivered[u]) /\ work[u].pc = "waiting"
        /\ taken' = [taken EXCEPT ![u] = t] /\ taken'[u] = t
    <3>1. /\ work[u].pc = "waiting" /\ taken[u] < Len(delivered[u])
          /\ t = taken[u] + 1 /\ taken' = [taken EXCEPT ![u] = t]
      BY <2>1 DEF Receives
    <3>. QED
      BY <2>0, <3>1
  <2>3. UNCHANGED <<rd, pending, nacking, ch, delivered, unacked>>
    BY <2>1 DEF Receives
  <2>4. ASSUME ch[u] = "open" PROVE OwnersOK(u)'
    <3>1. OwnersOK(u) /\ t \in unacked[u]
      BY <2>0, <2>2, <2>4
    <3>2. \A s \in Tags : s <= taken[u] => s # t
      BY <2>0, <2>2
    <3>3. t \notin nacking[u] /\ (\A i \in Ids : pending[u][i] # t)
          /\ \A c \in Conns : ~Acks(c, u, t)
      BY <3>1, <3>2
    <3>4. work'[u].pc = "writing" /\ work'[u].tag = t
      BY <2>1 DEF Writing
    <3>5. InHandOK(u)'
      BY <2>3, <3>1, <3>3, <3>4
    <3>6. UntakenOK(u)'
      BY <2>0, <2>2, <2>3, <3>1
    <3>. QED
      BY <2>0, <2>2, <2>3, <3>1, <3>5, <3>6
  <2>5. \A v \in States : v # u => work'[v] = work[v] /\ taken'[v] = taken[v]
    BY <2>1, <2>2
  <2>6. ASSUME NEW v \in States, v # u
        PROVE  (ch[v] = "open" => OwnersOK(v))' /\ (ch[v] = "unused" => OwnsNothing(v))'
    BY <2>3, <2>5, <2>6
  <2>7. ch[u] # "unused"
    BY <2>2
  <2>. QED
    BY <2>3, <2>4, <2>6, <2>7
<1>19. ASSUME NEW u \in States, NobodyReached(u) PROVE SettleInv'
  BY <1>19, SMTT(20) DEF NobodyReached, Written, Requeue, Idle
<1>20. ASSUME NEW u \in States, NonPayloadForwarded(u) PROVE SettleInv'
  BY <1>20, SMTT(20) DEF NonPayloadForwarded, Written, Ack, Idle
<1>24. ASSUME NEW u \in States, NEW t \in Tags, TimerNack(u, t) PROVE SettleInv'
  BY <1>24, SMTT(20) DEF TimerNack, Requeue
<1>25. ASSUME NEW u \in States, NEW m \in Msgs, BrokerDeliver(u, m) PROVE SettleInv'
  BY <1>25, SMTT(20) DEF BrokerDeliver
<1>26. ASSUME ProcessStops PROVE SettleInv'
  BY <1>26 DEF ProcessStops, Reader, Idle
<1>27. ASSUME NEW u \in States, AwaitReceiptPanic(u) PROVE SettleInv'
  BY <1>26, <1>27 DEF AwaitReceiptPanic
<1>28. CASE BrokerLoss
  BY <1>28 DEF BrokerLoss
<1>31. ASSUME NEW m \in Msgs, Expire(m) PROVE SettleInv'
  BY <1>31 DEF Expire
<1>32. ASSUME NEW u \in States, ConsumeFails(u) PROVE SettleInv'
  BY <1>32, SMTT(20) DEF ConsumeFails, Idle
<1>33. ASSUME NEW u \in States, ChannelClosed(u) PROVE SettleInv'
  BY <1>33, SMTT(20) DEF ChannelClosed
<1>29. CASE Crash
  BY <1>26, <1>29 DEF Crash
<1>30. CASE UNCHANGED vars
  BY <1>30 DEF vars
<1> HIDE DEF TypeInv, TypeOK, WellFormed, WellFormedState, WellFormedReader, Tags,
             WorkType, ReaderType, SettleInv, Settled, OwnersOK, OwnsNothing, PendingOK, NackingOK,
             AckingOK, InHandOK, UntakenOK, Acks,
             Keeps, KeepsChannel, KeepsTable, KeepsHand, KeepsReceipts,
             connVars, consumerVars, ackVars, brokerVars, historyVars
<1>. QED
  BY <1>1, <1>2, <1>3, <1>4, <1>5, <1>6, <1>7, <1>8, <1>9, <1>10, <1>11, <1>12, <1>13, <1>14, <1>15, <1>16, <1>17, <1>18, <1>19, <1>20, <1>21, <1>22, <1>23, <1>24, <1>25, <1>26, <1>27, <1>28, <1>29, <1>30, <1>31, <1>32, <1>33 DEF Next, ConnStep, ConsumerStep, TimerStep

LEMMA SettleImplies == TypeInv /\ SettleInv => SettledOnce
  BY DEF TypeInv, TypeOK, SettleInv, Settled, OwnersOK, PendingOK, NackingOK, AckingOK, InHandOK,
         SettledOnce, Committed, InHandTags, PendingTags, AckingTags, Acks, Tags, WorkType, ReaderType

\* Whatever the order of receipts, timers, cleanups and deliveries, a delivery
\* is acked or nacked at most once on its channel.
THEOREM DeliverySettledOnce == Spec => []SettledOnce
<1>1. Init => TypeInv /\ SettleInv
  BY TypeInit, SettleInit
<1>2. (TypeInv /\ SettleInv) /\ [Next]_vars => (TypeInv /\ SettleInv)'
  BY TypeNext, SettleNext
<1>. QED
  BY <1>1, <1>2, SettleImplies, PTL DEF Spec

-----------------------------------------------------------------------------
(* The life of a userState: who uses it and who cleans it up.              *)

\* The userState in m.clients has a channel and somebody who uses it, and is as
\* it was created: only Unregister's cleanup takes the context and the map, and
\* that is done to a userState that has left m.clients.
ServingOK ==
    clients # NoState =>
        /\ ch[clients] \in {"open", "dead"}
        /\ mu # NoConn \/ conns[clients] # {}
        /\ ~cancelled[clients] /\ ~mapNil[clients]

MuOK == mu # NoConn => clients # NoState /\ rd[mu].pc = "new"

CleaningOK ==
    \A c \in Conns, u \in States : Cleaning(c, u) => clients # u /\ ch[u] \in {"open", "dead"}

FreshOK ==
    \A u \in States : ch[u] = "unused" =>
        ~cancelled[u] /\ ~mapNil[u] /\ work[u].pc = "unused"

\* Its consumer runs, or a fault has taken the channel or refused the consumer.
UpOK ==
    /\ \A u \in States : ch[u] = "dead" => faults > 0
    /\ clients # NoState /\ ch[clients] = "open" =>
          \/ work[clients].pc \in {"starting", "waiting", "writing"}
          \/ work[clients].pc = "failed" /\ faults > 0

LifeInv == ServingOK /\ MuOK /\ CleaningOK /\ FreshOK /\ NoLeakedState /\ UpOK

LEMMA LifeInit == Init => LifeInv
  BY DEF Init, LifeInv, ServingOK, MuOK, CleaningOK, FreshOK, NoLeakedState, UpOK, Cleaning,
         Idle, Reader

\* Steps that change neither who uses a userState nor what it was created with.
LEMMA LifeKept ==
  ASSUME TypeInv, LifeInv, UNCHANGED <<mu, clients, conns, cancelled, mapNil, ch, faults>>,
         \A c \in Conns : rd[c].pc = "new" => rd'[c].pc = "new",
         \A c \in Conns : rd'[c].pc \in {"cancel", "drop", "close"} =>
            rd[c].pc \in {"cancel", "drop", "close"} /\ rd'[c].us = rd[c].us,
         \A c \in Conns : rd[c].pc \in {"cancel", "drop", "close"} =>
            rd'[c].pc \in {"cancel", "drop", "close"},
         \A u \in States : work[u].pc = "unused" => work'[u].pc = "unused",
         \A u \in States : ch[u] = "open" /\ ~cancelled[u]
                    /\ work[u].pc \in {"starting", "waiting", "writing"} =>
            work'[u].pc \in {"starting", "waiting", "writing"},
         \A u \in States : work[u].pc = "failed" => work'[u].pc = "failed"
  PROVE  LifeInv'
<1>1. \A c \in Conns, u \in States : Cleaning(c, u)' <=> Cleaning(c, u)
  BY DEF Cleaning
<1>2. ServingOK' /\ CleaningOK' /\ NoLeakedState'
  BY <1>1 DEF LifeInv, ServingOK, CleaningOK, NoLeakedState
<1>3. MuOK'
  BY DEF LifeInv, MuOK, TypeInv, TypeOK
<1>4. FreshOK'
  BY DEF LifeInv, FreshOK
<1>5. UpOK'
  BY DEF LifeInv, UpOK, ServingOK, TypeInv, TypeOK
<1>. QED
  BY <1>2, <1>3, <1>4, <1>5 DEF LifeInv

LEMMA LifeNext == TypeInv /\ LifeInv /\ [Next]_vars => LifeInv'
<1> SUFFICES ASSUME TypeInv, LifeInv, [Next]_vars PROVE LifeInv'
  OBVIOUS
<1>t. /\ mu \in Conns \cup {NoConn} /\ clients \in States \cup {NoState}
      /\ conns \in [States -> SUBSET Conns] /\ rd \in [Conns -> ReaderType]
      /\ ch \in [States -> {"unused", "open", "dead", "nil"}] /\ work \in [States -> WorkType]
      /\ faults \in Nat
  BY DEF TypeInv, TypeOK
<1>f. cancelled \in [States -> BOOLEAN] /\ mapNil \in [States -> BOOLEAN]
  BY DEF TypeInv, TypeOK
<1>r. \A c \in Conns : rd[c].pc \in {"receipt", "acking", "cancel", "drop", "close"} => rd[c].us \in States
  BY DEF TypeInv, WellFormed, WellFormedReader
<1> USE DEF connVars, consumerVars, ackVars, brokerVars, historyVars
<1>1. ASSUME NEW c \in Conns, RegisterCreate(c) PROVE LifeInv'
  <2>1. PICK u \in States :
           /\ ch[u] = "unused" /\ ch' = [ch EXCEPT ![u] = "open"]
           /\ work' = [work EXCEPT ![u] = Idle("starting")] /\ clients' = u
           /\ mu' = c /\ clients = NoState /\ rd[c].pc = "new"
           /\ UNCHANGED <<conns, rd, cancelled, mapNil, faults>>
    BY <1>1 DEF RegisterCreate
  <2>2. ch'[u] = "open" /\ work'[u].pc = "starting"
        /\ \A v \in States : v # u => ch'[v] = ch[v] /\ work'[v] = work[v]
    BY <2>1, <1>t DEF Idle
  <2>3. \A d \in Conns, v \in States : Cleaning(d, v)' <=> Cleaning(d, v)
    BY <2>1 DEF Cleaning
  <2>4. \A d \in Conns : ~Cleaning(d, u)
    BY <2>1 DEF LifeInv, CleaningOK
  <2>5. ServingOK' /\ MuOK' /\ FreshOK'
    BY <2>1, <2>2, <1>t DEF LifeInv, ServingOK, MuOK, FreshOK
  <2>6. CleaningOK' /\ NoLeakedState'
    BY <2>1, <2>2, <2>3, <2>4, <1>t DEF LifeInv, CleaningOK, NoLeakedState
  <2>7. UpOK'
    BY <2>1, <2>2 DEF LifeInv, UpOK
  <2>. QED
    BY <2>5, <2>6, <2>7 DEF LifeInv
<1>2. ASSUME NEW c \in Conns, RegisterJoin(c) PROVE LifeInv'
  <2>1. /\ clients # NoState /\ conns' = [conns EXCEPT ![clients] = @ \cup {c}]
        /\ rd' = [rd EXCEPT ![c] = Reader("reading")] /\ mu' = NoConn /\ rd[c].pc = "new"
        /\ UNCHANGED <<clients, cancelled, mapNil, ch, work, faults>>
    BY <1>2 DEF RegisterJoin
  <2>2. \A d \in Conns, v \in States : Cleaning(d, v)' <=> Cleaning(d, v)
    BY <2>1, <1>t DEF Cleaning, Reader
  <2>3. conns'[clients] # {} /\ \A v \in States : v # clients => conns'[v] = conns[v]
    BY <2>1, <1>t
  <2>4. ServingOK' /\ MuOK' /\ FreshOK'
    BY <2>1, <2>3, <1>t DEF LifeInv, ServingOK, MuOK, FreshOK
  <2>5. CleaningOK' /\ NoLeakedState' /\ UpOK'
    BY <2>1, <2>2, <2>3, <1>t DEF LifeInv, CleaningOK, NoLeakedState, UpOK
  <2>. QED
    BY <2>4, <2>5 DEF LifeInv
<1>3. ASSUME NEW c \in Conns, RegisterFail(c) PROVE LifeInv'
  <2>1. /\ rd' = [rd EXCEPT ![c] = Reader("reading")] /\ mu = NoConn /\ rd[c].pc = "new"
        /\ UNCHANGED <<mu, clients, conns, cancelled, mapNil, ch, work, faults>>
    BY <1>3 DEF RegisterFail
  <2>2. \A d \in Conns, v \in States : Cleaning(d, v)' <=> Cleaning(d, v)
    BY <2>1, <1>t DEF Cleaning, Reader
  <2>. QED
    BY <2>1, <2>2, <1>t DEF LifeInv, ServingOK, MuOK, FreshOK, CleaningOK, NoLeakedState, UpOK
<1>4. ASSUME NEW c \in Conns, SocketBreak(c) PROVE LifeInv'
  BY <1>4, LifeKept DEF SocketBreak
<1>5. ASSUME NEW c \in Conns, NEW i \in Ids, ReceiptRead(c, i) PROVE LifeInv'
  BY <1>5, <1>t, LifeKept DEF ReceiptRead, Reader, Receipt
<1>6. ASSUME NEW c \in Conns, ReceiptTake(c) PROVE LifeInv'
  BY <1>6, <1>t, LifeKept DEF ReceiptTake, Reader, Receipt
<1>7. ASSUME NEW c \in Conns, ReceiptAck(c) PROVE LifeInv'
  BY <1>7, <1>t, LifeKept DEF ReceiptAck, Ack, Reader
<1>8. ASSUME NEW c \in Conns, Unregister(c) PROVE LifeInv'
  <2> DEFINE rest == conns[clients] \ {c}
  <2>0. /\ mu = NoConn /\ rd[c].pc = "reading"
        /\ UNCHANGED <<mu, cancelled, mapNil, ch, work, faults>>
    BY <1>8 DEF Unregister, Leaving
  <2>1. CASE clients = NoState \/ rest # {}
    <3>1. /\ rd' = [rd EXCEPT ![c] = Reader("gone")] /\ UNCHANGED clients
          /\ clients # NoState => conns' = [conns EXCEPT ![clients] = rest]
          /\ clients = NoState => UNCHANGED conns
      BY <1>8, <2>1 DEF Unregister
    <3>2. \A d \in Conns, v \in States : Cleaning(d, v)' <=> Cleaning(d, v)
      BY <2>0, <3>1, <1>t DEF Cleaning, Reader
    <3>3. (clients # NoState => conns'[clients] # {})
          /\ \A v \in States : v # clients => conns'[v] = conns[v]
      BY <2>1, <3>1, <1>t
    <3>4. ServingOK' /\ MuOK' /\ FreshOK'
      BY <2>0, <3>1, <3>3, <1>t DEF LifeInv, ServingOK, MuOK, FreshOK
    <3>5. CleaningOK' /\ NoLeakedState' /\ UpOK'
      BY <2>0, <3>1, <3>2, <3>3, <1>t DEF LifeInv, CleaningOK, NoLeakedState, UpOK
    <3>. QED
      BY <3>4, <3>5 DEF LifeInv
  <2>2. CASE clients # NoState /\ rest = {}
    <3>1. /\ rd' = [rd EXCEPT ![c] = Cleaner("cancel", clients)] /\ clients' = NoState
      BY <1>8, <2>2 DEF Unregister
    <3>2. \A d \in Conns, v \in States :
             Cleaning(d, v)' <=> Cleaning(d, v) \/ (d = c /\ v = clients)
      BY <2>0, <3>1, <1>t DEF Cleaning, Cleaner
    <3>3. ServingOK' /\ MuOK' /\ FreshOK' /\ UpOK'
      BY <2>0, <3>1 DEF LifeInv, ServingOK, MuOK, FreshOK, UpOK
    <3>4. CleaningOK'
      BY <2>0, <2>2, <3>1, <3>2 DEF LifeInv, CleaningOK, ServingOK
    <3>5. NoLeakedState'
      BY <2>0, <2>2, <3>1, <3>2 DEF LifeInv, NoLeakedState, CleaningOK
    <3>. QED
      BY <3>3, <3>4, <3>5 DEF LifeInv
  <2>. QED
    BY <2>1, <2>2
\* A userState that is being cleaned up is not the one in m.clients.
<1>c. ASSUME NEW c \in Conns, rd[c].pc \in {"cancel", "drop", "close"}
      PROVE  /\ rd[c].us \in States /\ Cleaning(c, rd[c].us)
             /\ clients # rd[c].us /\ ch[rd[c].us] \in {"open", "dead"}
  BY <1>c, <1>r DEF LifeInv, CleaningOK, Cleaning
<1>9. ASSUME NEW c \in Conns, CleanupCancel(c) PROVE LifeInv'
  <2> DEFINE w == rd[c].us
  <2>1. /\ cancelled' = [cancelled EXCEPT ![w] = TRUE]
        /\ rd' = [rd EXCEPT ![c] = Cleaner("drop", w)] /\ rd[c].pc = "cancel"
        /\ UNCHANGED <<mu, clients, conns, mapNil, ch, work, faults>>
    BY <1>9 DEF CleanupCancel
  <2>2. w \in States /\ clients # w /\ ch[w] \in {"open", "dead"}
    BY <1>c, <2>1
  <2>3. \A d \in Conns, v \in States : Cleaning(d, v)' <=> Cleaning(d, v)
    BY <2>1, <1>t DEF Cleaning, Cleaner
  <2>4. \A v \in States : v # w => cancelled'[v] = cancelled[v]
    BY <2>1, <1>f
  <2> HIDE DEF w
  <2>5. ServingOK' /\ FreshOK'
    BY <2>1, <2>2, <2>4, <1>t DEF LifeInv, ServingOK, FreshOK
  <2>6. MuOK' /\ CleaningOK' /\ NoLeakedState' /\ UpOK'
    BY <2>1, <2>3, <1>t DEF LifeInv, MuOK, CleaningOK, NoLeakedState, UpOK
  <2>. QED
    BY <2>5, <2>6 DEF LifeInv
<1>10. ASSUME NEW c \in Conns, CleanupDrop(c) PROVE LifeInv'
  <2> DEFINE w == rd[c].us
  <2>1. /\ mapNil' = [mapNil EXCEPT ![w] = TRUE]
        /\ rd' = [rd EXCEPT ![c] = Cleaner("close", w)] /\ rd[c].pc = "drop"
        /\ UNCHANGED <<mu, clients, conns, cancelled, ch, work, faults>>
    BY <1>10 DEF CleanupDrop
  <2>2. w \in States /\ clients # w /\ ch[w] \in {"open", "dead"}
    BY <1>c, <2>1
  <2>3. \A d \in Conns, v \in States : Cleaning(d, v)' <=> Cleaning(d, v)
    BY <2>1, <1>t DEF Cleaning, Cleaner
  <2>4. \A v \in States : v # w => mapNil'[v] = mapNil[v]
    BY <2>1, <1>f
  <2> HIDE DEF w
  <2>5. ServingOK' /\ FreshOK'
    BY <2>1, <2>2, <2>4, <1>t DEF LifeInv, ServingOK, FreshOK
  <2>6. MuOK' /\ CleaningOK' /\ NoLeakedState' /\ UpOK'
    BY <2>1, <2>3, <1>t DEF LifeInv, MuOK, CleaningOK, NoLeakedState, UpOK
  <2>. QED
    BY <2>5, <2>6 DEF LifeInv
<1>11. ASSUME NEW c \in Conns, CleanupClose(c) PROVE LifeInv'
  <2> DEFINE w == rd[c].us
  <2>1. /\ ch' = [ch EXCEPT ![w] = "nil"] /\ rd' = [rd EXCEPT ![c] = Reader("gone")]
        /\ rd[c].pc = "close"
        /\ UNCHANGED <<mu, clients, conns, cancelled, mapNil, work, faults>>
    BY <1>11 DEF CleanupClose
  <2>2. w \in States /\ Cleaning(c, w) /\ clients # w /\ ch[w] \in {"open", "dead"}
    BY <1>c, <2>1
  <2>3. \A d \in Conns, v \in States : Cleaning(d, v)' <=> Cleaning(d, v) /\ d # c
    BY <2>1, <1>t DEF Cleaning, Reader
  <2>4. ch'[w] = "nil" /\ \A v \in States : v # w => ch'[v] = ch[v]
    BY <2>1, <2>2, <1>t
  <2>5. \A d \in Conns : Cleaning(d, w) => d = c
    BY <2>2 DEF LifeInv, NoLeakedState
  <2>6. \A v \in States : Cleaning(c, v) => v = w
    BY DEF Cleaning
  <2> HIDE DEF w
  <2>7. ServingOK' /\ FreshOK' /\ MuOK' /\ UpOK'
    BY <2>1, <2>2, <2>4, <1>t DEF LifeInv, ServingOK, FreshOK, MuOK, UpOK, Reader
  <2>8. CleaningOK' /\ NoLeakedState'
    BY <2>1, <2>2, <2>3, <2>4, <2>5, <2>6 DEF LifeInv, CleaningOK, NoLeakedState
  <2>. QED
    BY <2>7, <2>8 DEF LifeInv
<1>12. ASSUME NEW u \in States, ConsumerStart(u) PROVE LifeInv'
  BY <1>12, <1>t, LifeKept DEF ConsumerStart, Idle
<1>13. ASSUME NEW u \in States, ConsumerExit(u) PROVE LifeInv'
  BY <1>13, <1>t, LifeKept DEF ConsumerExit, Idle
<1>14. ASSUME NEW u \in States, DeliveryDiscard(u) \/ DeliveryOffline(u) PROVE LifeInv'
  BY <1>14, LifeKept DEF DeliveryDiscard, DeliveryOffline, Receives, Ack, Requeue
<1>16. ASSUME NEW u \in States, DeliveryStart(u) PROVE LifeInv'
  BY <1>16, <1>t, LifeKept DEF DeliveryStart, Receives, Writing
<1>17. ASSUME NEW u \in States, NEW c \in Conns, WriteOk(u, c) \/ WriteFail(u, c) PROVE LifeInv'
  BY <1>17, <1>t, LifeKept DEF WriteOk, WriteFail, Writing
<1>19. ASSUME NEW u \in States, NobodyReached(u) \/ NonPayloadForwarded(u) \/ AwaitReceipt(u)
       PROVE  LifeInv'
  BY <1>19, <1>t, LifeKept DEF NobodyReached, NonPayloadForwarded, AwaitReceipt, Written, Ack,
     Requeue, Idle
<1>22. ASSUME NEW u \in States, NEW t \in Tags, TimerStep(u, t) PROVE LifeInv'
  BY <1>22, LifeKept DEF TimerStep, TimerFire, TimerTake, TimerNack, Requeue
<1>25. ASSUME NEW u \in States, NEW m \in Msgs, BrokerDeliver(u, m) PROVE LifeInv'
  BY <1>25, LifeKept DEF BrokerDeliver
<1>26. ASSUME ProcessStops PROVE LifeInv'
  <2>1. /\ mu' = NoConn /\ clients' = NoState
        /\ rd' = [c \in Conns |-> Reader(IF rd[c].pc = "new" /\ mu # c THEN "new" ELSE "gone")]
        /\ ch' = [u \in States |-> IF ch[u] = "unused" THEN "unused" ELSE "nil"]
        /\ work' = [u \in States |-> Idle(IF ch[u] = "unused" THEN "unused" ELSE "exited")]
        /\ UNCHANGED <<cancelled, mapNil>>
    BY <1>26 DEF ProcessStops
  <2>2. \A d \in Conns, v \in States : ~Cleaning(d, v)'
    BY <2>1 DEF Cleaning, Reader
  <2>3. ServingOK' /\ MuOK' /\ CleaningOK' /\ NoLeakedState' /\ UpOK'
    BY <2>1, <2>2 DEF ServingOK, MuOK, CleaningOK, NoLeakedState, UpOK
  <2>4. FreshOK'
    BY <2>1 DEF LifeInv, FreshOK, Idle
  <2>. QED
    BY <2>3, <2>4 DEF LifeInv
\* A fault closes channels or ends a consumer that was about to start.
<1>27. ASSUME faults' = faults + 1, UNCHANGED <<mu, clients, conns, rd, cancelled, mapNil>>,
              \A u \in States : ch'[u] = ch[u] \/ (ch[u] = "open" /\ ch'[u] = "dead"),
              \A u \in States : work'[u] = work[u]
                                \/ (work[u].pc = "starting" /\ work'[u].pc = "failed")
       PROVE  LifeInv'
  <2>1. faults' > 0
    BY <1>27, <1>t
  <2>2. \A d \in Conns, v \in States : Cleaning(d, v)' <=> Cleaning(d, v)
    BY <1>27 DEF Cleaning
  <2>3. ServingOK' /\ MuOK' /\ FreshOK'
    BY <1>27, <1>t DEF LifeInv, ServingOK, MuOK, FreshOK
  <2>4. CleaningOK' /\ NoLeakedState'
    BY <1>27, <2>2, <1>t DEF LifeInv, CleaningOK, NoLeakedState
  <2>5. UpOK'
    BY <1>27, <2>1, <1>t DEF LifeInv, UpOK
  <2>. QED
    BY <2>3, <2>4, <2>5 DEF LifeInv
<1>28. CASE BrokerLoss
  BY <1>27, <1>28, <1>t DEF BrokerLoss
<1>31. ASSUME NEW m \in Msgs, Expire(m) PROVE LifeInv'
  BY <1>31, LifeKept DEF Expire
<1>32. ASSUME NEW u \in States, ConsumeFails(u) PROVE LifeInv'
  BY <1>27, <1>32, <1>t DEF ConsumeFails, Idle
<1>33. ASSUME NEW u \in States, ChannelClosed(u) PROVE LifeInv'
  BY <1>27, <1>33, <1>t DEF ChannelClosed
<1>30. CASE UNCHANGED vars
  BY <1>30, LifeKept DEF vars
<1>. QED
  BY <1>1, <1>2, <1>3, <1>4, <1>5, <1>6, <1>7, <1>8, <1>9, <1>10, <1>11, <1>12, <1>13, <1>14,
     <1>16, <1>17, <1>19, <1>22, <1>25, <1>26, <1>28, <1>30, <1>31, <1>32, <1>33
     DEF Next, ConnStep, ConsumerStep, AwaitReceiptPanic, Crash

LEMMA Life == Spec => [](TypeInv /\ LifeInv)
  BY TypeInit, TypeNext, LifeInit, LifeNext, PTL DEF Spec

\* No channel is leaked and none is shut under a connected device: Register and
\* Unregister hand every userState to exactly one cleanup (connection_manager.go).
THEOREM StatesNotLeaked == Spec => []NoLeakedState
  BY Life, PTL DEF LifeInv

\* The userState in m.clients was touched by no cleanup, and only a fault of its
\* own channel or of its own Consume leaves it without a consumer.
THEOREM OnlineConsumed == Spec => []OnlineIsConsumed
<1>1. TypeInv /\ LifeInv => OnlineIsConsumed
  BY DEF TypeInv, TypeOK, LifeInv, ServingOK, UpOK, OnlineIsConsumed
<1>. QED
  BY <1>1, Life, PTL

LEMMA ServedNext == TypeInv /\ RegisteredIsServed /\ [Next]_vars => RegisteredIsServed'
<1> SUFFICES ASSUME TypeInv, RegisteredIsServed, [Next]_vars PROVE RegisteredIsServed'
  OBVIOUS
<1>t. /\ clients \in States \cup {NoState} /\ conns \in [States -> SUBSET Conns]
      /\ rd \in [Conns -> ReaderType]
  BY DEF TypeInv, TypeOK
<1>f. sock \in [Conns -> BOOLEAN]
  BY DEF TypeInv, TypeOK
<1> DEFINE Read(c) == rd[c].pc \in {"reading", "receipt", "acking"}
\* Steps by which nobody comes to be read and nothing is taken from the connections.
<1>k. ASSUME UNCHANGED <<clients, conns>>, \A c \in Conns : Read(c)' /\ sock'[c] => Read(c) /\ sock[c]
      PROVE  RegisteredIsServed'
  BY <1>k DEF RegisteredIsServed
<1> USE DEF connVars, consumerVars, ackVars, brokerVars, historyVars
<1>1. ASSUME NEW c \in Conns, RegisterCreate(c) PROVE RegisteredIsServed'
  <2>1. clients = NoState /\ UNCHANGED <<rd, sock>>
    BY <1>1 DEF RegisterCreate
  <2>. QED
    BY <2>1 DEF RegisteredIsServed
<1>2. ASSUME NEW c \in Conns, RegisterJoin(c) PROVE RegisteredIsServed'
  <2>1. /\ clients # NoState /\ conns' = [conns EXCEPT ![clients] = @ \cup {c}]
        /\ rd' = [rd EXCEPT ![c] = Reader("reading")] /\ UNCHANGED <<clients, sock>>
    BY <1>2 DEF RegisterJoin
  <2>2. conns'[clients] = conns[clients] \cup {c}
    BY <2>1, <1>t
  <2>3. \A d \in Conns : d # c => rd'[d] = rd[d]
    BY <2>1, <1>t
  <2>. QED
    BY <2>1, <2>2, <2>3 DEF RegisteredIsServed
<1>3. ASSUME NEW c \in Conns, RegisterFail(c) PROVE RegisteredIsServed'
  <2>1. /\ sock' = [sock EXCEPT ![c] = FALSE] /\ rd' = [rd EXCEPT ![c] = Reader("reading")]
        /\ UNCHANGED <<clients, conns>>
    BY <1>3 DEF RegisterFail
  <2>2. ~sock'[c] /\ \A d \in Conns : d # c => rd'[d] = rd[d] /\ sock'[d] = sock[d]
    BY <2>1, <1>t, <1>f
  <2>. QED
    BY <1>k, <2>1, <2>2
<1>4. ASSUME NEW c \in Conns, SocketBreak(c) PROVE RegisteredIsServed'
  BY <1>4, <1>k, <1>f DEF SocketBreak
<1>5. ASSUME NEW c \in Conns, (\E i \in Ids : ReceiptRead(c, i)) \/ ReceiptTake(c) \/ ReceiptAck(c)
      PROVE  RegisteredIsServed'
  <2>1. UNCHANGED <<clients, conns, sock>> /\ Read(c)
    BY <1>5 DEF ReceiptRead, ReceiptTake, ReceiptAck
  <2>2. \A d \in Conns : d # c => rd'[d] = rd[d]
    BY <1>5, <1>t DEF ReceiptRead, ReceiptTake, ReceiptAck
  <2>. QED
    BY <1>k, <2>1, <2>2
\* Who leaves has no socket any more: whoever is read stays.
<1>6. ASSUME NEW c \in Conns, Unregister(c) PROVE RegisteredIsServed'
  <2>0. ~sock[c] /\ UNCHANGED sock
    BY <1>6 DEF Unregister, Leaving
  <2>1. \A d \in Conns : d # c => rd'[d] = rd[d]
    BY <1>6, <1>t DEF Unregister
  <2>2. ASSUME NEW d \in Conns, Read(d)', sock'[d]
        PROVE  clients' # NoState /\ d \in conns'[clients']
    <3>1. d # c /\ clients # NoState /\ d \in conns[clients]
      BY <2>0, <2>1, <2>2 DEF RegisteredIsServed
    <3>2. conns[clients] \ {c} # {}
      BY <3>1
    <3>3. clients' = clients /\ conns' = [conns EXCEPT ![clients] = conns[clients] \ {c}]
      BY <1>6, <3>1, <3>2 DEF Unregister
    <3>. QED
      BY <1>t, <3>1, <3>3
  <2>. QED
    BY <2>2 DEF RegisteredIsServed
<1>7. ASSUME NEW c \in Conns, CleanupCancel(c) \/ CleanupDrop(c) \/ CleanupClose(c)
      PROVE  RegisteredIsServed'
  <2>1. UNCHANGED <<clients, conns, sock>>
    BY <1>7 DEF CleanupCancel, CleanupDrop, CleanupClose
  <2>2. \A d \in Conns : rd'[d].pc \in {"drop", "close", "gone"} \/ rd'[d] = rd[d]
    BY <1>7, <1>t DEF CleanupCancel, CleanupDrop, CleanupClose, Cleaner, Reader
  <2>. QED
    BY <1>k, <2>1, <2>2
<1>8. ASSUME NEW u \in States, NEW c \in Conns, WriteFail(u, c) PROVE RegisteredIsServed'
  BY <1>8, <1>k, <1>f DEF WriteFail
<1>9. ASSUME ProcessStops PROVE RegisteredIsServed'
  BY <1>9 DEF ProcessStops, Reader, RegisteredIsServed
<1>10. CASE UNCHANGED <<clients, conns, sock, rd>>
  BY <1>k, <1>10
<1>11. ASSUME NEW u \in States, ConsumerStep(u) PROVE RegisteredIsServed'
  <2>1. UNCHANGED <<clients, conns, sock, rd>> \/ (\E c \in Conns : WriteFail(u, c)) \/ ProcessStops
    BY <1>11 DEF ConsumerStep, ConsumerStart, ConsumeFails, ConsumerExit, DeliveryDiscard, DeliveryOffline,
       DeliveryStart, Receives, WriteOk, NobodyReached, NonPayloadForwarded, AwaitReceipt,
       AwaitReceiptPanic
  <2>. QED
    BY <1>8, <1>9, <1>10, <2>1
<1>12. ASSUME NEW u \in States, NEW t \in Tags, TimerStep(u, t) PROVE RegisteredIsServed'
  BY <1>10, <1>12 DEF TimerStep, TimerFire, TimerTake, TimerNack
<1>. QED
  BY <1>1, <1>2, <1>3, <1>4, <1>5, <1>6, <1>7, <1>9, <1>10, <1>11, <1>12
     DEF Next, ConnStep, BrokerDeliver, Expire, ChannelClosed, BrokerLoss, Crash, vars

\* A connection that is read belongs to the userState in m.clients, whichever
\* connections register and leave around it.
THEOREM RegisteredServed == Spec => []RegisteredIsServed
<1>1. Init => RegisteredIsServed
  BY DEF Init, RegisteredIsServed, Reader
<1>. QED
  BY <1>1, TypeInit, TypeNext, ServedNext, PTL DEF Spec

-----------------------------------------------------------------------------
(* The connection manager keeps the promise of DeviceQueue: every step of  *)
(* DeviceDelivery is a step of the queue or changes nothing of it.  On the *)
(* way: a message is in one place, and nothing the consumer took is        *)
(* forgotten.                                                              *)

\* A message waits, is gone, or is held by one tag of one channel.
Exclusive ==
    /\ ready \cap done = {}
    /\ \A u \in States : \A t \in unacked[u] : delivered[u][t] \notin ready \cup done
    /\ \A u, v \in States : \A t \in unacked[u], s \in unacked[v] :
          delivered[u][t] = delivered[v][s] => u = v /\ t = s

\* What is known of a tag t under the identifier i in pendingAcks, and of the
\* tag a receipt has taken from there.
EntryOK(u, i, t) ==
    /\ t \in 1 .. Len(delivered[u]) /\ Kind[delivered[u][t]] = "payload"
    /\ MsgId[delivered[u][t]] = i /\ delivered[u][t] \in shown

HandShown(u) == work[u].pc = "writing" /\ work[u].hit => InHand(u) \in shown
EntriesOK(u) ==
    \A i \in Ids : pending[u][i] # 0 =>
        EntryOK(u, i, pending[u][i]) /\ pending[u][i] \in armed[u] \cup fired[u]
ReceiptOK(c) ==
    /\ rd[c].pc \in {"receipt", "acking"} => rd[c].id \in receipted /\ rd[c].id \in Ids
    /\ rd[c].pc = "acking" => EntryOK(rd[c].us, rd[c].id, rd[c].tag)

ShownInv ==
    /\ \A u \in States : HandShown(u) /\ EntriesOK(u)
    /\ \A c \in Conns : ReceiptOK(c)

-----------------------------------------------------------------------------
(* What the steps do to the queue.                                         *)

noted == <<shown, receipted>>

Gone(u, t) ==
    /\ t \in unacked[u] /\ Queue!MayLeave(delivered[u][t])
    /\ unacked' = [unacked EXCEPT ![u] = @ \ {t}]
    /\ done' = done \cup {delivered[u][t]}
    /\ UNCHANGED <<delivered, ready, noted>>

Back(u, t) ==
    /\ t \in unacked[u]
    /\ unacked' = [unacked EXCEPT ![u] = @ \ {t}]
    /\ ready' = ready \cup {delivered[u][t]}
    /\ UNCHANGED <<delivered, done, noted>>

Closed(us) ==
    /\ unacked' = [u \in States |-> IF u \in us THEN {} ELSE unacked[u]]
    /\ ready' = ready \cup UNION {Held(u) : u \in us}
    /\ UNCHANGED <<delivered, done, noted>>

QueueStep ==
    \/ UNCHANGED <<ready, done, delivered, unacked, noted>>
    \/ \E m \in Msgs : shown' = shown \cup {m}
                       /\ UNCHANGED <<ready, done, delivered, unacked, receipted>>
    \/ \E i \in Ids : receipted' = receipted \cup {i}
                      /\ UNCHANGED <<ready, done, delivered, unacked, shown>>
    \/ \E u \in States, m \in Msgs : BrokerDeliver(u, m)
    \/ \E m \in Msgs : Expire(m)
    \/ \E u \in States, t \in Tags : Gone(u, t) \/ Back(u, t)
    \/ \E us \in SUBSET States : Closed(us)

\* A settlement of a tag the channel still holds, or of a channel that is gone.
LEMMA Acked ==
  ASSUME TypeInv, NEW u \in States, NEW t \in Tags, Ack(u, t), UNCHANGED noted,
         ch[u] = "open" => t \in unacked[u] /\ Queue!MayLeave(delivered[u][t])
  PROVE  QueueStep
<1>1. CASE ch[u] = "open"
  <2>1. delivered[u][t] \in Held(u)
    BY <1>1 DEF Held
  <2>2. Gone(u, t)
    BY <1>1, <2>1 DEF Ack, Gone, noted
  <2>. QED
    BY <2>2 DEF QueueStep
<1>2. CASE ch[u] # "open"
  BY <1>2 DEF Ack, brokerVars, QueueStep
<1>. QED
  BY <1>1, <1>2

LEMMA Requeued ==
  ASSUME TypeInv, NEW u \in States, NEW t \in Tags, Requeue(u, t), UNCHANGED noted,
         ch[u] = "open" => t \in unacked[u]
  PROVE  QueueStep
<1>1. CASE ch[u] = "open"
  <2>1. delivered[u][t] \in Held(u)
    BY <1>1 DEF Held
  <2>2. Back(u, t)
    BY <1>1, <2>1 DEF Requeue, Back, noted
  <2>. QED
    BY <2>2 DEF QueueStep
<1>2. CASE ch[u] # "open"
  BY <1>2 DEF Requeue, brokerVars, QueueStep
<1>. QED
  BY <1>1, <1>2

LEMMA StepsOfQueue == TypeInv /\ SettleInv /\ ShownInv /\ [Next]_vars => QueueStep
<1> SUFFICES ASSUME TypeInv, SettleInv, ShownInv, [Next]_vars PROVE QueueStep
  OBVIOUS
<1>t. /\ taken \in [States -> Tags \cup {0}] /\ work \in [States -> WorkType]
      /\ rd \in [Conns -> ReaderType] /\ nacking \in [States -> SUBSET Tags]
      /\ unacked \in [States -> SUBSET Tags] /\ delivered \in [States -> Seq(Msgs)]
  BY DEF TypeInv, TypeOK
<1>w. \A u \in States : WellFormedState(u) /\ (ch[u] = "open" => OwnersOK(u))
  BY DEF TypeInv, WellFormed, SettleInv, Settled
<1> USE DEF connVars, consumerVars, ackVars, brokerVars, historyVars, noted
<1>1. ASSUME NEW u \in States, NEW t \in Tags, NEW m \in Msgs, Receives(u, t, m)
      PROVE  m = delivered[u][t] /\ (ch[u] = "open" => t \in unacked[u]) /\ UNCHANGED noted
  <2>1. m = delivered[u][t] /\ t = taken[u] + 1 /\ taken[u] < Len(delivered[u]) /\ UNCHANGED noted
    BY <1>1 DEF Receives
  <2>2. taken[u] \in Nat /\ Len(delivered[u]) \in Nat
    BY <1>t DEF Tags
  <2>3. t \in 1 .. Len(delivered[u]) /\ t > taken[u]
    BY <2>1, <2>2
  <2>4. ch[u] = "open" => t \in unacked[u]
    BY <2>3, <1>w DEF OwnersOK, UntakenOK
  <2>. QED
    BY <2>1, <2>4
<1>2. ASSUME NEW u \in States, DeliveryDiscard(u) PROVE QueueStep
  <2>1. PICK t \in Tags, m \in Msgs : Receives(u, t, m) /\ Kind[m] \in {"broken", "own"} /\ Ack(u, t)
    BY <1>2 DEF DeliveryDiscard
  <2>2. Queue!MayLeave(delivered[u][t])
    BY <1>1, <2>1 DEF Queue!MayLeave
  <2>. QED
    BY <1>1, <2>1, <2>2, Acked
<1>3. ASSUME NEW u \in States, DeliveryOffline(u) PROVE QueueStep
  <2>1. PICK t \in Tags, m \in Msgs : Receives(u, t, m) /\ Requeue(u, t)
    BY <1>3 DEF DeliveryOffline
  <2>. QED
    BY <1>1, <2>1, Requeued
<1>4. ASSUME NEW u \in States, Written(u)
      PROVE  work[u].tag \in Tags /\ (ch[u] = "open" => work[u].tag \in unacked[u])
  BY <1>4, <1>t, <1>w DEF Written, OwnersOK, InHandOK, WellFormedState
<1>5. ASSUME NEW u \in States, NobodyReached(u) PROVE QueueStep
  BY <1>4, <1>5, Requeued DEF NobodyReached
<1>6. ASSUME NEW u \in States, NonPayloadForwarded(u) PROVE QueueStep
  <2>1. Queue!MayLeave(delivered[u][work[u].tag])
    BY <1>6 DEF NonPayloadForwarded, Written, ShownInv, HandShown, InHand, Queue!MayLeave
  <2>. QED
    BY <1>4, <1>6, <2>1, Acked DEF NonPayloadForwarded
<1>7. ASSUME NEW c \in Conns, ReceiptAck(c) PROVE QueueStep
  <2> DEFINE u == rd[c].us
             t == rd[c].tag
  <2>1. /\ u \in States /\ Ack(u, t) /\ UNCHANGED noted /\ rd[c].pc = "acking"
    BY <1>7 DEF ReceiptAck, TypeInv, WellFormed, WellFormedReader
  <2>2. EntryOK(u, rd[c].id, t) /\ rd[c].id \in receipted
    BY <2>1 DEF ShownInv, ReceiptOK
  <2>3. t \in Tags
    <3>1. t \in 1 .. Len(delivered[u]) /\ Len(delivered[u]) <= MaxDeliveries
          /\ Len(delivered[u]) \in Nat
      BY <2>1, <2>2, <1>t, <1>w DEF EntryOK, WellFormedState
    <3>. QED
      BY <3>1, DeliveryAssumption DEF Tags, DeliveryAssumption
  <2>4. ch[u] = "open" => t \in unacked[u]
    BY <2>1, <2>3, <1>w DEF OwnersOK, AckingOK, Acks
  <2>5. Queue!MayLeave(delivered[u][t])
    BY <2>2 DEF EntryOK, Queue!MayLeave
  <2>. QED
    BY <2>1, <2>3, <2>4, <2>5, Acked
<1>8. ASSUME NEW u \in States, NEW t \in Tags, TimerNack(u, t) PROVE QueueStep
  <2>1. ch[u] = "open" => t \in unacked[u]
    BY <1>8, <1>w DEF TimerNack, OwnersOK, NackingOK
  <2>. QED
    BY <1>8, <2>1, Requeued DEF TimerNack
<1>9. ASSUME NEW c \in Conns, CleanupClose(c) PROVE QueueStep
  <2> DEFINE u == rd[c].us
  <2>1. u \in States
    BY <1>9 DEF CleanupClose, TypeInv, WellFormed, WellFormedReader
  <2>2. Closed({u})
    <3>1. UNION {Held(v) : v \in {u}} = Held(u)
      OBVIOUS
    <3>2. /\ unacked' = [v \in States |-> IF v \in {u} THEN {} ELSE unacked[v]]
          /\ ready' = ready \cup Held(u)
          /\ UNCHANGED <<delivered, done, noted>>
      BY <1>9, <1>t, <2>1 DEF CleanupClose
    <3>. QED
      BY <3>1, <3>2 DEF Closed
  <2>. QED
    BY <2>1, <2>2 DEF QueueStep
<1>10. ASSUME ProcessStops \/ BrokerLoss PROVE QueueStep
  <2>1. Closed(States)
    BY <1>10 DEF ProcessStops, BrokerLoss, Closed, AllHeld
  <2>. QED
    BY <2>1 DEF QueueStep
<1>11. ASSUME NEW u \in States, NEW c \in Conns, WriteOk(u, c) PROVE QueueStep
  <2>1. delivered[u][work[u].tag] \in Msgs
    BY <1>11, <1>t, <1>w DEF WriteOk, WellFormedState, Tags
  <2>. QED
    BY <1>11, <2>1 DEF WriteOk, QueueStep
<1>12. ASSUME NEW c \in Conns, NEW i \in Ids, ReceiptRead(c, i) PROVE QueueStep
  BY <1>12 DEF ReceiptRead, QueueStep
<1>13. ASSUME UNCHANGED <<ready, done, delivered, unacked, noted>> PROVE QueueStep
  BY <1>13 DEF QueueStep
<1>14. ASSUME NEW c \in Conns, ConnStep(c) PROVE QueueStep
  BY <1>7, <1>9, <1>12, <1>13, <1>14 DEF ConnStep, RegisterCreate, RegisterJoin, RegisterFail,
     SocketBreak, ReceiptTake, Unregister, CleanupCancel, CleanupDrop
<1>15. ASSUME NEW u \in States, ConsumerStep(u) PROVE QueueStep
  BY <1>2, <1>3, <1>5, <1>6, <1>10, <1>11, <1>13, <1>15 DEF ConsumerStep, ConsumerStart,
     ConsumeFails, ConsumerExit, DeliveryStart, Receives, WriteFail, AwaitReceipt, AwaitReceiptPanic
<1>16. ASSUME NEW u \in States, NEW t \in Tags, TimerStep(u, t) PROVE QueueStep
  BY <1>8, <1>13, <1>16 DEF TimerStep, TimerFire, TimerTake
<1>17. CASE UNCHANGED vars
  BY <1>13, <1>17 DEF vars
<1>18. ASSUME NEW u \in States, ChannelClosed(u) PROVE QueueStep
  <2>1. Closed({u})
    <3>1. UNION {Held(v) : v \in {u}} = Held(u)
      OBVIOUS
    <3>2. unacked' = [v \in States |-> IF v \in {u} THEN {} ELSE unacked[v]]
      BY <1>18, <1>t DEF ChannelClosed
    <3>. QED
      BY <1>18, <3>1, <3>2 DEF Closed, ChannelClosed
  <2>. QED
    BY <2>1 DEF QueueStep
<1>. QED
  BY <1>10, <1>14, <1>15, <1>16, <1>17, <1>18 DEF Next, Crash, QueueStep

-----------------------------------------------------------------------------
(* A message is in one place.                                              *)

LEMMA ExclusiveInit == Init => Exclusive
  BY DEF Init, Exclusive

LEMMA ExclusiveStep == TypeInv /\ Exclusive /\ QueueStep => Exclusive'
<1> SUFFICES ASSUME TypeInv, Exclusive, QueueStep PROVE Exclusive'
  OBVIOUS
<1>t. /\ unacked \in [States -> SUBSET Tags] /\ delivered \in [States -> Seq(Msgs)]
      /\ \A u \in States : unacked[u] \subseteq 1 .. Len(delivered[u])
  BY DEF TypeInv, TypeOK, WellFormed, WellFormedState
<1>1. ASSUME UNCHANGED <<ready, done, delivered, unacked>> PROVE Exclusive'
  BY <1>1 DEF Exclusive
<1>2. ASSUME NEW u \in States, NEW m \in Msgs, BrokerDeliver(u, m) PROVE Exclusive'
  <2> DEFINE n == Len(delivered[u]) + 1
  <2>1. /\ m \in ready /\ ready' = ready \ {m} /\ UNCHANGED done
        /\ unacked' = [unacked EXCEPT ![u] = @ \cup {n}]
        /\ delivered' = [delivered EXCEPT ![u] = Append(@, m)]
    BY <1>2 DEF BrokerDeliver
  <2>2. delivered'[u][n] = m /\ n \notin unacked[u]
        /\ \A v \in States : \A t \in unacked[v] : delivered'[v][t] = delivered[v][t]
    BY <1>t, <2>1
  <2>3. unacked'[u] = unacked[u] \cup {n} /\ \A v \in States : v # u => unacked'[v] = unacked[v]
    BY <1>t, <2>1
  <2>4. \A v \in States : \A t \in unacked[v] : delivered[v][t] # m
    BY <2>1 DEF Exclusive
  <2> HIDE DEF n
  <2>5. \A v \in States : \A t \in unacked'[v] :
           (v = u /\ t = n) \/ (t \in unacked[v] /\ delivered'[v][t] = delivered[v][t])
    BY <2>2, <2>3
  <2>6. ready' \cap done' = {}
    BY <2>1 DEF Exclusive
  <2>7. \A v \in States : \A t \in unacked'[v] : delivered'[v][t] \notin ready' \cup done'
    <3>1. m \notin ready' \cup done' /\ ready' \cup done' \subseteq ready \cup done
      BY <2>1 DEF Exclusive
    <3>2. \A v \in States : \A t \in unacked[v] : delivered[v][t] \notin ready \cup done
      BY DEF Exclusive
    <3>. QED
      BY <2>2, <2>5, <3>1, <3>2
  <2>8. \A v, w \in States : \A t \in unacked'[v], s \in unacked'[w] :
           delivered'[v][t] = delivered'[w][s] => v = w /\ t = s
    BY <2>2, <2>4, <2>5 DEF Exclusive
  <2>. QED
    BY <2>6, <2>7, <2>8 DEF Exclusive
<1>3. ASSUME NEW u \in States, NEW t \in Tags, Gone(u, t) \/ Back(u, t) PROVE Exclusive'
  <2>1. /\ t \in unacked[u] /\ unacked' = [unacked EXCEPT ![u] = @ \ {t}] /\ UNCHANGED delivered
        /\ \/ done' = done \cup {delivered[u][t]} /\ UNCHANGED ready
           \/ ready' = ready \cup {delivered[u][t]} /\ UNCHANGED done
    BY <1>3 DEF Gone, Back
  <2>2. unacked'[u] = unacked[u] \ {t} /\ \A v \in States : v # u => unacked'[v] = unacked[v]
    BY <1>t, <2>1
  <2>3. \A v \in States : \A s \in unacked'[v] :
           s \in unacked[v] /\ ~(v = u /\ s = t) /\ delivered[v][s] # delivered[u][t]
    BY <2>1, <2>2 DEF Exclusive
  <2>. QED
    BY <2>1, <2>3 DEF Exclusive
<1>4. ASSUME NEW us \in SUBSET States, Closed(us) PROVE Exclusive'
  <2>1. /\ unacked' = [u \in States |-> IF u \in us THEN {} ELSE unacked[u]]
        /\ ready' = ready \cup UNION {Held(u) : u \in us} /\ UNCHANGED <<delivered, done>>
    BY <1>4 DEF Closed
  <2>2. \A m \in ready' : m \in ready \/ \E u \in us : \E t \in unacked[u] : m = delivered[u][t]
    BY <2>1 DEF Held
  <2>3. \A v \in States : \A s \in unacked'[v] : s \in unacked[v] /\ v \notin us
    BY <2>1
  <2>4. ready' \cap done' = {}
    BY <2>1, <2>2 DEF Exclusive
  <2>5. \A v \in States : \A s \in unacked'[v] : delivered[v][s] \notin ready' \cup done'
    BY <2>1, <2>2, <2>3 DEF Exclusive
  <2>. QED
    BY <2>1, <2>3, <2>4, <2>5 DEF Exclusive
<1>5. ASSUME NEW m \in Msgs, Expire(m) PROVE Exclusive'
  <2>1. /\ m \in ready /\ ready' = ready \ {m} /\ done' = done \cup {m}
        /\ UNCHANGED <<delivered, unacked>>
    BY <1>5 DEF Expire
  <2>2. ready' \cup done' = ready \cup done
    BY <2>1
  <2>. QED
    BY <2>1, <2>2 DEF Exclusive
<1>. QED
  BY <1>1, <1>2, <1>3, <1>4, <1>5 DEF QueueStep

-----------------------------------------------------------------------------
(* What was shown and confirmed.                                           *)

\* An entry that is known of stays so while more is delivered and shown.
LEMMA EntryStays ==
  ASSUME TypeInv, NEW u \in States, NEW i, NEW t, EntryOK(u, i, t), shown \subseteq shown',
         \/ delivered'[u] = delivered[u]
         \/ \E m \in Msgs : delivered'[u] = Append(delivered[u], m)
  PROVE  /\ delivered'[u][t] = delivered[u][t] /\ t \in 1 .. Len(delivered'[u])
         /\ Kind[delivered'[u][t]] = "payload" /\ MsgId[delivered'[u][t]] = i
         /\ delivered'[u][t] \in shown'
<1>1. delivered[u] \in Seq(Msgs) /\ t \in 1 .. Len(delivered[u])
  BY DEF TypeInv, TypeOK, EntryOK
<1>2. delivered'[u][t] = delivered[u][t] /\ t \in 1 .. Len(delivered'[u])
  BY <1>1
<1>. QED
  BY <1>2 DEF EntryOK

LEMMA ShownInit == Init => ShownInv
  BY DEF Init, ShownInv, HandShown, EntriesOK, ReceiptOK, Idle, Reader

\* Steps that make nothing new of what is in hand, in the map or in a receipt.
LEMMA ShownKept ==
  ASSUME TypeInv, ShownInv, shown \subseteq shown', receipted \subseteq receipted',
         \A u \in States : delivered'[u] = delivered[u]
                           \/ \E m \in Msgs : delivered'[u] = Append(delivered[u], m),
         \A u \in States : work'[u].pc = "writing" /\ work'[u].hit =>
                              work[u].pc = "writing" /\ work[u].hit /\ work'[u].tag = work[u].tag,
         \A u \in States, i \in Ids : pending'[u][i] # 0 =>
            pending'[u][i] = pending[u][i] /\ pending[u][i] \in armed'[u] \cup fired'[u],
         \A c \in Conns : rd'[c].pc \in {"receipt", "acking"} => rd'[c] = rd[c]
  PROVE  ShownInv'
<1>1. ASSUME NEW u \in States PROVE HandShown(u)'
  <2>1. SUFFICES ASSUME work'[u].pc = "writing", work'[u].hit PROVE delivered'[u][work'[u].tag] \in shown'
    BY DEF HandShown, InHand
  <2>2. /\ work[u].pc = "writing" /\ work[u].hit /\ work'[u].tag = work[u].tag
        /\ delivered[u][work[u].tag] \in shown
    BY <2>1 DEF ShownInv, HandShown, InHand
  <2>3. work[u].tag = taken[u] /\ taken[u] # 0 /\ taken[u] <= Len(delivered[u])
        /\ taken[u] \in Nat /\ delivered[u] \in Seq(Msgs)
    BY <2>2 DEF TypeInv, TypeOK, WellFormed, WellFormedState, Tags
  <2>4. delivered'[u][work[u].tag] = delivered[u][work[u].tag]
    BY <2>3
  <2>. QED
    BY <2>2, <2>4
<1>2. ASSUME NEW u \in States PROVE EntriesOK(u)'
  <2>1. SUFFICES ASSUME NEW i \in Ids, pending'[u][i] # 0
                 PROVE  EntryOK(u, i, pending[u][i])' /\ pending'[u][i] \in armed'[u] \cup fired'[u]
    BY DEF EntriesOK
  <2>. QED
    BY <2>1, EntryStays DEF ShownInv, EntriesOK, EntryOK
<1>3. ASSUME NEW c \in Conns PROVE ReceiptOK(c)'
  <2>1. SUFFICES ASSUME rd'[c].pc \in {"receipt", "acking"}
                 PROVE  /\ rd'[c].id \in receipted' /\ rd'[c].id \in Ids
                        /\ rd'[c].pc = "acking" => EntryOK(rd[c].us, rd[c].id, rd[c].tag)'
    BY DEF ReceiptOK
  <2>2. rd'[c] = rd[c] /\ rd[c].us \in States /\ ReceiptOK(c)
    BY <2>1 DEF TypeInv, WellFormed, WellFormedReader, ShownInv
  <2>. QED
    BY <2>1, <2>2, EntryStays DEF ReceiptOK, EntryOK
<1>. QED
  BY <1>1, <1>2, <1>3 DEF ShownInv

LEMMA ShownNext == TypeInv /\ ShownInv /\ [Next]_vars => ShownInv'
<1> SUFFICES ASSUME TypeInv, ShownInv, [Next]_vars PROVE ShownInv'
  OBVIOUS
<1>t. /\ taken \in [States -> Tags \cup {0}] /\ work \in [States -> WorkType]
      /\ rd \in [Conns -> ReaderType] /\ pending \in [States -> [Ids -> Tags \cup {0}]]
      /\ armed \in [States -> SUBSET Tags] /\ fired \in [States -> SUBSET Tags]
      /\ delivered \in [States -> Seq(Msgs)]
  BY DEF TypeInv, TypeOK
<1>w. \A u \in States : WellFormedState(u) /\ HandShown(u) /\ EntriesOK(u)
  BY DEF TypeInv, WellFormed, ShownInv
<1> USE DEF connVars, consumerVars, ackVars, brokerVars, historyVars
<1>1. ASSUME NEW c \in Conns, RegisterCreate(c) PROVE ShownInv'
  BY <1>1, <1>t, <1>w, ShownKept DEF RegisterCreate, Idle, EntriesOK
<1>2. ASSUME NEW c \in Conns, RegisterJoin(c) \/ RegisterFail(c) \/ SocketBreak(c) PROVE ShownInv'
  BY <1>2, <1>t, <1>w, ShownKept DEF RegisterJoin, RegisterFail, SocketBreak, Reader, EntriesOK
<1>3. ASSUME NEW c \in Conns, NEW i \in Ids, ReceiptRead(c, i) PROVE ShownInv'
  <2>1. \A u \in States : HandShown(u)' /\ EntriesOK(u)'
    BY <1>3, <1>w DEF ReceiptRead, HandShown, InHand, EntriesOK, EntryOK
  <2>2. \A d \in Conns : ReceiptOK(d)'
    BY <1>3, <1>t DEF ReceiptRead, Reader, Receipt, ShownInv, ReceiptOK, EntryOK
  <2>. QED
    BY <2>1, <2>2 DEF ShownInv
<1>4. ASSUME NEW c \in Conns, ReceiptTake(c) PROVE ShownInv'
  <2>1. /\ rd[c].us \in States /\ rd[c].id \in Ids
        /\ rd[c].id \in receipted /\ rd[c].pc = "receipt"
    BY <1>4 DEF ReceiptTake, TypeInv, WellFormed, WellFormedReader, ShownInv, ReceiptOK
  <2>2. PICK w \in States, i \in Ids, t \in Tags \cup {0} :
           /\ t = pending[w][i] /\ pending' = [pending EXCEPT ![w][i] = 0] /\ i \in receipted
           /\ armed' = [armed EXCEPT ![w] = @ \ {t}]
           /\ t # 0 => rd' = [rd EXCEPT ![c] = Receipt("acking", w, i, t)]
           /\ t = 0 => rd' = [rd EXCEPT ![c] = Reader("reading")]
           /\ UNCHANGED <<work, taken, fired, delivered, shown, receipted>>
    <3> DEFINE us == rd[c].us
               id == rd[c].id
               tag == pending[us][id]
    <3>1. us \in States /\ id \in Ids /\ tag \in Tags \cup {0}
      BY <2>1, <1>t
    <3>2. /\ pending' = [pending EXCEPT ![us][id] = 0] /\ armed' = [armed EXCEPT ![us] = @ \ {tag}]
          /\ rd' = [rd EXCEPT ![c] = IF tag = 0 THEN Reader("reading")
                                     ELSE Receipt("acking", us, id, tag)]
          /\ UNCHANGED <<work, taken, fired, delivered, shown, receipted>>
      BY <1>4 DEF ReceiptTake
    <3> HIDE DEF us, id, tag
    <3>3. tag = pending[us][id] /\ id \in receipted
      BY <2>1 DEF us, id, tag
    <3>. QED
      BY <3>1, <3>2, <3>3
  <2>3. /\ \A j \in Ids : pending'[w][j] = IF j = i THEN 0 ELSE pending[w][j]
        /\ \A v \in States : v # w => pending'[v] = pending[v] /\ armed'[v] = armed[v]
        /\ armed'[w] = armed[w] \ {t}
    BY <2>2, <1>t
  <2>4. ASSUME NEW u \in States PROVE HandShown(u)' /\ EntriesOK(u)'
    <3>1. HandShown(u)'
      BY <2>2, <1>w DEF HandShown, InHand
    <3>2. t # 0 => \A j \in Ids : j # i => pending[w][j] # t
      BY <2>2, <1>w DEF EntriesOK, EntryOK
    <3>3. EntriesOK(u)'
      BY <2>2, <2>3, <3>2, <1>w DEF EntriesOK, EntryOK
    <3>. QED
      BY <3>1, <3>3
  <2>5. ASSUME NEW d \in Conns PROVE ReceiptOK(d)'
    <3>1. CASE d # c
      BY <2>2, <3>1, <1>t DEF ShownInv, ReceiptOK, EntryOK
    <3>2. CASE d = c /\ t = 0
      BY <2>2, <3>2, <1>t DEF Reader, ReceiptOK
    <3>3. CASE d = c /\ t # 0
      <4>1. rd'[c] = Receipt("acking", w, i, t)
        BY <2>2, <3>3, <1>t
      <4>2. EntryOK(w, i, t)
        BY <2>2, <3>3, <1>w DEF EntriesOK
      <4>. QED
        BY <2>2, <3>3, <4>1, <4>2 DEF Receipt, ReceiptOK, EntryOK
    <3>. QED
      BY <3>1, <3>2, <3>3
  <2>. QED
    BY <2>4, <2>5 DEF ShownInv
<1>5. ASSUME NEW c \in Conns, ReceiptAck(c) PROVE ShownInv'
  BY <1>5, <1>t, <1>w, ShownKept DEF ReceiptAck, Ack, Reader, EntriesOK
<1>6. ASSUME NEW c \in Conns, Unregister(c) PROVE ShownInv'
  <2>1. PICK new \in {Reader("gone"), Cleaner("cancel", clients)} : rd' = [rd EXCEPT ![c] = new]
    BY <1>6 DEF Unregister
  <2>2. \A d \in Conns : rd'[d].pc \in {"receipt", "acking"} => rd'[d] = rd[d]
    BY <2>1, <1>t DEF Reader, Cleaner
  <2>. QED
    BY <1>6, <2>2, <1>w, ShownKept DEF Unregister, EntriesOK
<1>7. ASSUME NEW c \in Conns, CleanupCancel(c) \/ CleanupClose(c) PROVE ShownInv'
  BY <1>7, <1>t, <1>w, ShownKept DEF CleanupCancel, CleanupClose, Cleaner, Reader, EntriesOK
<1>8. ASSUME NEW c \in Conns, CleanupDrop(c) PROVE ShownInv'
  <2>1. rd[c].us \in States
    BY <1>8 DEF CleanupDrop, TypeInv, WellFormed, WellFormedReader
  <2>2. PICK w \in States :
           /\ armed' = [armed EXCEPT ![w] = @ \ {pending[w][i] : i \in Ids}]
           /\ pending' = [pending EXCEPT ![w] = [i \in Ids |-> 0]]
           /\ rd' = [rd EXCEPT ![c] = Cleaner("close", w)]
           /\ UNCHANGED <<work, delivered, fired, shown, receipted>>
    BY <1>8, <2>1 DEF CleanupDrop
  <2>3. /\ \A i \in Ids : pending'[w][i] = 0
        /\ \A v \in States : v # w => pending'[v] = pending[v] /\ armed'[v] = armed[v]
    BY <2>2, <1>t
  <2>4. \A d \in Conns : rd'[d].pc \in {"receipt", "acking"} => rd'[d] = rd[d]
    BY <2>2, <1>t DEF Cleaner
  <2>5. \A u \in States, i \in Ids : pending'[u][i] # 0 =>
            pending'[u][i] = pending[u][i] /\ pending[u][i] \in armed'[u] \cup fired'[u]
    BY <2>2, <2>3, <1>w DEF EntriesOK
  <2>. QED
    BY <2>2, <2>4, <2>5, ShownKept
<1>9. ASSUME NEW u \in States, ConsumerStart(u) \/ ConsumeFails(u) \/ ConsumerExit(u)
                               \/ NobodyReached(u) \/ NonPayloadForwarded(u)
      PROVE  ShownInv'
  <2>1. PICK pc \in {"waiting", "failed", "exited"} : work' = [work EXCEPT ![u] = Idle(pc)]
    BY <1>9 DEF ConsumerStart, ConsumeFails, ConsumerExit, NobodyReached, NonPayloadForwarded
  <2>2. /\ UNCHANGED <<pending, armed, fired, rd, shown, receipted>>
        /\ UNCHANGED delivered
    BY <1>9 DEF ConsumerStart, ConsumeFails, ConsumerExit, NobodyReached, NonPayloadForwarded, Ack,
       Requeue
  <2>3. \A v \in States : work'[v].pc = "writing" => work'[v] = work[v]
    BY <2>1, <1>t DEF Idle
  <2>. QED
    BY <2>2, <2>3, <1>w, ShownKept DEF EntriesOK
<1>10. ASSUME NEW u \in States, DeliveryDiscard(u) \/ DeliveryOffline(u) PROVE ShownInv'
  BY <1>10, <1>w, ShownKept DEF DeliveryDiscard, DeliveryOffline, Receives, Ack, Requeue, EntriesOK
<1>11. ASSUME NEW u \in States, DeliveryStart(u) PROVE ShownInv'
  BY <1>11, <1>t, <1>w, ShownKept DEF DeliveryStart, Receives, Writing, EntriesOK
<1>12. ASSUME NEW u \in States, NEW c \in Conns, WriteOk(u, c) PROVE ShownInv'
  <2>1. /\ work' = [work EXCEPT ![u] = Writing(@.tag, @.todo \ {c}, TRUE)]
        /\ shown' = shown \cup {delivered[u][work[u].tag]}
        /\ UNCHANGED <<delivered, pending, armed, fired, rd, receipted>>
    BY <1>12 DEF WriteOk
  <2>2. work'[u].tag = work[u].tag /\ \A v \in States : v # u => work'[v] = work[v]
    BY <2>1, <1>t DEF Writing
  <2>3. ASSUME NEW v \in States PROVE HandShown(v)'
    <3>0. UNCHANGED delivered /\ delivered[u][work[u].tag] \in shown'
      BY <2>1
    <3>1. delivered'[u][work'[u].tag] \in shown'
      BY <2>2, <3>0
    <3>2. v # u => (work'[v].pc = "writing" /\ work'[v].hit => delivered'[v][work'[v].tag] \in shown')
      BY <2>1, <2>2, <1>w DEF HandShown, InHand
    <3>. QED
      BY <3>1, <3>2 DEF HandShown, InHand
  <2>4. \A v \in States : EntriesOK(v)'
    BY <2>1, <1>w DEF EntriesOK, EntryOK
  <2>5. \A d \in Conns : ReceiptOK(d)'
    BY <2>1 DEF ShownInv, ReceiptOK, EntryOK
  <2>. QED
    BY <2>3, <2>4, <2>5 DEF ShownInv
<1>13. ASSUME NEW u \in States, NEW c \in Conns, WriteFail(u, c) PROVE ShownInv'
  BY <1>13, <1>t, <1>w, ShownKept DEF WriteFail, Writing, EntriesOK
<1>14. ASSUME NEW u \in States, AwaitReceipt(u) PROVE ShownInv'
  <2> DEFINE t == work[u].tag
             id == MsgId[InHand(u)]
  <2>1. /\ work' = [work EXCEPT ![u] = Idle("waiting")]
        /\ pending' = [pending EXCEPT ![u][id] = t] /\ armed' = [armed EXCEPT ![u] = @ \cup {t}]
        /\ Kind[InHand(u)] = "payload" /\ InHand(u) \in shown
        /\ UNCHANGED <<delivered, fired, rd, shown, receipted>>
    BY <1>14, <1>w DEF AwaitReceipt, Written, HandShown
  <2>2. t \in 1 .. Len(delivered[u]) /\ id \in Ids
    <3>1. t = taken[u] /\ taken[u] # 0 /\ taken[u] <= Len(delivered[u])
          /\ taken[u] \in Nat /\ delivered[u] \in Seq(Msgs)
      BY <1>14, <1>t, <1>w DEF AwaitReceipt, Written, WellFormedState, Tags
    <3>2. InHand(u) \in Msgs
      BY <3>1 DEF InHand
    <3>. QED
      BY <3>1, <3>2, DeliveryAssumption DEF DeliveryAssumption
  <2>3. EntryOK(u, id, t)
    BY <2>1, <2>2 DEF EntryOK, InHand
  <2>4. work'[u].pc = "waiting" /\ \A v \in States : v # u => work'[v] = work[v]
    BY <2>1, <1>t DEF Idle
  <2>5. /\ \A j \in Ids : pending'[u][j] = IF j = id THEN t ELSE pending[u][j]
        /\ armed'[u] = armed[u] \cup {t}
        /\ \A v \in States : v # u => pending'[v] = pending[v] /\ armed'[v] = armed[v]
    BY <2>1, <2>2, <1>t
  <2> HIDE DEF t, id
  <2>6. \A v \in States : HandShown(v)'
    BY <2>1, <2>4, <1>w DEF HandShown, InHand
  <2>7. \A v \in States : EntriesOK(v)'
    BY <2>1, <2>3, <2>5, <1>w DEF EntriesOK, EntryOK
  <2>8. \A d \in Conns : ReceiptOK(d)'
    BY <2>1 DEF ShownInv, ReceiptOK, EntryOK
  <2>. QED
    BY <2>6, <2>7, <2>8 DEF ShownInv
<1>15. ASSUME NEW u \in States, NEW t \in Tags, TimerFire(u, t) PROVE ShownInv'
  BY <1>15, <1>t, <1>w, ShownKept DEF TimerFire, EntriesOK
<1>16. ASSUME NEW u \in States, NEW t \in Tags, TimerTake(u, t) PROVE ShownInv'
  <2> DEFINE id == MsgId[delivered[u][t]]
  <2>1. /\ fired' = [fired EXCEPT ![u] = @ \ {t}] /\ pending' = [pending EXCEPT ![u][id] = 0]
        /\ UNCHANGED <<work, delivered, armed, rd, shown, receipted>>
    BY <1>16 DEF TimerTake
  <2>2. id \in Ids
    <3>1. t \in fired[u] /\ fired[u] \subseteq 1 .. taken[u] /\ taken[u] <= Len(delivered[u])
          /\ taken[u] \in Nat /\ delivered[u] \in Seq(Msgs)
      BY <1>16, <1>t, <1>w DEF TimerTake, WellFormedState, Tags
    <3>2. delivered[u][t] \in Msgs
      BY <3>1
    <3>. QED
      BY <3>2, DeliveryAssumption DEF DeliveryAssumption
  <2>3. \A j \in Ids : pending[u][j] # 0 /\ j # id => pending[u][j] # t
    BY <1>w DEF EntriesOK, EntryOK
  <2>4. /\ \A j \in Ids : pending'[u][j] = IF j = id THEN 0 ELSE pending[u][j]
        /\ fired'[u] = fired[u] \ {t}
        /\ \A v \in States : v # u => pending'[v] = pending[v] /\ fired'[v] = fired[v]
    BY <2>1, <2>2, <1>t
  <2> HIDE DEF id
  <2>5. \A v \in States, i \in Ids : pending'[v][i] # 0 =>
            pending'[v][i] = pending[v][i] /\ pending[v][i] \in armed'[v] \cup fired'[v]
    BY <2>1, <2>3, <2>4, <1>w DEF EntriesOK
  <2>. QED
    BY <2>1, <2>5, ShownKept
<1>17. ASSUME NEW u \in States, NEW t \in Tags, TimerNack(u, t) PROVE ShownInv'
  BY <1>17, <1>w, ShownKept DEF TimerNack, Requeue, EntriesOK
<1>18. ASSUME NEW u \in States, NEW m \in Msgs, BrokerDeliver(u, m) PROVE ShownInv'
  BY <1>18, <1>t, <1>w, ShownKept DEF BrokerDeliver, EntriesOK
<1>19. ASSUME ProcessStops PROVE ShownInv'
  BY <1>19, ShownKept DEF ProcessStops, Reader, Idle
<1>20. CASE BrokerLoss
  BY <1>20, <1>w, ShownKept DEF BrokerLoss, EntriesOK
<1>22. ASSUME NEW m \in Msgs, Expire(m) PROVE ShownInv'
  BY <1>22, <1>w, ShownKept DEF Expire, EntriesOK
<1>23. ASSUME NEW u \in States, ChannelClosed(u) PROVE ShownInv'
  BY <1>23, <1>w, ShownKept DEF ChannelClosed, EntriesOK
<1>21. CASE UNCHANGED vars
  BY <1>21, <1>w, ShownKept DEF vars, EntriesOK
<1>. QED
  BY <1>1, <1>2, <1>3, <1>4, <1>5, <1>6, <1>7, <1>8, <1>9, <1>10, <1>11, <1>12, <1>13, <1>14,
     <1>15, <1>16, <1>17, <1>18, <1>19, <1>20, <1>21, <1>22, <1>23
     DEF Next, ConnStep, ConsumerStep, TimerStep, Crash, AwaitReceiptPanic

LEMMA QueueInv == Spec => [](TypeInv /\ SettleInv /\ ShownInv /\ Exclusive)
<1>1. Init => TypeInv /\ SettleInv /\ ShownInv /\ Exclusive
  BY TypeInit, SettleInit, ShownInit, ExclusiveInit
<1>2. (TypeInv /\ SettleInv /\ ShownInv /\ Exclusive) /\ [Next]_vars
        => (TypeInv /\ SettleInv /\ ShownInv /\ Exclusive)'
  BY TypeNext, SettleNext, ShownNext, StepsOfQueue, ExclusiveStep
<1>. QED
  BY <1>1, <1>2, PTL DEF Spec

-----------------------------------------------------------------------------
(* The refinement: what a step of the queue does to the messages that are  *)
(* held, which the channels keep as tags.                                  *)

LEMMA QueueStarts == Init => Queue!Init
  BY DEF Init, Queue!Init, Inflight, AllHeld, Held

LEMMA QueueSteps == TypeInv /\ Exclusive /\ QueueStep => [Queue!Next]_(Queue!vars)
<1> SUFFICES ASSUME TypeInv, Exclusive, QueueStep PROVE [Queue!Next]_(Queue!vars)
  OBVIOUS
<1>t. /\ unacked \in [States -> SUBSET Tags] /\ delivered \in [States -> Seq(Msgs)]
      /\ \A u \in States : unacked[u] \subseteq 1 .. Len(delivered[u])
  BY DEF TypeInv, TypeOK, WellFormed, WellFormedState
<1>h. \A m : m \in AllHeld <=> \E u \in States : \E t \in unacked[u] : m = delivered[u][t]
  BY DEF AllHeld, Held
<1>p. \A m : m \in AllHeld' <=> \E u \in States : \E t \in unacked'[u] : m = delivered'[u][t]
  BY DEF AllHeld, Held
<1>1. CASE UNCHANGED <<ready, done, delivered, unacked, noted>>
  BY <1>1 DEF noted, Queue!vars, Inflight, AllHeld, Held
<1>2. ASSUME NEW m \in Msgs, shown' = shown \cup {m},
             UNCHANGED <<ready, done, delivered, unacked, receipted>>
      PROVE  Queue!Next
  <2>1. Queue!Show(m)
    BY <1>2 DEF Queue!Show, Inflight, AllHeld, Held
  <2>. QED
    BY <2>1 DEF Queue!Next
<1>3. ASSUME NEW i \in Ids, receipted' = receipted \cup {i},
             UNCHANGED <<ready, done, delivered, unacked, shown>>
      PROVE  Queue!Next
  <2>1. Queue!Confirm(i)
    BY <1>3 DEF Queue!Confirm, Inflight, AllHeld, Held
  <2>. QED
    BY <2>1 DEF Queue!Next
<1>4. ASSUME NEW u \in States, NEW m \in Msgs, BrokerDeliver(u, m) PROVE Queue!Next
  <2> DEFINE n == Len(delivered[u]) + 1
  <2>1. /\ m \in ready /\ ready' = ready \ {m} /\ UNCHANGED <<done, shown, receipted>>
        /\ unacked' = [unacked EXCEPT ![u] = @ \cup {n}]
        /\ delivered' = [delivered EXCEPT ![u] = Append(@, m)]
    BY <1>4 DEF BrokerDeliver, historyVars
  <2>2. delivered'[u][n] = m /\ \A v \in States : \A t \in unacked[v] : delivered'[v][t] = delivered[v][t]
    BY <1>t, <2>1
  <2>3. unacked'[u] = unacked[u] \cup {n} /\ \A v \in States : v # u => unacked'[v] = unacked[v]
    BY <1>t, <2>1
  <2> HIDE DEF n
  <2>4. \A x : x \in AllHeld' <=> x \in AllHeld \/ x = m
    BY <1>h, <1>p, <2>2, <2>3
  <2>5. AllHeld' = AllHeld \cup {m}
    BY <2>4
  <2>6. Queue!Hand(m)
    BY <2>1, <2>5 DEF Queue!Hand, Inflight
  <2>. QED
    BY <2>6 DEF Queue!Next
<1>5. ASSUME NEW u \in States, NEW t \in Tags, Gone(u, t) \/ Back(u, t) PROVE Queue!Next
  <2> DEFINE m == delivered[u][t]
  <2>1. t \in unacked[u] /\ unacked' = [unacked EXCEPT ![u] = @ \ {t}] /\ UNCHANGED delivered
    BY <1>5 DEF Gone, Back
  <2>2. unacked'[u] = unacked[u] \ {t} /\ \A v \in States : v # u => unacked'[v] = unacked[v]
    BY <1>t, <2>1
  <2>3. \A v \in States : \A s \in unacked[v] : delivered[v][s] = m => v = u /\ s = t
    BY <2>1 DEF Exclusive
  <2>4. m \in Msgs /\ m \in AllHeld
    BY <1>t, <1>h, <2>1
  <2>5. \A x : x \in AllHeld' <=> x \in AllHeld /\ x # m
    BY <1>h, <1>p, <2>1, <2>2, <2>3
  <2>6. AllHeld' = AllHeld \ {m}
    BY <2>5
  <2>7. CASE Gone(u, t)
    <3>1. Queue!Leave(m)
      BY <2>4, <2>6, <2>7 DEF Gone, noted, Queue!Leave, Inflight
    <3>. QED
      BY <2>4, <3>1 DEF Queue!Next
  <2>8. CASE Back(u, t)
    <3>1. Queue!GiveBack({m}) /\ {m} \in SUBSET Inflight
      BY <2>4, <2>6, <2>8 DEF Back, noted, Queue!GiveBack, Inflight
    <3>. QED
      BY <3>1 DEF Queue!Next
  <2>. QED
    BY <1>5, <2>7, <2>8
<1>6. ASSUME NEW us \in SUBSET States, Closed(us) PROVE Queue!Next
  <2> DEFINE S == UNION {Held(u) : u \in us}
  <2>1. /\ unacked' = [u \in States |-> IF u \in us THEN {} ELSE unacked[u]]
        /\ ready' = ready \cup S /\ UNCHANGED <<delivered, done, shown, receipted>>
    BY <1>6 DEF Closed, noted
  <2>2. \A x : x \in S <=> \E u \in us : \E t \in unacked[u] : x = delivered[u][t]
    BY DEF Held
  <2> HIDE DEF S
  <2>3. S \subseteq AllHeld
    BY <1>h, <2>2
  <2>4. \A v \in States : unacked'[v] = IF v \in us THEN {} ELSE unacked[v]
    BY <2>1
  <2>5. \A x : x \in AllHeld' <=> x \in AllHeld /\ x \notin S
    <3>1. \A x : x \in AllHeld' => x \in AllHeld /\ x \notin S
      BY <1>h, <1>p, <2>1, <2>2, <2>4 DEF Exclusive
    <3>2. \A x : x \in AllHeld /\ x \notin S => x \in AllHeld'
      BY <1>h, <1>p, <2>1, <2>2, <2>4
    <3>. QED
      BY <3>1, <3>2
  <2>6. AllHeld' = AllHeld \ S
    BY <2>5
  <2>7. Queue!GiveBack(S) /\ S \in SUBSET Inflight
    BY <2>1, <2>3, <2>6 DEF Queue!GiveBack, Inflight
  <2>. QED
    BY <2>7 DEF Queue!Next
<1>7. ASSUME NEW m \in Msgs, Expire(m) PROVE Queue!Next
  <2>1. Queue!Expire(m)
    BY <1>7 DEF Expire, Queue!Expire, Inflight, AllHeld, Held, historyVars
  <2>. QED
    BY <2>1 DEF Queue!Next
<1>. QED
  BY <1>1, <1>2, <1>3, <1>4, <1>5, <1>6, <1>7 DEF QueueStep

\* The connection manager implements the device queue: a message is handed out,
\* shown, confirmed, and the server settles it for good only when it was shown and
\* confirmed or nobody needs it; whatever else happens to it, it waits again, and
\* of what waits only the queue's time to live takes something.
THEOREM ImplementsQueue == Spec => ImplementsDeviceQueue
<1>1. TypeInv /\ SettleInv /\ ShownInv /\ Exclusive /\ [Next]_vars => [Queue!Next]_(Queue!vars)
  BY StepsOfQueue, QueueSteps
<1>. QED
  BY <1>1, QueueStarts, QueueInv, PTL DEF Spec, ImplementsDeviceQueue, Queue!Spec

-----------------------------------------------------------------------------
(* Nothing the consumer took is forgotten.                                 *)

Owned(u, t) ==
    \/ work[u].pc = "writing" /\ work[u].tag = t
    \/ \E i \in Ids : pending[u][i] = t
    \/ t \in nacking[u]
    \/ \E c \in Conns : Acks(c, u, t)

Takes(u, t) == t \in unacked[u] /\ t <= taken[u]

OwnedOK(u) ==
    ch[u] = "open" /\ ~mapNil[u] =>
        \A t \in Tags : Takes(u, t) /\ Alone(delivered[u][t]) => Owned(u, t)

\* Steps that forget no owner of a tag that is still unacked.
LEMMA OwnersKept ==
  ASSUME TypeInv, NEW u \in States, OwnedOK(u),
         \/ delivered'[u] = delivered[u]
         \/ \E m \in Msgs : delivered'[u] = Append(delivered[u], m),
         ch'[u] = "open" /\ ~mapNil'[u] => ch[u] = "open" /\ ~mapNil[u],
         \A t \in Tags : Takes(u, t)' =>
             Owned(u, t)' \/ (Takes(u, t) /\ (Owned(u, t) => Owned(u, t)'))
  PROVE  OwnedOK(u)'
<1> SUFFICES ASSUME (ch[u] = "open" /\ ~mapNil[u])', NEW t \in Tags, Takes(u, t)',
                    Alone(delivered'[u][t])
             PROVE  Owned(u, t)'
  BY DEF OwnedOK, Alone
<1>1. ASSUME Takes(u, t), Owned(u, t) => Owned(u, t)' PROVE Owned(u, t)'
  <2>1. delivered'[u][t] = delivered[u][t]
    <3>1. t \in 1 .. Len(delivered[u]) /\ delivered[u] \in Seq(Msgs)
      BY <1>1 DEF Takes, TypeInv, TypeOK, WellFormed, WellFormedState
    <3>. QED
      BY <3>1
  <2>. QED
    BY <1>1, <2>1 DEF OwnedOK
<1>. QED
  BY <1>1

OwnedInv == \A u \in States : OwnedOK(u)

LEMMA OwnedInit == Init => OwnedInv
  BY DEF Init, OwnedInv, OwnedOK

\* A userState of which nothing but the socket, the readers or the timers change.
SameOwners(u) ==
    /\ ch'[u] = "open" => ch[u] = "open"
    /\ mapNil'[u] = mapNil[u]
    /\ delivered'[u] = delivered[u] /\ unacked'[u] \subseteq unacked[u] /\ taken'[u] = taken[u]
    /\ work[u].pc = "writing" => work'[u].pc = "writing" /\ work'[u].tag = work[u].tag
    /\ pending'[u] = pending[u] /\ nacking'[u] = nacking[u]
    /\ \A c \in Conns : rd[c].pc = "acking" /\ rd[c].us = u => rd'[c] = rd[c]

LEMMA SameOwnersKept ==
  ASSUME TypeInv, NEW u \in States, OwnedOK(u), SameOwners(u)
  PROVE  OwnedOK(u)'
<1>1. \A t \in Tags : Owned(u, t) => Owned(u, t)'
  BY DEF Owned, Acks, SameOwners
<1>2. \A t \in Tags : Takes(u, t)' => Takes(u, t)
  BY DEF Takes, SameOwners
<1>3. ch'[u] = "open" /\ ~mapNil'[u] => ch[u] = "open" /\ ~mapNil[u]
  BY DEF SameOwners
<1>. QED
  BY <1>1, <1>2, <1>3, OwnersKept DEF SameOwners

LEMMA OwnedNext ==
  TypeInv /\ SettleInv /\ ShownInv /\ Exclusive /\ OwnedInv /\ [Next]_vars => OwnedInv'
<1> SUFFICES ASSUME TypeInv, SettleInv, ShownInv, Exclusive, OwnedInv, [Next]_vars PROVE OwnedInv'
  OBVIOUS
<1>t. /\ taken \in [States -> Tags \cup {0}] /\ work \in [States -> WorkType]
      /\ rd \in [Conns -> ReaderType] /\ pending \in [States -> [Ids -> Tags \cup {0}]]
      /\ nacking \in [States -> SUBSET Tags] /\ unacked \in [States -> SUBSET Tags]
      /\ ch \in [States -> {"unused", "open", "dead", "nil"}]
      /\ delivered \in [States -> Seq(Msgs)]
  BY DEF TypeInv, TypeOK
<1>f. mapNil \in [States -> BOOLEAN]
  BY DEF TypeInv, TypeOK
<1>w. \A u \in States : WellFormedState(u) /\ EntriesOK(u) /\ Settled(u) /\ OwnedOK(u)
  BY DEF TypeInv, WellFormed, ShownInv, SettleInv, OwnedInv
<1>0. ASSUME \A v \in States : SameOwners(v) PROVE OwnedInv'
  BY <1>0, <1>w, SameOwnersKept DEF OwnedInv
<1>s. ASSUME NEW u \in States, OwnedOK(u)', \A v \in States : v # u => SameOwners(v)
      PROVE  OwnedInv'
  BY <1>s, <1>w, SameOwnersKept DEF OwnedInv
<1>c. ASSUME \A u \in States : ch'[u] # "open" PROVE OwnedInv'
  BY <1>c DEF OwnedInv, OwnedOK
<1> USE DEF connVars, consumerVars, ackVars, brokerVars, historyVars
<1>1. ASSUME NEW c \in Conns, RegisterCreate(c) PROVE OwnedInv'
  <2>1. PICK u \in States :
           /\ ch[u] = "unused" /\ ch' = [ch EXCEPT ![u] = "open"]
           /\ work' = [work EXCEPT ![u] = Idle("starting")]
           /\ UNCHANGED <<rd, taken, pending, nacking, delivered, unacked, mapNil>>
    BY <1>1 DEF RegisterCreate
  <2>2. taken[u] = 0
    BY <2>1, <1>w DEF Settled, OwnsNothing
  <2>3. OwnedOK(u)'
    BY <2>1, <2>2, <1>t DEF OwnedOK, Takes, Tags
  <2>4. \A v \in States : v # u => SameOwners(v)
    BY <2>1, <1>t DEF SameOwners
  <2>. QED
    BY <1>s, <2>3, <2>4
<1>2. ASSUME NEW c \in Conns, RegisterJoin(c) \/ RegisterFail(c) \/ SocketBreak(c) PROVE OwnedInv'
  BY <1>0, <1>2, <1>t DEF RegisterJoin, RegisterFail, SocketBreak, Reader, SameOwners
<1>3. ASSUME NEW c \in Conns, NEW i \in Ids, ReceiptRead(c, i) PROVE OwnedInv'
  BY <1>0, <1>3, <1>t DEF ReceiptRead, SameOwners
<1>4. ASSUME NEW c \in Conns, ReceiptTake(c) PROVE OwnedInv'
  <2>0. rd[c].us \in States /\ rd[c].id \in Ids
    BY <1>4 DEF ReceiptTake, TypeInv, WellFormed, WellFormedReader
  <2>p. PICK w \in States, i \in Ids : w = rd[c].us /\ i = rd[c].id
    BY <2>0
  <2>q. PICK t \in Tags \cup {0} : t = pending[w][i]
    BY <1>t
  <2>1. w \in States /\ i \in Ids /\ t \in Tags \cup {0} /\ rd[c].pc = "receipt"
    BY <1>4 DEF ReceiptTake
  <2>2. /\ pending' = [pending EXCEPT ![w][i] = 0]
        /\ rd' = [rd EXCEPT ![c] = IF t = 0 THEN Reader("reading") ELSE Receipt("acking", w, i, t)]
        /\ UNCHANGED <<work, taken, nacking, ch, delivered, unacked, mapNil>>
    BY <1>4, <2>p, <2>q DEF ReceiptTake
  <2>3. t = pending[w][i]
    BY <2>q
  <2>4. /\ \A j \in Ids : j # i => pending'[w][j] = pending[w][j]
        /\ \A v \in States : v # w => pending'[v] = pending[v]
    BY <2>1, <2>2, <1>t
  <2>5. \A d \in Conns : d # c => rd'[d] = rd[d]
    BY <2>2, <1>t
  <2>6. t # 0 => Acks(c, w, t)'
    BY <2>2, <1>t DEF Acks, Receipt
  <2>7. ASSUME NEW s \in Tags, Owned(w, s) PROVE Owned(w, s)'
    <3>1. s # 0
      BY DEF Tags
    <3>2. ASSUME NEW j \in Ids, pending[w][j] = s PROVE Owned(w, s)'
      BY <2>3, <2>4, <2>6, <3>1, <3>2 DEF Owned
    <3>3. ASSUME NEW d \in Conns, Acks(d, w, s) PROVE Acks(d, w, s)'
      BY <2>1, <2>5, <3>3 DEF Acks
    <3>. QED
      BY <2>2, <2>7, <3>2, <3>3 DEF Owned
  <2>8. OwnedOK(w)'
    BY <2>1, <2>2, <2>7, <1>w, OwnersKept DEF Takes
  <2>9. \A v \in States : v # w => SameOwners(v)
    BY <2>1, <2>2, <2>4, <2>5 DEF SameOwners
  <2>. QED
    BY <1>s, <2>1, <2>8, <2>9
\* The tag of a receipt is settled: it is not unacked any more.
<1>5. ASSUME NEW c \in Conns, ReceiptAck(c) PROVE OwnedInv'
  <2>0. rd[c].us \in States /\ rd[c].tag \in Tags \cup {0}
    BY <1>5, <1>t DEF ReceiptAck, ReaderType, TypeInv, WellFormed, WellFormedReader
  <2>p. PICK w \in States, t \in Tags \cup {0} : w = rd[c].us /\ t = rd[c].tag
    BY <2>0
  <2>1. /\ w \in States /\ rd[c].pc = "acking" /\ rd' = [rd EXCEPT ![c] = Reader("reading")]
        /\ UNCHANGED <<work, taken, nacking, pending, ch, delivered, mapNil>>
        /\ Ack(w, t)
    BY <1>5, <2>p DEF ReceiptAck, Ack
  <2>2. /\ \A d \in Conns : d # c => rd'[d] = rd[d]
        /\ \A v \in States, s \in Tags : Acks(c, v, s) => v = w /\ s = t
    BY <2>1, <2>p, <1>t DEF Acks
  <2>3. /\ ch[w] = "open" => unacked'[w] = unacked[w] \ {t}
        /\ \A v \in States : v # w => unacked'[v] = unacked[v]
    BY <2>1, <1>t DEF Ack
  <2>4. \A v \in States : v # w => SameOwners(v)
    BY <2>p, <2>1, <2>2, <2>3 DEF SameOwners
  <2>5. OwnedOK(w)'
    <3>1. CASE ch[w] = "open"
      <4>1. \A s \in Tags : Takes(w, s)' => Takes(w, s) /\ (Owned(w, s) => Owned(w, s)')
        BY <2>1, <2>2, <2>3, <3>1 DEF Takes, Owned, Acks
      <4>. QED
        BY <2>1, <4>1, <1>w, OwnersKept
    <3>2. CASE ch[w] # "open"
      BY <2>1, <3>2 DEF OwnedOK
    <3>. QED
      BY <3>1, <3>2
  <2>. QED
    BY <1>s, <2>1, <2>4, <2>5
<1>6. ASSUME NEW c \in Conns, Unregister(c) PROVE OwnedInv'
  <2>1. PICK new \in {Reader("gone"), Cleaner("cancel", clients)} : rd' = [rd EXCEPT ![c] = new]
    BY <1>6 DEF Unregister
  <2>2. \A d \in Conns : rd[d].pc = "acking" => rd'[d] = rd[d]
    BY <1>6, <2>1, <1>t DEF Unregister, Leaving
  <2>. QED
    BY <1>0, <1>6, <2>2 DEF Unregister, SameOwners
<1>7. ASSUME NEW c \in Conns, CleanupCancel(c) PROVE OwnedInv'
  BY <1>0, <1>7, <1>t DEF CleanupCancel, SameOwners
<1>8. ASSUME NEW c \in Conns, CleanupDrop(c) PROVE OwnedInv'
  <2>1. rd[c].us \in States
    BY <1>8 DEF CleanupDrop, TypeInv, WellFormed, WellFormedReader
  <2>2. PICK w \in States :
           /\ pending' = [pending EXCEPT ![w] = [i \in Ids |-> 0]]
           /\ mapNil' = [mapNil EXCEPT ![w] = TRUE]
           /\ rd[c].pc = "drop" /\ rd' = [rd EXCEPT ![c] = Cleaner("close", w)]
           /\ UNCHANGED <<work, taken, nacking, ch, delivered, unacked>>
    BY <1>8, <2>1 DEF CleanupDrop
  <2>3. mapNil'[w] /\ \A v \in States : v # w => mapNil'[v] = mapNil[v]
    BY <2>2, <1>f
  <2>4. \A v \in States : v # w => pending'[v] = pending[v]
    BY <2>2, <1>t
  <2>5. \A d \in Conns : rd[d].pc = "acking" => rd'[d] = rd[d]
    BY <2>2, <1>t
  <2>6. \A v \in States : v # w => SameOwners(v)
    BY <2>2, <2>3, <2>4, <2>5 DEF SameOwners
  <2>7. OwnedOK(w)'
    BY <2>3 DEF OwnedOK
  <2>. QED
    BY <1>s, <2>6, <2>7
<1>9. ASSUME NEW c \in Conns, CleanupClose(c) PROVE OwnedInv'
  <2>0. rd[c].us \in States
    BY <1>9 DEF CleanupClose, TypeInv, WellFormed, WellFormedReader
  <2>p. PICK w \in States : w = rd[c].us
    BY <2>0
  <2>1. /\ w \in States /\ rd[c].pc = "close" /\ ch' = [ch EXCEPT ![w] = "nil"]
        /\ unacked' = [unacked EXCEPT ![w] = {}] /\ rd' = [rd EXCEPT ![c] = Reader("gone")]
        /\ UNCHANGED <<work, taken, nacking, pending, delivered, mapNil>>
    BY <1>9, <2>p DEF CleanupClose
  <2>2. ch'[w] = "nil" /\ \A v \in States : v # w => ch'[v] = ch[v] /\ unacked'[v] = unacked[v]
    BY <2>1, <1>t
  <2>3. \A d \in Conns : rd[d].pc = "acking" => rd'[d] = rd[d]
    BY <2>1, <1>t
  <2>4. \A v \in States : v # w => SameOwners(v)
    BY <2>1, <2>2, <2>3 DEF SameOwners
  <2>5. OwnedOK(w)'
    BY <2>2 DEF OwnedOK
  <2>. QED
    BY <1>s, <2>1, <2>4, <2>5
<1>10. ASSUME NEW u \in States, ConsumerStart(u) \/ ConsumeFails(u) \/ ConsumerExit(u)
       PROVE  OwnedInv'
  BY <1>0, <1>10, <1>t DEF ConsumerStart, ConsumeFails, ConsumerExit, SameOwners
\* The delivery taken is settled in the same step, or in hand.
<1>11. ASSUME NEW u \in States, DeliveryDiscard(u) \/ DeliveryOffline(u) PROVE OwnedInv'
  <2>1. PICK t \in Tags, m \in Msgs : Receives(u, t, m) /\ (Ack(u, t) \/ Requeue(u, t)) /\ UNCHANGED work
    BY <1>11 DEF DeliveryDiscard, DeliveryOffline
  <2>2. /\ t = taken[u] + 1 /\ taken' = [taken EXCEPT ![u] = t]
        /\ UNCHANGED <<rd, nacking, pending, ch, delivered, mapNil>>
    BY <2>1 DEF Receives, Ack, Requeue
  <2>3. /\ ch[u] = "open" => unacked'[u] = unacked[u] \ {t}
        /\ \A v \in States : v # u => unacked'[v] = unacked[v]
    BY <2>1, <1>t DEF Ack, Requeue
  <2>4. taken'[u] = taken[u] + 1 /\ taken[u] \in Nat /\ \A v \in States : v # u => taken'[v] = taken[v]
    BY <2>2, <1>t DEF Tags
  <2>5. \A v \in States : v # u => SameOwners(v)
    BY <2>1, <2>2, <2>3, <2>4 DEF SameOwners
  <2>6. OwnedOK(u)'
    <3>1. CASE ch[u] = "open"
      <4>1. \A s \in Tags : s # t /\ s <= taken[u] + 1 => s <= taken[u]
        BY <2>2, <2>4 DEF Tags
      <4>2. \A s \in Tags : Takes(u, s)' => Takes(u, s)
        BY <2>3, <2>4, <3>1, <4>1 DEF Takes
      <4>3. \A s \in Tags : Owned(u, s) => Owned(u, s)'
        BY <2>1, <2>2 DEF Owned, Acks
      <4>. QED
        BY <2>2, <4>2, <4>3, <1>w, OwnersKept
    <3>2. CASE ch[u] # "open"
      BY <2>2, <3>2 DEF OwnedOK
    <3>. QED
      BY <3>1, <3>2
  <2>. QED
    BY <1>s, <2>5, <2>6
<1>12. ASSUME NEW u \in States, DeliveryStart(u) PROVE OwnedInv'
  <2>1. PICK t \in Tags :
           /\ work[u].pc = "waiting" /\ work' = [work EXCEPT ![u] = Writing(t, conns[u], FALSE)]
           /\ t = taken[u] + 1 /\ taken' = [taken EXCEPT ![u] = t]
           /\ UNCHANGED <<rd, nacking, pending, ch, delivered, mapNil, unacked>>
    BY <1>12 DEF DeliveryStart, Receives
  <2>2. /\ taken'[u] = taken[u] + 1 /\ taken[u] \in Nat
        /\ work'[u].pc = "writing" /\ work'[u].tag = t
        /\ \A v \in States : v # u => taken'[v] = taken[v] /\ work'[v] = work[v]
    BY <2>1, <1>t DEF Tags, Writing
  <2>3. \A v \in States : v # u => SameOwners(v)
    BY <2>1, <2>2 DEF SameOwners
  <2>4. \A s \in Tags : s # t /\ s <= taken[u] + 1 => s <= taken[u]
    BY <2>1, <2>2 DEF Tags
  <2>5. Owned(u, t)'
    BY <2>2 DEF Owned
  <2>6. \A s \in Tags : Owned(u, s) => Owned(u, s)'
    BY <2>1 DEF Owned, Acks
  <2>7. \A s \in Tags : Takes(u, s)' => Owned(u, s)' \/ (Takes(u, s) /\ (Owned(u, s) => Owned(u, s)'))
    BY <2>1, <2>2, <2>4, <2>5, <2>6 DEF Takes
  <2>8. OwnedOK(u)'
    BY <2>1, <2>7, <1>w, OwnersKept
  <2>. QED
    BY <1>s, <2>3, <2>8
<1>13. ASSUME NEW u \in States, NEW c \in Conns, WriteOk(u, c) \/ WriteFail(u, c) PROVE OwnedInv'
  <2>1. /\ work[u].pc = "writing"
        /\ \E todo, hit : work' = [work EXCEPT ![u] = Writing(work[u].tag, todo, hit)]
    BY <1>13, <1>t DEF WriteOk, WriteFail
  <2>2. work'[u].pc = "writing" /\ work'[u].tag = work[u].tag
        /\ \A v \in States : v # u => work'[v] = work[v]
    BY <2>1, <1>t DEF Writing
  <2>3. UNCHANGED <<taken, rd, pending, nacking, ch, delivered, unacked, mapNil>>
    BY <1>13 DEF WriteOk, WriteFail
  <2>. QED
    BY <1>0, <2>2, <2>3 DEF SameOwners
<1>14. ASSUME NEW u \in States, NobodyReached(u) \/ NonPayloadForwarded(u) PROVE OwnedInv'
  <2> DEFINE t == work[u].tag
  <2>1. /\ (Ack(u, t) \/ Requeue(u, t)) /\ work' = [work EXCEPT ![u] = Idle("waiting")]
        /\ UNCHANGED <<taken, rd, nacking, pending, ch, delivered, mapNil>>
    BY <1>14 DEF NobodyReached, NonPayloadForwarded, Ack, Requeue
  <2>2. /\ ch[u] = "open" => unacked'[u] = unacked[u] \ {t}
        /\ \A v \in States : v # u => unacked'[v] = unacked[v] /\ work'[v] = work[v]
    BY <2>1, <1>t DEF Ack, Requeue
  <2>3. \A v \in States : v # u => SameOwners(v)
    BY <2>1, <2>2 DEF SameOwners
  <2>4. OwnedOK(u)'
    <3>1. CASE ch[u] = "open"
      <4>1. \A s \in Tags : Takes(u, s)' => Takes(u, s) /\ (Owned(u, s) => Owned(u, s)')
        BY <2>1, <2>2, <3>1 DEF Takes, Owned, Acks
      <4>. QED
        BY <2>1, <4>1, <1>w, OwnersKept
    <3>2. CASE ch[u] # "open"
      BY <2>1, <3>2 DEF OwnedOK
    <3>. QED
      BY <3>1, <3>2
  <2>. QED
    BY <1>s, <2>3, <2>4
\* The entry overwritten is not a payload of its own: both carry one identifier.
<1>15. ASSUME NEW u \in States, AwaitReceipt(u) PROVE OwnedInv'
  <2> DEFINE t == work[u].tag
             id == MsgId[delivered[u][t]]
  <2>1. /\ work[u].pc = "writing" /\ work' = [work EXCEPT ![u] = Idle("waiting")]
        /\ pending' = [pending EXCEPT ![u][id] = t]
        /\ Kind[delivered[u][t]] = "payload"
        /\ UNCHANGED <<taken, rd, nacking, ch, delivered, mapNil, unacked>>
    BY <1>15 DEF AwaitReceipt, Written, InHand
  <2>2. t \in 1 .. Len(delivered[u]) /\ id \in Ids /\ delivered[u][t] \in Msgs
    <3>1. t = taken[u] /\ taken[u] # 0 /\ taken[u] <= Len(delivered[u])
          /\ taken[u] \in Nat /\ delivered[u] \in Seq(Msgs)
      BY <2>1, <1>t, <1>w DEF WellFormedState, Tags
    <3>2. delivered[u][t] \in Msgs
      BY <3>1
    <3>. QED
      BY <3>1, <3>2, DeliveryAssumption DEF DeliveryAssumption
  <2>3. \A v \in States : v # u => work'[v] = work[v] /\ pending'[v] = pending[v]
    BY <2>1, <1>t
  <2>4. \A v \in States : v # u => SameOwners(v)
    BY <2>1, <2>3 DEF SameOwners
  <2>5. \A j \in Ids : pending'[u][j] = IF j = id THEN t ELSE pending[u][j]
    BY <2>1, <2>2, <1>t
  <2>e. id = MsgId[delivered[u][t]]
    OBVIOUS
  <2>6. ASSUME (ch[u] = "open" /\ ~mapNil[u])', NEW s \in Tags, Takes(u, s)', Alone(delivered[u][s])
        PROVE  Owned(u, s)'
    <3>1. ch[u] = "open" /\ Takes(u, s) /\ Owned(u, s)
      BY <2>1, <2>6, <1>w DEF Takes, OwnedOK
    <3>2. OwnersOK(u) /\ t \in unacked[u]
      BY <2>1, <3>1, <1>w DEF Settled, OwnersOK, InHandOK
    <3>3. CASE s = t
      BY <2>2, <2>5, <3>3 DEF Owned
    <3>4. ASSUME s # t, NEW j \in Ids, pending[u][j] = s PROVE j # id
      <4>1. s \in unacked[u] /\ Kind[delivered[u][s]] = "payload" /\ MsgId[delivered[u][s]] = j
        BY <3>1, <3>4, <1>w DEF EntriesOK, EntryOK, Takes, Tags
      <4>2. SUFFICES ASSUME j = id PROVE FALSE
        OBVIOUS
      <4>3. MsgId[delivered[u][t]] = MsgId[delivered[u][s]]
        BY <2>e, <4>1, <4>2
      <4>4. delivered[u][t] = delivered[u][s]
        BY <2>1, <2>2, <2>6, <4>3 DEF Alone
      <4>. QED
        BY <3>2, <3>4, <4>1, <4>4 DEF Exclusive
    <3>5. CASE s # t
      <4>1. ASSUME NEW j \in Ids, pending[u][j] = s PROVE pending'[u][j] = s
        BY <2>5, <3>4, <3>5, <4>1
      <4>. QED
        BY <2>1, <3>1, <3>5, <4>1 DEF Owned, Acks
    <3>. QED
      BY <3>3, <3>5
  <2>7. OwnedOK(u)'
    BY <2>1, <2>6 DEF OwnedOK, Alone
  <2>. QED
    BY <1>s, <2>4, <2>7
<1>16. ASSUME NEW u \in States, NEW t \in Tags, TimerFire(u, t) PROVE OwnedInv'
  BY <1>0, <1>16 DEF TimerFire, SameOwners
<1>17. ASSUME NEW u \in States, NEW t \in Tags, TimerTake(u, t) PROVE OwnedInv'
  <2> DEFINE id == MsgId[delivered[u][t]]
  <2>1. /\ pending' = [pending EXCEPT ![u][id] = 0]
        /\ nacking' = [nacking EXCEPT ![u] = @ \cup ({pending[u][id]} \ {0})]
        /\ UNCHANGED <<taken, work, rd, ch, delivered, mapNil, unacked>>
    BY <1>17 DEF TimerTake
  <2> HIDE DEF id
  <2>2. /\ \A j \in Ids : j # id => pending'[u][j] = pending[u][j]
        /\ nacking'[u] = nacking[u] \cup ({pending[u][id]} \ {0})
        /\ \A v \in States : v # u => nacking'[v] = nacking[v] /\ pending'[v] = pending[v]
    BY <2>1, <1>t
  <2>3. \A v \in States : v # u => SameOwners(v)
    BY <2>1, <2>2 DEF SameOwners
  <2>4. \A s \in Tags : s # 0
    BY DEF Tags
  <2>5. ASSUME NEW s \in Tags, Owned(u, s) PROVE Owned(u, s)'
    <3>1. ASSUME NEW j \in Ids, pending[u][j] = s PROVE pending'[u][j] = s \/ s \in nacking'[u]
      BY <2>2, <2>4, <3>1
    <3>. QED
      BY <2>1, <2>2, <2>5, <3>1 DEF Owned, Acks
  <2>6. OwnedOK(u)'
    BY <2>1, <2>5, <1>w, OwnersKept DEF Takes
  <2>. QED
    BY <1>s, <2>3, <2>6
<1>18. ASSUME NEW u \in States, NEW t \in Tags, TimerNack(u, t) PROVE OwnedInv'
  <2>1. /\ Requeue(u, t) /\ nacking' = [nacking EXCEPT ![u] = @ \ {t}]
        /\ UNCHANGED <<taken, work, rd, pending, ch, delivered, mapNil>>
    BY <1>18 DEF TimerNack, Requeue
  <2>2. /\ ch[u] = "open" => unacked'[u] = unacked[u] \ {t}
        /\ nacking'[u] = nacking[u] \ {t}
        /\ \A v \in States : v # u => unacked'[v] = unacked[v] /\ nacking'[v] = nacking[v]
    BY <2>1, <1>t DEF Requeue
  <2>3. \A v \in States : v # u => SameOwners(v)
    BY <2>1, <2>2 DEF SameOwners
  <2>4. OwnedOK(u)'
    <3>1. CASE ch[u] = "open"
      <4>1. \A s \in Tags : Takes(u, s)' => Takes(u, s) /\ (Owned(u, s) => Owned(u, s)')
        BY <2>1, <2>2, <3>1 DEF Takes, Owned, Acks
      <4>. QED
        BY <2>1, <4>1, <1>w, OwnersKept
    <3>2. CASE ch[u] # "open"
      BY <2>1, <3>2 DEF OwnedOK
    <3>. QED
      BY <3>1, <3>2
  <2>. QED
    BY <1>s, <2>3, <2>4
<1>19. ASSUME NEW u \in States, NEW m \in Msgs, BrokerDeliver(u, m) PROVE OwnedInv'
  <2> DEFINE n == Len(delivered[u]) + 1
  <2>1. /\ unacked' = [unacked EXCEPT ![u] = @ \cup {n}]
        /\ delivered' = [delivered EXCEPT ![u] = Append(@, m)]
        /\ UNCHANGED <<taken, work, rd, pending, nacking, ch, mapNil>>
    BY <1>19 DEF BrokerDeliver
  <2>2. /\ unacked'[u] = unacked[u] \cup {n} /\ delivered'[u] = Append(delivered[u], m)
        /\ \A v \in States : v # u => unacked'[v] = unacked[v] /\ delivered'[v] = delivered[v]
    BY <2>1, <1>t
  <2>3. ~(n <= taken[u])
    <3>1. taken[u] \in Nat /\ Len(delivered[u]) \in Nat /\ taken[u] <= Len(delivered[u])
      BY <1>t, <1>w DEF WellFormedState, Tags
    <3>. QED
      BY <3>1
  <2> HIDE DEF n
  <2>4. \A v \in States : v # u => SameOwners(v)
    BY <2>1, <2>2 DEF SameOwners
  <2>5. \A s \in Tags : Takes(u, s)' => Takes(u, s) /\ (Owned(u, s) => Owned(u, s)')
    BY <2>1, <2>2, <2>3 DEF Takes, Owned, Acks
  <2>6. OwnedOK(u)'
    BY <2>1, <2>2, <2>5, <1>w, OwnersKept
  <2>. QED
    BY <1>s, <2>4, <2>6
<1>20. ASSUME ProcessStops \/ BrokerLoss PROVE OwnedInv'
  BY <1>20, <1>c, <1>t DEF ProcessStops, BrokerLoss
<1>22. ASSUME NEW u \in States, ChannelClosed(u) PROVE OwnedInv'
  BY <1>0, <1>22, <1>t DEF ChannelClosed, SameOwners
<1>23. ASSUME NEW m \in Msgs, Expire(m) PROVE OwnedInv'
  BY <1>0, <1>23 DEF Expire, SameOwners
<1>21. CASE UNCHANGED vars
  BY <1>0, <1>21 DEF vars, SameOwners
<1>. QED
  BY <1>1, <1>2, <1>3, <1>4, <1>5, <1>6, <1>7, <1>8, <1>9, <1>10, <1>11, <1>12, <1>13, <1>14,
     <1>15, <1>16, <1>17, <1>18, <1>19, <1>20, <1>21, <1>22, <1>23
     DEF Next, ConnStep, ConsumerStep, TimerStep, Crash, AwaitReceiptPanic

\* "message forwarded, awaiting client ack": whoever is interrupted by whom,
\* somebody is going to settle every delivery the consumer took, and a pending
\* entry has a timer that finds it.
THEOREM DeliveriesNotForgotten == Spec => []NothingForgotten
<1>1. TypeInv /\ ShownInv /\ OwnedInv => NothingForgotten
  <2> SUFFICES ASSUME TypeInv, ShownInv, OwnedInv, NEW u \in States, ch[u] = "open", ~mapNil[u],
                      NEW t \in unacked[u] \cap (1 .. taken[u]), Alone(delivered[u][t])
               PROVE  /\ t \in Committed(u)
                      /\ t \in PendingTags(u) => t \in armed[u] \cup fired[u]
    BY DEF NothingForgotten
  <2>1. t \in Tags /\ t # 0 /\ Takes(u, t)
    BY DEF TypeInv, TypeOK, Takes, Tags
  <2>2. Owned(u, t)
    BY <2>1 DEF OwnedInv, OwnedOK
  <2>3. t \in Committed(u)
    BY <2>1, <2>2 DEF Owned, Committed, InHandTags, PendingTags, AckingTags
  <2>4. t \in PendingTags(u) => t \in armed[u] \cup fired[u]
    BY <2>1 DEF PendingTags, ShownInv, EntriesOK
  <2>. QED
    BY <2>3, <2>4
<1>2. Init => OwnedInv
  BY OwnedInit
<1>3. TypeInv /\ SettleInv /\ ShownInv /\ Exclusive /\ OwnedInv /\ [Next]_vars => OwnedInv'
  BY OwnedNext
<1>. QED
  BY <1>1, <1>2, <1>3, QueueInv, PTL DEF Spec
=============================================================================
