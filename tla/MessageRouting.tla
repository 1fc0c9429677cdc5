--------------------------- MODULE MessageRouting ---------------------------
(***************************************************************************)
(* What the connection manager does with a frame a client sends: the copy  *)
(* to the addressee, the echo to the sender's other devices, the push that *)
(* wakes the devices of a user without a session, and the row written when *)
(* the copy could not be published; and the receipts sent over REST        *)
(* (connection_manager.go, message_service.go).  It is composed with       *)
(* RabbitClient, whose connection the publishes use.                       *)
(*                                                                         *)
(* ReadPump handles the frames of a connection one after the other and     *)
(* they share no state, so a device sends one frame, and the device names  *)
(* it.  Consumption is DeviceDelivery's: here a frame stays where it was   *)
(* put, and the consumer's rule that drops a device's own frames is part   *)
(* of ShownTo: a frame is shown unless it expires, which DeviceQueue says. *)
(* Key distribution is in Inbox.                                           *)
(***************************************************************************)
EXTENDS Naturals

CONSTANTS Users, Groups, Devices,
          OwnerOf,      \* OwnerOf[d]: the user of device d
          MembersOf,    \* MembersOf[g]: users with a row in group g to begin with
          HasToken,     \* devices with a token for push messages
          Senders,      \* devices that send a frame
          Posters,      \* devices that post a receipt over REST
          NoDevice, NoUser,
          Movers,       \* bound: users whose rows and bindings change while a
                        \*   frame is handled
          MaxConns      \* bound: broker connections

ASSUME RoutingAssumption ==
    /\ OwnerOf \in [Devices -> Users]
    /\ MembersOf \in [Groups -> SUBSET Users]
    /\ HasToken \subseteq Devices /\ Senders \cup Posters \subseteq Devices
    /\ Movers \subseteq Users
    /\ NoDevice \notin Devices /\ NoUser \notin Users \cup Groups
    /\ MaxConns \in Nat \ {0}

VARIABLES
    conn, dialled, open, closed, loop, closing, late,   \* of RabbitClient
    online,       \* devices with an entry in m.clients
    provisioned,  \* devices whose queue is declared and bound to its user
    members,      \* members[g]: users with a row in group g
    bound,        \* bound[g]: devices whose queue is bound to group g
    queued,       \* queued[d]: frames put into the queue of device d
    rows,         \* frames saved in encrypted_messages
    pushed,       \* pushed[d]: devices woken up for the frame of d
    req,          \* what is done with the frame of each sender
    audience,     \* whom the frame of d is for (history), see Audience
    asleep,       \* users to be woken up that have been addressees, and have
                  \*   had no session, ever since (history)
    trouble       \* what failed or was refused on the way (history)

rabbit == <<conn, dialled, open, closed, loop, closing, late>>
sessions == <<online, provisioned, members, bound>>
past == <<audience, asleep, trouble>>
vars == <<rabbit, sessions, queued, rows, pushed, req, past>>

Rabbit == INSTANCE RabbitClient

DevicesOf(u) == {d \in Devices : OwnerOf[d] = u}
Online(u) == \E d \in online : OwnerOf[d] = u
Addressees(kind, to) == IF kind = "group" THEN members[to] ELSE {to}

\* The queues bound to the routing key of a user, and to that of a frame.
Queues(u) == {d \in provisioned : OwnerOf[d] = u}
Reached(kind, to) == IF kind = "group" THEN bound[to] ELSE Queues(to)

\* kind: the frame; to: user or group; about: the frame a REST receipt is
\* for, whose sender is `to'; pc: the step; k: the connection a publish has written to; err:
\* publishErr; todo: users not yet looked at for a push; user: the one
\* whose devices are listed.
Request(kind, to, about, pc) ==
    [kind |-> kind, to |-> to, about |-> about, pc |-> pc,
     k |-> 0, err |-> FALSE, todo |-> {},
     user |-> NoUser]
Idle == Request("none", NoUser, NoDevice, "idle")
Busy(d) == req[d].pc \notin {"idle", "done"}
Actors == Senders \cup Posters

\* own: the sender's devices that had a queue when the frame was read; always,
\* ever: the queues its routing key has led to all the time since, and at
\* some time since.
Audience(own, reached) == [own |-> own, always |-> reached, ever |-> reached]

Goto(d, pc) == req' = [req EXCEPT ![d].pc = pc]
Troubled(d, what) == trouble' = [trouble EXCEPT ![d] = @ \cup {what}]

-----------------------------------------------------------------------------
(* Sessions come and go; queues are provisioned by Register before it      *)
(* enters the session, and by a drain of the inbox; and the members of a   *)
(* group change.  Any may be there when a frame is read; what happens      *)
(* while no frame is handled is left out.                                  *)

Handling == \E s \in Senders : Busy(s)

\* Where the frames being handled lead changes with the bindings.
Rebound ==
    /\ req' = req
    /\ audience' = [s \in Actors |->
           IF ~Busy(s) THEN audience[s]
           ELSE LET now == Reached(req[s].kind, req[s].to)' IN
                [audience[s] EXCEPT !.always = @ \cap now, !.ever = @ \cup now]]

\* ProvisionDeviceQueue declares the device's queue and binds it to its user
\* and to the groups its user has a row in.
Provision(d) ==
    /\ Handling /\ d \notin provisioned
    /\ provisioned' = provisioned \cup {d}
    /\ bound' = [g \in Groups |-> IF OwnerOf[d] \in members[g] THEN bound[g] \cup {d}
                                  ELSE bound[g]]
    /\ Rebound
    /\ UNCHANGED <<rabbit, online, members, queued, rows, pushed, asleep, trouble>>

\* (mutant) a queue that could not be provisioned does not keep the session out
ConnectAnyway(d) ==
    /\ Handling /\ d \notin online
    /\ online' = online \cup {d}
    /\ asleep' = [s \in Actors |-> IF Busy(s) THEN asleep[s] \ {OwnerOf[d]} ELSE asleep[s]]
    /\ UNCHANGED <<rabbit, provisioned, members, bound, queued, rows, pushed, req,
                   audience, trouble>>

Connect(d) ==
    /\ Handling /\ d \in provisioned \ online
    /\ online' = online \cup {d}
    /\ asleep' = [s \in Actors |-> IF Busy(s) THEN asleep[s] \ {OwnerOf[d]} ELSE asleep[s]]
    /\ UNCHANGED <<rabbit, provisioned, members, bound, queued, rows, pushed, req,
                   audience, trouble>>

\* The goroutine that handles a frame unregisters afterwards.
Disconnect(d) ==
    /\ Handling /\ d \in online
    /\ d \in Senders => ~Busy(d)
    /\ online' = online \ {d}
    /\ UNCHANGED <<rabbit, provisioned, members, bound, queued, rows, pushed, req, past>>

\* Requests about a group write its rows and bind and unbind its queues, in
\* several calls of which any may fail.  Which orders of them there are is
\* GroupMembership's; here they come in any order.
About(s, g) == Busy(s) /\ req[s].kind = "group" /\ req[s].to = g
GroupHandled(g) == \E s \in Senders : About(s, g)

Join(g, u) ==
    /\ GroupHandled(g) /\ u \in Movers /\ u \notin members[g]
    /\ members' = [members EXCEPT ![g] = @ \cup {u}]
    /\ UNCHANGED <<rabbit, online, provisioned, bound, queued, rows, pushed, req, past>>

Leave(g, u) ==
    /\ GroupHandled(g) /\ u \in Movers /\ u \in members[g]
    /\ members' = [members EXCEPT ![g] = @ \ {u}]
    /\ asleep' = [s \in Actors |-> IF About(s, g) THEN asleep[s] \ {u} ELSE asleep[s]]
    /\ UNCHANGED <<rabbit, online, provisioned, bound, queued, rows, pushed, req,
                   audience, trouble>>

Bind(g, d) ==
    /\ GroupHandled(g) /\ OwnerOf[d] \in Movers /\ d \in provisioned \ bound[g]
    /\ bound' = [bound EXCEPT ![g] = @ \cup {d}]
    /\ Rebound
    /\ UNCHANGED <<rabbit, online, provisioned, members, queued, rows, pushed,
                   asleep, trouble>>

Unbind(g, d) ==
    /\ GroupHandled(g) /\ OwnerOf[d] \in Movers /\ d \in bound[g]
    /\ bound' = [bound EXCEPT ![g] = @ \ {d}]
    /\ Rebound
    /\ UNCHANGED <<rabbit, online, provisioned, members, queued, rows, pushed,
                   asleep, trouble>>

\* A device sends a frame to a user or to a group.
ReadFrame(d, kind, to) ==
    /\ d \in Senders \cap online /\ req[d].pc = "idle"
    /\ to \in IF kind = "group" THEN Groups ELSE Users
    /\ req' = [req EXCEPT ![d] =
                  Request(kind, to, NoDevice, IF kind = "group" THEN "member" ELSE "copy")]
    /\ audience' = [audience EXCEPT ![d] = Audience(Queues(OwnerOf[d]), Reached(kind, to))]
    /\ asleep' = [asleep EXCEPT ![d] =
                     IF kind = "receipt" THEN {} ELSE {u \in Addressees(kind, to) : ~Online(u)}]
    /\ UNCHANGED <<rabbit, sessions, queued, rows, pushed, trouble>>

\* handleGroupPayload asks for the sender's row, once: a sender that is removed
\* after this has its frame published.
CheckMember(d) ==
    /\ req[d].pc = "member"
    /\ \/ OwnerOf[d] \in members[req[d].to] /\ Goto(d, "copy") /\ UNCHANGED trouble
       \/ Goto(d, "done") /\ Troubled(d, "refused")
    /\ UNCHANGED <<rabbit, sessions, queued, rows, pushed, audience, asleep>>

-----------------------------------------------------------------------------
(* publishToUser and publishToGroup.  A publish opens a channel of its own *)
(* on the connection of the moment, writes, and closes the channel, for    *)
(* which it waits for the broker's answer; by then the broker has routed   *)
(* the frame.  It fails when the connection is not open, or breaks before  *)
(* the write, or grants no channel.  Nothing is confirmed: when the        *)
(* connection breaks after the write, the publish returns no error, and    *)
(* the frame may not have arrived.                                         *)

Publishing(d) == req[d].pc \in {"copy", "echo"}

\* (mutant) the frame of a group carries no source
FrameUnsigned(d) ==
    [msg |-> d, src |-> IF req[d].pc = "echo" THEN d ELSE NoDevice]

Frame(d) ==
    [msg |-> d,
     src |-> IF req[d].pc = "echo" \/ req[d].kind = "group" THEN d ELSE NoDevice]

\* The exchange puts a frame into every queue bound to its routing key.
Targets(d) ==
    IF req[d].pc = "echo" THEN Queues(OwnerOf[d]) ELSE Reached(req[d].kind, req[d].to)

\* (mutant) an error of the copy ends the handling of a direct frame too
NextStepGivesUp(r, err) ==
    CASE r.pc = "copy" /\ r.kind # "rest" /\ ~err -> "echo"
      [] r.pc = "echo" /\ r.kind = "direct" -> "wake"
      [] r.pc = "echo" /\ r.kind = "group" -> "group"
      [] OTHER -> "done"

\* A group frame that could not be published is only logged.
NextStep(r, err) ==
    CASE r.pc = "copy" /\ r.kind # "rest" /\ ~(r.kind = "group" /\ err) -> "echo"
      [] r.pc = "echo" /\ r.kind = "direct" -> "wake"
      [] r.pc = "echo" /\ r.kind = "group" -> "group"
      [] OTHER -> "done"

\* For a direct frame the receiver is the one user to wake up.
Published(d, err) ==
    req' = [req EXCEPT ![d].pc = NextStep(req[d], err), ![d].k = 0,
                       ![d].err = @ \/ (err /\ req[d].pc = "copy"),
                       ![d].todo = IF req[d].kind = "direct" THEN {req[d].to} ELSE {}]

Write(d) ==
    /\ Publishing(d) /\ req[d].k = 0 /\ Rabbit!Usable
    /\ req' = [req EXCEPT ![d].k = conn]
    /\ UNCHANGED <<rabbit, sessions, queued, rows, pushed, past>>

PublishFails(d) ==
    /\ Publishing(d) /\ req[d].k = 0
    /\ Published(d, TRUE)
    /\ Troubled(d, req[d].pc)
    /\ UNCHANGED <<rabbit, sessions, queued, rows, pushed, audience, asleep>>

Routed(d) ==
    /\ Publishing(d) /\ req[d].k \in open
    /\ queued' = [q \in Devices |->
                     IF q \in Targets(d) THEN queued[q] \cup {Frame(d)} ELSE queued[q]]
    /\ Published(d, FALSE)
    /\ UNCHANGED <<rabbit, sessions, rows, pushed, past>>

Lost(d) ==
    /\ Publishing(d) /\ req[d].k \notin open \cup {0}
    /\ Published(d, FALSE)
    /\ Troubled(d, IF req[d].pc = "copy" THEN "lostCopy" ELSE "lostEcho")
    /\ UNCHANGED <<rabbit, sessions, queued, rows, pushed, audience, asleep>>

-----------------------------------------------------------------------------
(* The push: users without any session.                                    *)

GetGroup(d) ==
    /\ req[d].pc = "group"
    /\ req' = [req EXCEPT ![d].pc = "wake",
                          ![d].todo = members[req[d].to] \ {OwnerOf[d]}]
    /\ UNCHANGED <<rabbit, sessions, queued, rows, pushed, past>>

GetGroupFails(d) ==
    /\ req[d].pc = "group"
    /\ Goto(d, "done")
    /\ Troubled(d, "noList")
    /\ UNCHANGED <<rabbit, sessions, queued, rows, pushed, audience, asleep>>

\* (mutant) any session counts, whoever its user is
AnyoneOnline(u) == online # {}

\* userHasAnyOnlineSession, under m.mu.
HasSession(u) == Online(u)

\* A user with a session is passed over.
CheckOnline(d, u) ==
    /\ req[d].pc = "wake" /\ u \in req[d].todo
    /\ req' = IF HasSession(u)
              THEN [req EXCEPT ![d].todo = @ \ {u}]
              ELSE [req EXCEPT ![d].pc = "list", ![d].user = u]
    /\ UNCHANGED <<rabbit, sessions, queued, rows, pushed, past>>

Listed(d) == req' = [req EXCEPT ![d].pc = "wake", ![d].user = NoUser,
                                ![d].todo = @ \ {req[d].user}]

WakeUp(d) ==
    /\ req[d].pc = "list"
    /\ pushed' = [pushed EXCEPT ![d] = @ \cup (DevicesOf(req[d].user) \cap HasToken)]
    /\ Listed(d)
    /\ UNCHANGED <<rabbit, sessions, queued, rows, past>>

ListFails(d) ==
    /\ req[d].pc = "list"
    /\ Listed(d)
    /\ Troubled(d, "noList")
    /\ UNCHANGED <<rabbit, sessions, queued, rows, pushed, audience, asleep>>

WakeDone(d) ==
    /\ req[d].pc = "wake" /\ req[d].todo = {}
    /\ Goto(d, IF req[d].kind = "direct" /\ req[d].err THEN "save" ELSE "done")
    /\ UNCHANGED <<rabbit, sessions, queued, rows, pushed, past>>

-----------------------------------------------------------------------------
(* The database fallback, and the receipts that are looked up in it.       *)

SaveMessage(d) ==
    /\ req[d].pc = "save"
    /\ rows' = rows \cup {d}
    /\ Goto(d, "done")
    /\ UNCHANGED <<rabbit, sessions, queued, pushed, past>>

SaveFails(d) ==
    /\ req[d].pc = "save"
    /\ Goto(d, "done")
    /\ Troubled(d, "unsaved")
    /\ UNCHANGED <<rabbit, sessions, queued, rows, pushed, audience, asleep>>

\* POST /messages/receipts with a receipt for a direct frame that has been
\* handled; no session is needed.
PostReceipt(d, m) ==
    /\ d \in Posters /\ req[d].pc = "idle"
    /\ req[m].kind = "direct" /\ req[m].to = OwnerOf[d] /\ req[m].pc = "done"
    /\ req' = [req EXCEPT ![d] = Request("rest", OwnerOf[m], m, "lookup")]
    /\ audience' = [audience EXCEPT ![d] = Audience({}, Reached("rest", OwnerOf[m]))]
    /\ UNCHANGED <<rabbit, sessions, queued, rows, pushed, asleep, trouble>>

\* The row tells whom the receipt is for; one without a row is skipped.
LookUp(d) ==
    /\ req[d].pc = "lookup"
    /\ Goto(d, IF req[d].about \in rows THEN "copy" ELSE "done")
    /\ UNCHANGED <<rabbit, sessions, queued, rows, pushed, past>>

LookUpFails(d) ==
    /\ req[d].pc = "lookup"
    /\ Goto(d, "done")
    /\ Troubled(d, "noList")
    /\ UNCHANGED <<rabbit, sessions, queued, rows, pushed, audience, asleep>>

-----------------------------------------------------------------------------
\* Any device may have connected before, and may be connected; the queues
\* of the members are bound to their groups.
Init ==
    /\ Rabbit!Init
    /\ provisioned \in SUBSET Devices /\ online \in SUBSET provisioned
    /\ members = MembersOf
    /\ bound = [g \in Groups |-> {d \in provisioned : OwnerOf[d] \in members[g]}]
    /\ queued = [d \in Devices |-> {}] /\ rows = {}
    /\ pushed = [d \in Senders |-> {}]
    /\ req = [d \in Actors |-> Idle]
    /\ audience = [d \in Actors |-> Audience({}, {})] /\ asleep = [d \in Actors |-> {}]
    /\ trouble = [d \in Actors |-> {}]

Handles(d) ==
    \/ \E to \in Users \cup Groups, kind \in {"direct", "receipt", "group"} :
            ReadFrame(d, kind, to)
    \/ CheckMember(d)
    \/ Write(d) \/ PublishFails(d) \/ Routed(d) \/ Lost(d)
    \/ GetGroup(d) \/ GetGroupFails(d)
    \/ (\E u \in Users : CheckOnline(d, u)) \/ WakeUp(d) \/ ListFails(d) \/ WakeDone(d)
    \/ SaveMessage(d) \/ SaveFails(d)
    \/ (\E m \in Senders : PostReceipt(d, m)) \/ LookUp(d) \/ LookUpFails(d)

Routing == UNCHANGED <<sessions, queued, rows, pushed, req, past>>

Next ==
    \/ \E d \in Actors : Handles(d)
    \/ \E d \in Devices : Provision(d) \/ Connect(d) \/ Disconnect(d)
    \/ \E g \in Groups : \/ \E u \in Users : Join(g, u) \/ Leave(g, u)
                         \/ \E d \in Devices : Bind(g, d) \/ Unbind(g, d)
    \/ Rabbit!Next /\ Routing

Spec == Init /\ [][Next]_vars

\* The goroutine that reconnects is scheduled, and the broker accepts a dial
\* at some time.  Clients and requests owe nothing.
FairSpec == Spec /\ WF_vars(Rabbit!LoopStep /\ Routing)

-----------------------------------------------------------------------------
Troubles == {"refused", "copy", "echo", "lostCopy", "lostEcho", "noList", "unsaved"}

TypeOK ==
    /\ Rabbit!TypeOK
    /\ online \subseteq provisioned /\ provisioned \subseteq Devices
    /\ members \in [Groups -> SUBSET Users] /\ bound \in [Groups -> SUBSET provisioned]
    /\ queued \in [Devices -> SUBSET [msg : Actors, src : Devices \cup {NoDevice}]]
    /\ rows \subseteq Senders
    /\ pushed \in [Senders -> SUBSET HasToken]
    /\ req \in [Actors ->
          [kind : {"none", "direct", "receipt", "group", "rest"},
           to : Users \cup Groups \cup {NoUser},
           about : Senders \cup {NoDevice}, user : Users \cup {NoUser},
           pc : {"idle", "member", "copy", "echo", "group", "wake", "list",
                 "save", "lookup", "done"},
           k : 0..dialled, err : BOOLEAN, todo : SUBSET Users]]
    /\ audience \in [Actors -> [own : SUBSET Devices, always : SUBSET Devices,
                                ever : SUBSET Devices]]
    /\ asleep \in [Actors -> SUBSET Users]
    /\ trouble \in [Actors -> SUBSET Troubles]

\* The consumer of a device drops the frames that came from the device.
ShownTo(d) == {q \in Devices : \E f \in queued[q] : f.msg = d /\ f.src # q}

Sent(d, kinds) == req[d].pc = "done" /\ req[d].kind \in kinds
Fine(d, what) == trouble[d] \cap what = {}

\* A frame that was handled without trouble is shown by every queue that was
\* bound for it all the time, whoever joined or left a group meanwhile, and by
\* the sender's other devices that had a queue.  A direct frame whose publish
\* failed is in the table, unless that failed too; one written to a connection
\* that broke under it may be lost without a trace (connection_manager.go:689),
\* which is the trouble "lostCopy".
CopiesArrive ==
    \A d \in Senders : Sent(d, {"direct", "group", "receipt"}) /\ Fine(d, {"refused"}) =>
        LET r == req[d] IN
        /\ Fine(d, {"copy", "lostCopy"}) => audience[d].always \ {d} \subseteq ShownTo(d)
        /\ Fine(d, {"echo", "lostEcho"}) /\ (r.kind = "group" => ~r.err)
              => audience[d].own \ {d} \subseteq ShownTo(d)
        /\ r.kind = "direct" /\ ~Fine(d, {"copy"}) => d \in rows \/ ~Fine(d, {"unsaved"})

\* Nobody else is shown the frame: only the sender's devices and queues bound
\* to its addressee or its group since it was read, nobody when the sender was
\* found to be no member, and the device it came from only when it wrote to
\* its own user.  The consumer tells by the source header, which each publish
\* has to set, and a sender's other device takes a group frame twice.
ShownToNobodyElse ==
    \A d \in Senders : ShownTo(d) # {} =>
        LET r == req[d] IN
        /\ Fine(d, {"refused"})
        /\ ShownTo(d) \subseteq audience[d].ever \cup DevicesOf(OwnerOf[d])
        /\ d \in ShownTo(d) => r.kind # "group" /\ r.to = OwnerOf[d]

\* A user that had no session from the time the frame was read until it was
\* handled, and was in its group all that time, is woken up on every device,
\* whoever connected, joined or left meanwhile, and also when the copy of a
\* direct frame could only be saved.  One session is enough for no push at all
\* (connection_manager.go:452).
SleepersWoken ==
    \A d \in Senders :
        /\ Sent(d, {"direct", "group"}) /\ Fine(d, {"refused", "noList"})
        /\ req[d].kind = "group" => ~req[d].err
        => \A u \in asleep[d] :
              DevicesOf(u) \cap HasToken \subseteq pushed[d]

\* "Forwards the receipts to the owners of the original messages over
\* RabbitMQ" (message_handler.go:52): a receipt posted by a device that was
\* shown the frame reaches its sender when nothing failed.
ReceiptForwarded ==
    \A d \in Posters : Sent(d, {"rest"}) /\ trouble[d] = {} /\ d \in ShownTo(req[d].about)
        => audience[d].always \subseteq ShownTo(d)

\* As in RabbitClient.
NoStrayConnection == Rabbit!NoStrayConnection
Reconnects == Rabbit!Reconnects
=============================================================================
