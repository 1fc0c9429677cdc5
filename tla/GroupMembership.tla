-------------------------- MODULE GroupMembership --------------------------
(***************************************************************************)
(* Membership of one group in the database against the bindings of device  *)
(* queues to the group's routing key in the broker, and the events that    *)
(* tell the bound devices who came and went: group_service.go,             *)
(* group_binding_service.go, group_event_publisher.go.  Nothing keeps the  *)
(* three together; a request is a series of database and broker calls, and *)
(* requests overlap.                                                       *)
(*                                                                         *)
(* The database and the broker are external: one call is one step.  The    *)
(* table group_members may hold several rows of a user; the code only asks *)
(* whether there is one and deletes all of them, so the model keeps a set. *)
(***************************************************************************)
EXTENDS Naturals, FiniteSets

CONSTANTS Users, Devices,
          OwnerOf,      \* OwnerOf[d]: the user of device d
          Creator,      \* the user that creates the group
          Reqs,         \* request goroutines
          NoUser,
          MaxUses       \* MaxUses of the group's invite

ASSUME MembershipAssumption ==
    /\ OwnerOf \in [Devices -> Users]
    /\ Creator \in Users
    /\ NoUser \notin Users
    /\ MaxUses \in Nat
    /\ IsFiniteSet(Reqs)

VARIABLES
    group,       \* the group's row: "none", "live" or "deleted"
    members,     \* users with a row in group_members
    devices,     \* rows of user_devices
    bound,       \* devices whose queue is bound to the group
    listed,      \* devices ProvisionDeviceQueue has listed the groups for
    missed,      \* unbound devices whose last attempt to bind failed (history)
    kept,        \* bound devices whose last attempt to unbind failed (history)
    invited,     \* the group's invite has a row
    uses,        \* its use_count
    believed,    \* <<d, u>>: the last event device d got about user u, since
                 \*   d was bound, is that u joined (history)
    untold,      \* the pairs whose exit could not be published (history)
    req,         \* what each request does
    overlapped   \* two requests have overlapped (history)

stored == <<group, members, devices, invited, uses>>
events == <<believed, untold>>
bindings == <<bound, missed, kept, events>>
vars == <<stored, bindings, listed, req, overlapped>>

\* op: the operation; pc: its next call; user: the user it is about; users:
\* the users that come after; todo: devices listed and not yet handled.
Request(op, pc, user, users, todo) ==
    [op |-> op, pc |-> pc, user |-> user, users |-> users, todo |-> todo]
None == Request("none", "idle", NoUser, {}, {})

DevicesOf(u) == {d \in devices : OwnerOf[d] = u}

\* Where a request goes when the devices of a user are done; a call that failed
\* has only been logged.  The owner of a new group is not announced.
UserDone(q) ==
    CASE q.op = "remove" -> "forget"
      [] q.op = "provision" -> "idle"
      [] q.op = "delete" \/ (q.op = "create" /\ q.user = Creator) -> "next"
      [] OTHER -> "publish"

\* The call a request comes to.
Reached(q) == IF q.pc \in {"bind", "unbind"} /\ q.todo = {} THEN UserDone(q) ELSE q.pc

\* A request rests where it has a call to make.
Settle(q) ==
    CASE Reached(q) = "next" /\ q.users # {} -> Request(q.op, "next", NoUser, q.users, {})
      [] Reached(q) = "next" /\ q.users = {} /\ q.op = "delete"
           -> Request("delete", "forget", NoUser, {}, {})
      [] Reached(q) = "next" /\ q.users = {} /\ q.op # "delete" -> None
      [] Reached(q) = "idle" -> None
      [] OTHER -> [q EXCEPT !.pc = Reached(q)]

Continue(r, q) == req' = [req EXCEPT ![r] = Settle(q)]
Goto(r, pc) == Continue(r, [req[r] EXCEPT !.pc = pc])
Finish(r) == Goto(r, "idle")
Quiescent == \A r \in Reqs : req[r].pc = "idle"
Begins(r) ==
    /\ req[r].pc = "idle"
    /\ overlapped' = (overlapped \/ ~Quiescent)
\* What the devices believe is followed until requests overlap.
Believe(told, not) ==
    /\ believed' = IF overlapped THEN {} ELSE told
    /\ untold' = IF overlapped THEN {} ELSE not
OfDevices(ds) == ds \X Users
About(u) == Devices \X {u}

-----------------------------------------------------------------------------
(* The checks an operation begins with.                                    *)

CreateGroup(r, others) ==
    /\ Begins(r) /\ group = "none"
    /\ group' = "live"
    /\ Continue(r, Request("create", "insert", Creator, others, {}))
    /\ UNCHANGED <<members, devices, invited, uses, bindings, listed>>

AddMember(r, u) ==
    /\ Begins(r) /\ members # {}
    /\ Continue(r, Request("add", "insert", u, {}, {}))
    /\ UNCHANGED <<stored, bindings, listed>>

\* One call, by a member.  No invite is given an expiry.
CreateInvite ==
    /\ members # {} /\ ~invited
    /\ invited' = TRUE
    /\ UNCHANGED <<group, members, devices, uses, bindings, listed, req, overlapped>>

\* (mutant) the use limit is compared with <=
RedeemInviteOffByOne(r, u) ==
    /\ Begins(r) /\ invited
    /\ uses <= MaxUses
    /\ Continue(r, Request("add", "use", u, {}, {}))
    /\ UNCHANGED <<stored, bindings, listed>>

\* The invite is read here; its use is counted by a later call, and the rest is
\* that of AddMember.
RedeemInvite(r, u) ==
    /\ Begins(r) /\ invited
    /\ uses < MaxUses
    /\ Continue(r, Request("add", "use", u, {}, {}))
    /\ UNCHANGED <<stored, bindings, listed>>

\* (mutant) nothing announces the exit
RemoveMemberQuietly(r, u) ==
    /\ Begins(r) /\ group = "live"
    /\ Continue(r, Request("remove", "list", u, {}, {}))
    /\ UNCHANGED <<stored, bindings, listed>>

\* The caller is the owner or the target; whether the target is a member is
\* not asked.  The exit is published first, so that the target hears of it.
RemoveMember(r, u) ==
    /\ Begins(r) /\ group = "live"
    /\ Continue(r, Request("remove", "publish", u, {}, {}))
    /\ UNCHANGED <<stored, bindings, listed>>

\* (mutant) the members are read when they have been deleted
DeleteGroupUnread(r) ==
    /\ Begins(r) /\ group = "live"
    /\ Continue(r, Request("delete", "next", NoUser, {}, {}))
    /\ UNCHANGED <<stored, bindings, listed>>

\* UnbindAllFromGroup reads the members before they are deleted.
DeleteGroup(r) ==
    /\ Begins(r) /\ group = "live"
    /\ Continue(r, Request("delete", "next", NoUser, members, {}))
    /\ UNCHANGED <<stored, bindings, listed>>

\* A login or an authorised web session stores a new device.
CreateDevice(d) ==
    /\ d \notin devices
    /\ devices' = devices \cup {d}
    /\ UNCHANGED <<group, members, invited, uses, bindings, listed, req, overlapped>>

\* (mutant) the queue is provisioned for a device that is not stored
ProvisionUnknown(r, d) ==
    /\ Begins(r)
    /\ listed' = listed \cup {d}
    /\ Continue(r, Request("provision", "bind", OwnerOf[d], {}, {d}))
    /\ UNCHANGED <<stored, bindings>>

\* (mutant) the queue is not bound to the groups
ProvisionUserOnly(r, d) ==
    /\ Begins(r) /\ d \in devices
    /\ listed' = listed \cup {d}
    /\ UNCHANGED <<stored, bindings, req>>

\* ProvisionDeviceQueue: every time the device connects or drains its inbox.
\* Of the groups listed for the user, the model follows this one.
Provision(r, d) ==
    /\ Begins(r) /\ d \in devices
    /\ listed' = listed \cup {d}
    /\ req' = IF OwnerOf[d] \in members
              THEN [req EXCEPT ![r] = Request("provision", "bind", OwnerOf[d], {}, {d})]
              ELSE req
    /\ UNCHANGED <<stored, bindings>>

-----------------------------------------------------------------------------
(* The calls that follow.                                                  *)

IncrementInviteUse(r) ==
    /\ req[r].pc = "use"
    /\ uses' = uses + 1
    /\ Goto(r, "insert")
    /\ UNCHANGED <<group, members, devices, invited, bindings, listed, overlapped>>

UseFails(r) ==
    /\ req[r].pc = "use"
    /\ Finish(r)
    /\ UNCHANGED <<stored, bindings, listed, overlapped>>

\* group_members refers to groups: the row of a deleted group is refused.
InsertMember(r) ==
    /\ req[r].pc = "insert" /\ group = "live"
    /\ members' = members \cup {req[r].user}
    /\ Goto(r, "list")
    /\ UNCHANGED <<group, devices, invited, uses, bindings, listed, overlapped>>

\* CreateGroup gives up when the owner cannot be added and goes on with the
\* next user otherwise; the other operations return.
InsertFails(r) ==
    /\ req[r].pc = "insert"
    /\ IF req[r].op = "create" /\ req[r].user # Creator THEN Goto(r, "next") ELSE Finish(r)
    /\ UNCHANGED <<stored, bindings, listed, overlapped>>

Removing(r) == req[r].op \in {"remove", "delete"}

ListDevices(r) ==
    /\ req[r].pc = "list"
    /\ Continue(r, [req[r] EXCEPT !.pc = IF Removing(r) THEN "unbind" ELSE "bind",
                                  !.todo = DevicesOf(req[r].user)])
    /\ UNCHANGED <<stored, bindings, listed, overlapped>>

\* No devices, or no channel: the user is passed over, and the error logged.
ListFails(r) ==
    /\ req[r].pc = "list"
    /\ Goto(r, IF Removing(r) THEN "unbind" ELSE "bind")
    /\ IF Removing(r)
       THEN kept' = kept \cup (DevicesOf(req[r].user) \cap bound) /\ UNCHANGED missed
       ELSE missed' = missed \cup (DevicesOf(req[r].user) \ bound) /\ UNCHANGED kept
    /\ UNCHANGED <<stored, bound, events, listed, overlapped>>

\* A device that was not bound has missed events and asks for the members anew.
Bind(r, d) ==
    /\ req[r].pc = "bind" /\ d \in req[r].todo
    /\ Continue(r, [req[r] EXCEPT !.todo = @ \ {d}])
    /\ \/ /\ bound' = bound \cup {d} /\ missed' = missed \ {d} /\ kept' = kept \ {d}
          /\ LET anew == OfDevices({d} \ bound) IN Believe(believed \ anew, untold \ anew)
       \/ missed' = missed \cup ({d} \ bound) /\ UNCHANGED <<bound, kept, events>>
    /\ UNCHANGED <<stored, listed, overlapped>>

Unbind(r, d) ==
    /\ req[r].pc = "unbind" /\ d \in req[r].todo
    /\ Continue(r, [req[r] EXCEPT !.todo = @ \ {d}])
    /\ \/ bound' = bound \ {d} /\ kept' = kept \ {d}
       \/ kept' = kept \cup ({d} \cap bound) /\ UNCHANGED bound
    /\ UNCHANGED <<stored, missed, events, listed, overlapped>>

Announced(r) ==
    CASE req[r].op = "remove" -> Goto(r, "list")
      [] req[r].op = "create" -> Goto(r, "next")
      [] OTHER -> Finish(r)

\* PublishMembershipEvent: every bound device gets the event.
Publish(r) ==
    LET heard == bound \X {req[r].user} IN
    /\ req[r].pc = "publish"
    /\ Believe(IF Removing(r) THEN believed \ heard ELSE believed \cup heard, untold \ heard)
    /\ Announced(r)
    /\ UNCHANGED <<stored, bound, missed, kept, listed, overlapped>>

\* The error is ignored.
PublishFails(r) ==
    /\ req[r].pc = "publish"
    /\ Believe(believed, IF Removing(r) THEN untold \cup (believed \cap About(req[r].user)) ELSE untold)
    /\ Announced(r)
    /\ UNCHANGED <<stored, bound, missed, kept, listed, overlapped>>

NextUser(r) ==
    /\ req[r].pc = "next"
    /\ \E u \in req[r].users :
          LET pc == IF req[r].op = "delete" THEN "list" ELSE "insert"
          IN  Continue(r, Request(req[r].op, pc, u, req[r].users \ {u}, {}))
    /\ UNCHANGED <<stored, bindings, listed, overlapped>>

\* RemoveMember deletes the rows of the user, DeleteGroup all of them and the
\* group in one transaction.
Forget(r) ==
    /\ req[r].pc = "forget"
    /\ IF req[r].op = "remove"
       THEN members' = members \ {req[r].user} /\ UNCHANGED group
       ELSE members' = {} /\ group' = "deleted"
    /\ Finish(r)
    /\ UNCHANGED <<devices, invited, uses, bindings, listed, overlapped>>

\* The members stay, without the bindings that were removed before.
ForgetFails(r) ==
    /\ req[r].pc = "forget"
    /\ missed' = missed \cup (devices \ bound)
    /\ LET deaf == OfDevices(devices \ bound) IN Believe(believed \ deaf, untold \ deaf)
    /\ Finish(r)
    /\ UNCHANGED <<stored, bound, kept, listed, overlapped>>

-----------------------------------------------------------------------------
Init ==
    /\ group = "none" /\ members = {} /\ devices = {}
    /\ invited = FALSE /\ uses = 0
    /\ bound = {} /\ missed = {} /\ kept = {}
    /\ believed = {} /\ untold = {}
    /\ listed = {}
    /\ req = [r \in Reqs |-> None]
    /\ overlapped = FALSE

Start(r) ==
    \/ \E others \in SUBSET (Users \ {Creator}) : CreateGroup(r, others)
    \/ \E u \in Users : AddMember(r, u) \/ RedeemInvite(r, u) \/ RemoveMember(r, u)
    \/ DeleteGroup(r)
    \/ \E d \in Devices : Provision(r, d)

Proceed(r) ==
    \/ IncrementInviteUse(r) \/ UseFails(r)
    \/ InsertMember(r) \/ InsertFails(r)
    \/ ListDevices(r) \/ ListFails(r)
    \/ \E d \in Devices : Bind(r, d) \/ Unbind(r, d)
    \/ Publish(r) \/ PublishFails(r) \/ NextUser(r) \/ Forget(r) \/ ForgetFails(r)

Next ==
    \/ \E r \in Reqs : Start(r) \/ Proceed(r)
    \/ \E d \in Devices : CreateDevice(d)
    \/ CreateInvite

Spec == Init /\ [][Next]_vars

-----------------------------------------------------------------------------
TypeOK ==
    /\ group \in {"none", "live", "deleted"}
    /\ members \subseteq Users /\ devices \subseteq Devices
    /\ bound \subseteq devices /\ missed \subseteq devices \ bound /\ kept \subseteq bound
    /\ listed \subseteq devices
    /\ believed \subseteq devices \X Users /\ untold \subseteq believed
    /\ invited \in BOOLEAN /\ uses \in Nat /\ overlapped \in BOOLEAN
    /\ req \in [Reqs ->
          [op : {"none", "create", "add", "remove", "delete", "provision"},
           pc : {"idle", "use", "insert", "list", "bind", "unbind", "publish",
                 "next", "forget"},
           user : Users \cup {NoUser}, users : SUBSET Users, todo : SUBSET Devices]]

\* No device of a member is left out: however additions, removals, logins and
\* reconnections overlap, once no request runs, a member's device that has been
\* provisioned gets the group's messages, unless a call that failed left it
\* unbound (group_service.go:127: a reconnect makes that one good).
MembersBound ==
    Quiescent => \A d \in listed : OwnerOf[d] \in members => d \in bound \cup missed

StrayBinding == \E d \in bound \ kept : OwnerOf[d] \notin members

\* While requests do not overlap, no queue stays bound for somebody who left,
\* or to a group that was deleted, but where the broker refused the unbinding
\* (group_service.go:203, 260).
OnlyMembersBound == Quiescent /\ ~overlapped => ~StrayBinding

\* "Then cut the member off in the broker so that it gets no new message"
\* (group_service.go:260): the same, for the living group, whatever overlaps.
RemovedCutOff == Quiescent /\ group = "live" => ~StrayBinding

\* While requests do not overlap, no device of the living group goes on taking
\* somebody for a member who left: every device that gets the group's messages,
\* and each of the one who left, was still bound when the exit was published
\* (group_service.go:256), unless the publish failed, which nobody is told.
ExitIsHeard ==
    Quiescent /\ ~overlapped /\ group = "live" =>
        \A d \in Devices, u \in Users :
            <<d, u>> \in believed \ untold /\ (d \in bound \/ OwnerOf[d] = u) => u \in members

\* "Usage limit check" (group_service.go:329): an invite is used at most
\* MaxUses times, and redemptions that overlap exceed that by no more than
\* there are of them beyond the first.
InviteWithinLimit ==
    uses <= IF overlapped THEN MaxUses + Cardinality(Reqs) - 1 ELSE MaxUses
=============================================================================
