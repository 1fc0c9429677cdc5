----------------------- MODULE GroupMembership_proofs -----------------------
(***************************************************************************)
(* However requests overlap, a member's device is bound when they are done *)
(* and an invite is overused by the overlapping redemptions at most; while *)
(* they do not overlap, nobody stays bound who left and everybody          *)
(* concerned hears of an exit.  For any users, devices and finitely many   *)
(* requests, each call of which may fail.                                  *)
(***************************************************************************)
EXTENDS GroupMembership, FiniteSetTheorems, TLAPS

USE MembershipAssumption DEF MembershipAssumption

RequestType ==
    [op : {"none", "create", "add", "remove", "delete", "provision"},
     pc : {"idle", "use", "insert", "list", "bind", "unbind", "publish", "next", "forget"},
     user : Users \cup {NoUser}, users : SUBSET Users, todo : SUBSET Devices]

\* The steps of each operation, and what it carries from one to the next.
Fits(q) ==
    /\ q.op = "none" => q.pc = "idle"
    /\ q.op = "create" => q.pc \in {"insert", "list", "bind", "publish", "next"}
    /\ q.op = "add" => q.pc \in {"use", "insert", "list", "bind", "publish"}
    /\ q.op = "remove" => q.pc \in {"publish", "list", "unbind", "forget"}
    /\ q.op = "delete" => q.pc \in {"next", "list", "unbind", "forget"}
    /\ q.op = "provision" => q.pc = "bind"
    /\ q.op # "none" /\ q.pc # "next" /\ ~(q.op = "delete" /\ q.pc = "forget")
         => q.user \in Users
    /\ q.op = "delete" /\ q.pc = "forget" => q.users = {}
    /\ q.pc \notin {"bind", "unbind"} => q.todo = {}
    /\ \A d \in q.todo : OwnerOf[d] = q.user

\* Where Settle takes a request: it stays, it is done with the devices of a
\* user, it has come to its last call, or it has ended.
DevicesDone(q) == q.pc \in {"bind", "unbind"} /\ q.todo = {}
Looks(q) == q.pc = "next" \/ DevicesDone(q)

SettleOutcome(q, s) ==
    \/ s = q /\ q.pc \notin {"idle", "next"} /\ ~DevicesDone(q)
    \/ s = None /\ (q.pc = "idle" \/ (Looks(q) /\ q.op \in {"create", "provision"}))
    \/ s = [q EXCEPT !.pc = "publish"] /\ DevicesDone(q) /\ q.op \in {"create", "add"}
    \/ s = [q EXCEPT !.pc = "forget"] /\ DevicesDone(q) /\ q.op = "remove"
    \/ /\ s = Request(q.op, "next", NoUser, q.users, {})
       /\ Looks(q) /\ q.op \in {"create", "delete"}
    \/ /\ s = Request("delete", "forget", NoUser, {}, {})
       /\ Looks(q) /\ q.op = "delete" /\ q.users = {}

LEMMA SettleCases ==
  ASSUME NEW q \in RequestType, q.pc = "idle" \/ Fits(q)
  PROVE  SettleOutcome(q, Settle(q))
<1> USE DEF RequestType, Fits
<1>1. CASE q.pc = "idle"
  BY <1>1 DEF Settle, Reached, SettleOutcome
<1>2. ASSUME Reached(q) = "next", Looks(q), q.op \in {"create", "delete"}
      PROVE  SettleOutcome(q, Settle(q))
  <2>1. CASE q.users # {}
    BY <1>2, <2>1 DEF Settle, SettleOutcome
  <2>2. CASE q.users = {} /\ q.op = "delete"
    BY <1>2, <2>2 DEF Settle, SettleOutcome
  <2>3. CASE q.users = {} /\ q.op = "create"
    BY <1>2, <2>3 DEF Settle, SettleOutcome
  <2>. QED
    BY <1>2, <2>1, <2>2, <2>3
<1>3. CASE q.pc = "next"
  BY <1>2, <1>3 DEF Reached, Looks
<1>4. CASE DevicesDone(q)
  <2>0. Reached(q) = UserDone(q) /\ Looks(q)
    BY <1>4 DEF Reached, Looks, DevicesDone
  <2>1. CASE q.op = "remove"
    BY <1>4, <2>0, <2>1 DEF Settle, UserDone, SettleOutcome
  <2>2. CASE q.op = "provision"
    BY <1>4, <2>0, <2>2 DEF Settle, UserDone, SettleOutcome
  <2>3. CASE q.op = "delete" \/ (q.op = "create" /\ q.user = Creator)
    BY <1>2, <2>0, <2>3 DEF UserDone
  <2>4. CASE q.op = "add" \/ (q.op = "create" /\ q.user # Creator)
    BY <1>4, <2>0, <2>4 DEF Settle, UserDone, SettleOutcome
  <2>. QED
    BY <1>4, <2>1, <2>2, <2>3, <2>4 DEF DevicesDone
<1>5. CASE q.pc \notin {"idle", "next"} /\ ~DevicesDone(q)
  BY <1>5 DEF Settle, Reached, SettleOutcome, DevicesDone
<1>. QED
  BY <1>1, <1>3, <1>4, <1>5

\* So a request that fits settles into one that fits.
LEMMA SettleFits ==
  ASSUME NEW q \in RequestType, q.pc = "idle" \/ Fits(q)
  PROVE  Settle(q) \in RequestType /\ Fits(Settle(q))
<1> DEFINE s == Settle(q)
<1> HIDE DEF s
<1>1. SettleOutcome(q, s)
  BY SettleCases DEF s
<1>2. s \in RequestType /\ Fits(s)
  BY <1>1 DEF SettleOutcome, Looks, DevicesDone, RequestType, Fits, None, Request
<1>. QED
  BY <1>2 DEF s

-----------------------------------------------------------------------------
(* Types.                                                                  *)

RequestsOK == req \in [Reqs -> RequestType] /\ \A r \in Reqs : Fits(req[r])

RowsOK ==
    /\ group \in {"none", "live", "deleted"}
    /\ members \subseteq Users /\ devices \subseteq Devices
    /\ listed \subseteq devices
    /\ \A r \in Reqs : req[r].todo \subseteq devices

BindingsOK ==
    /\ bound \subseteq devices /\ missed \subseteq devices \ bound /\ kept \subseteq bound
    /\ believed \subseteq devices \X Users /\ untold \subseteq believed

CountersOK == invited \in BOOLEAN /\ uses \in Nat /\ overlapped \in BOOLEAN

TypeInv == RequestsOK /\ RowsOK /\ BindingsOK /\ CountersOK

\* A request carries on with q, and settles.
Moves(r, q) ==
    /\ RequestsOK'
    /\ q \in RequestType /\ SettleOutcome(q, req'[r])
    /\ \A o \in Reqs \ {r} : req'[o] = req[o]

LEMMA Continues ==
  ASSUME RequestsOK, NEW r \in Reqs, NEW q \in RequestType, q.pc = "idle" \/ Fits(q),
         Continue(r, q)
  PROVE  Moves(r, q)
<1>1. SettleOutcome(q, Settle(q)) /\ Settle(q) \in RequestType /\ Fits(Settle(q))
  BY SettleCases, SettleFits
<1>2. req'[r] = Settle(q) /\ \A o \in Reqs \ {r} : req'[o] = req[o]
  BY DEF Continue, RequestsOK
<1>3. req' \in [Reqs -> RequestType]
  BY <1>1 DEF Continue, RequestsOK
<1>. QED
  BY <1>1, <1>2, <1>3 DEF RequestsOK, Moves

\* What a request carries on with when a call is over.
At(r, pc) == [req[r] EXCEPT !.pc = pc]
Ended(r) == At(r, "idle")
Listed(r) == [req[r] EXCEPT !.pc = IF Removing(r) THEN "unbind" ELSE "bind",
                            !.todo = DevicesOf(req[r].user)]
Handled(r, d) == [req[r] EXCEPT !.todo = @ \ {d}]
AfterEvent(r) == At(r, IF req[r].op = "remove" THEN "list"
                       ELSE IF req[r].op = "create" THEN "next" ELSE "idle")
ForUser(r, u) == Request(req[r].op, IF req[r].op = "delete" THEN "list" ELSE "insert",
                         u, req[r].users \ {u}, {})

LEMMA StartMoves ==
  ASSUME RequestsOK, RowsOK, NEW r \in Reqs
  PROVE  /\ \A us \in SUBSET Users :
               CreateGroup(r, us) => Moves(r, Request("create", "insert", Creator, us, {}))
         /\ \A u \in Users :
               /\ AddMember(r, u) => Moves(r, Request("add", "insert", u, {}, {}))
               /\ RedeemInvite(r, u) => Moves(r, Request("add", "use", u, {}, {}))
               /\ RemoveMember(r, u) => Moves(r, Request("remove", "publish", u, {}, {}))
         /\ DeleteGroup(r) => Moves(r, Request("delete", "next", NoUser, members, {}))
         /\ \A d \in Devices : Provision(r, d) =>
               \/ UNCHANGED req
               \/ OwnerOf[d] \in members
                  /\ Moves(r, Request("provision", "bind", OwnerOf[d], {}, {d}))
<1> USE DEF RequestType, Fits, Request
<1>1. ASSUME NEW us \in SUBSET Users, CreateGroup(r, us)
      PROVE  Moves(r, Request("create", "insert", Creator, us, {}))
  BY <1>1, Continues DEF CreateGroup
<1>2. ASSUME NEW u \in Users, AddMember(r, u)
      PROVE  Moves(r, Request("add", "insert", u, {}, {}))
  BY <1>2, Continues DEF AddMember
<1>3. ASSUME NEW u \in Users, RedeemInvite(r, u)
      PROVE  Moves(r, Request("add", "use", u, {}, {}))
  BY <1>3, Continues DEF RedeemInvite
<1>4. ASSUME NEW u \in Users, RemoveMember(r, u)
      PROVE  Moves(r, Request("remove", "publish", u, {}, {}))
  BY <1>4, Continues DEF RemoveMember
<1>5. ASSUME DeleteGroup(r)
      PROVE  Moves(r, Request("delete", "next", NoUser, members, {}))
  BY <1>5, Continues DEF DeleteGroup, RowsOK
<1>6. ASSUME NEW d \in Devices, Provision(r, d), OwnerOf[d] \in members
      PROVE  Moves(r, Request("provision", "bind", OwnerOf[d], {}, {d}))
  <2> DEFINE q == Request("provision", "bind", OwnerOf[d], {}, {d})
  <2>1. q \in RequestType /\ Fits(q) /\ SettleOutcome(q, q)
    BY DEF SettleOutcome, DevicesDone
  <2>2. req' = [req EXCEPT ![r] = q]
    BY <1>6 DEF Provision
  <2>3. req'[r] = q /\ (\A o \in Reqs \ {r} : req'[o] = req[o]) /\ req' \in [Reqs -> RequestType]
    BY <2>1, <2>2 DEF RequestsOK
  <2>. QED
    BY <2>1, <2>3 DEF Moves, RequestsOK
<1>. QED
  BY <1>1, <1>2, <1>3, <1>4, <1>5, <1>6 DEF Provision

LEMMA ProceedMoves ==
  ASSUME RequestsOK, RowsOK, NEW r \in Reqs
  PROVE  /\ IncrementInviteUse(r) => Moves(r, At(r, "insert"))
         /\ UseFails(r) => Moves(r, Ended(r))
         /\ InsertMember(r) => Moves(r, At(r, "list"))
         /\ InsertFails(r) => Moves(r, At(r, "next")) \/ Moves(r, Ended(r))
         /\ ListDevices(r) => Moves(r, Listed(r))
         /\ ListFails(r) => Moves(r, At(r, IF Removing(r) THEN "unbind" ELSE "bind"))
         /\ \A d \in Devices : Bind(r, d) \/ Unbind(r, d) => Moves(r, Handled(r, d))
         /\ Publish(r) \/ PublishFails(r) => Moves(r, AfterEvent(r))
         /\ NextUser(r) => \E u \in req[r].users : Moves(r, ForUser(r, u))
         /\ Forget(r) \/ ForgetFails(r) => Moves(r, Ended(r))
<1>0. req[r] \in RequestType /\ Fits(req[r])
  BY DEF RequestsOK
<1> USE DEF RequestType
<1>e. Ended(r) \in RequestType /\ Ended(r).pc = "idle"
  BY <1>0 DEF Ended, At
<1>1. IncrementInviteUse(r) => Moves(r, At(r, "insert"))
  <2>1. req[r].pc = "use" => At(r, "insert") \in RequestType /\ Fits(At(r, "insert"))
    BY <1>0 DEF Fits, At
  <2>. QED
    BY <2>1, Continues DEF IncrementInviteUse, Goto, At
<1>2. UseFails(r) => Moves(r, Ended(r))
  BY <1>e, Continues DEF UseFails, Finish, Goto, Ended, At
<1>3. InsertMember(r) => Moves(r, At(r, "list"))
  <2>1. req[r].pc = "insert" => At(r, "list") \in RequestType /\ Fits(At(r, "list"))
    BY <1>0 DEF Fits, At
  <2>. QED
    BY <2>1, Continues DEF InsertMember, Goto, At
<1>4. InsertFails(r) => Moves(r, At(r, "next")) \/ Moves(r, Ended(r))
  <2>1. req[r].pc = "insert" /\ req[r].op = "create"
          => At(r, "next") \in RequestType /\ Fits(At(r, "next"))
    BY <1>0 DEF Fits, At
  <2>. QED
    BY <1>e, <2>1, Continues DEF InsertFails, Finish, Goto, Ended, At
<1>5. ListDevices(r) => Moves(r, Listed(r))
  <2>1. req[r].pc = "list" => Listed(r) \in RequestType /\ Fits(Listed(r))
    BY <1>0 DEF Fits, Listed, Removing, DevicesOf, RowsOK
  <2>. QED
    BY <2>1, Continues DEF ListDevices, Listed
<1>6. ListFails(r) => Moves(r, At(r, IF Removing(r) THEN "unbind" ELSE "bind"))
  <2> DEFINE q == At(r, IF Removing(r) THEN "unbind" ELSE "bind")
  <2>1. req[r].pc = "list" => q \in RequestType /\ Fits(q)
    BY <1>0 DEF Fits, At, Removing
  <2>2. ListFails(r) => req[r].pc = "list" /\ Continue(r, q)
    BY DEF ListFails, Goto, At
  <2>. QED
    BY <2>1, <2>2, Continues
<1>7. ASSUME NEW d \in Devices, Bind(r, d) \/ Unbind(r, d)
      PROVE  Moves(r, Handled(r, d))
  <2>1. Handled(r, d) \in RequestType /\ Fits(Handled(r, d))
    BY <1>0, <1>7 DEF Fits, Handled, Bind, Unbind
  <2>2. Continue(r, Handled(r, d))
    BY <1>7 DEF Bind, Unbind, Handled
  <2>. QED
    BY <2>1, <2>2, Continues
<1>8. Publish(r) \/ PublishFails(r) => Moves(r, AfterEvent(r))
  <2>1. req[r].pc = "publish"
          => AfterEvent(r) \in RequestType /\ (AfterEvent(r).pc = "idle" \/ Fits(AfterEvent(r)))
    BY <1>0 DEF Fits, AfterEvent, At
  <2>2. Announced(r) => Continue(r, AfterEvent(r))
    BY DEF Announced, AfterEvent, At, Goto, Finish
  <2>. QED
    BY <2>1, <2>2, Continues DEF Publish, PublishFails
<1>9. NextUser(r) => \E u \in req[r].users : Moves(r, ForUser(r, u))
  <2> HAVE NextUser(r)
  <2>1. PICK u \in req[r].users : Continue(r, ForUser(r, u))
    BY DEF NextUser, ForUser
  <2>2. ForUser(r, u) \in RequestType /\ Fits(ForUser(r, u))
    BY <1>0 DEF Fits, ForUser, Request, NextUser
  <2>. QED
    BY <2>1, <2>2, Continues
<1>10. Forget(r) \/ ForgetFails(r) => Moves(r, Ended(r))
  BY <1>e, Continues DEF Forget, ForgetFails, Finish, Goto, Ended, At
<1>. QED
  BY <1>1, <1>2, <1>3, <1>4, <1>5, <1>6, <1>7, <1>8, <1>9, <1>10

LEMMA StartTypes ==
  ASSUME TypeInv, NEW r \in Reqs, Start(r)
  PROVE  TypeInv'
<1> USE DEF Request
<1>1. RequestsOK' /\ req'[r].todo \subseteq req[r].todo \cup devices
      /\ \A o \in Reqs \ {r} : req'[o] = req[o]
  <2> DEFINE After == RequestsOK' /\ req'[r].todo \subseteq req[r].todo \cup devices
                      /\ \A o \in Reqs \ {r} : req'[o] = req[o]
  <2>1. ASSUME NEW q \in RequestType, Moves(r, q), q.todo \subseteq devices PROVE After
    BY <2>1 DEF Moves, SettleOutcome, RequestType, None
  <2>2. ASSUME NEW us \in SUBSET (Users \ {Creator}), CreateGroup(r, us) PROVE After
    BY <2>1, <2>2, StartMoves DEF Moves, TypeInv
  <2>3. ASSUME NEW u \in Users, AddMember(r, u) \/ RedeemInvite(r, u) \/ RemoveMember(r, u)
        PROVE  After
    BY <2>1, <2>3, StartMoves DEF Moves, TypeInv
  <2>4. ASSUME DeleteGroup(r) PROVE After
    BY <2>1, <2>4, StartMoves DEF Moves, TypeInv
  <2>5. ASSUME NEW d \in Devices, Provision(r, d) PROVE After
    <3>1. CASE UNCHANGED req
      BY <3>1 DEF RequestsOK, TypeInv
    <3>2. CASE Moves(r, Request("provision", "bind", OwnerOf[d], {}, {d}))
      BY <2>1, <2>5, <3>2 DEF Moves, Provision
    <3>. QED
      BY <2>5, <3>1, <3>2, StartMoves DEF TypeInv
  <2>. QED
    BY <2>2, <2>3, <2>4, <2>5 DEF Start
<1>2. UNCHANGED <<members, devices, bindings, uses, invited>>
      /\ listed' \subseteq devices /\ group' \in {"none", "live", "deleted"}
  BY DEF Start, CreateGroup, AddMember, RedeemInvite, RemoveMember, DeleteGroup, Provision,
         stored, bindings, TypeInv, RowsOK
<1>3. overlapped' \in BOOLEAN
  BY DEF Start, CreateGroup, AddMember, RedeemInvite, RemoveMember, DeleteGroup, Provision,
         Begins, TypeInv, CountersOK
<1>4. RowsOK'
  BY <1>1, <1>2 DEF TypeInv, RowsOK
<1>. QED
  BY <1>1, <1>2, <1>3, <1>4 DEF TypeInv, BindingsOK, CountersOK, bindings, events

LEMMA ProceedTypes ==
  ASSUME TypeInv, NEW r \in Reqs, Proceed(r)
  PROVE  TypeInv'
<1>1. RequestsOK' /\ req'[r].todo \subseteq req[r].todo \cup devices
      /\ \A o \in Reqs \ {r} : req'[o] = req[o]
  <2>1. ASSUME NEW q \in RequestType, Moves(r, q), q.todo \subseteq req[r].todo \cup devices
        PROVE  req'[r].todo \subseteq req[r].todo \cup devices
    BY <2>1 DEF Moves, SettleOutcome, RequestType, None, Request
  <2>2. PICK q \in RequestType : Moves(r, q) /\ q.todo \subseteq req[r].todo \cup devices
    <3>0. req[r] \in RequestType /\ RequestsOK /\ RowsOK
      BY DEF TypeInv, RequestsOK
    <3> DEFINE Fine(q) == q \in RequestType /\ Moves(r, q) /\ q.todo \subseteq req[r].todo \cup devices
    <3>1. ASSUME NEW pc, Moves(r, At(r, pc)) PROVE Fine(At(r, pc))
      BY <3>0, <3>1 DEF At, Moves, RequestType
    <3>2. ASSUME Moves(r, Listed(r)) PROVE Fine(Listed(r))
      BY <3>0, <3>2 DEF Listed, Moves, DevicesOf, RequestType
    <3>3. ASSUME NEW d \in Devices, Moves(r, Handled(r, d)) PROVE Fine(Handled(r, d))
      BY <3>0, <3>3 DEF Handled, Moves, RequestType
    <3>4. ASSUME NEW u, Moves(r, ForUser(r, u)) PROVE Fine(ForUser(r, u))
      BY <3>4 DEF ForUser, Moves, Request
    <3>5. \/ \E pc : Moves(r, At(r, pc))
          \/ Moves(r, Listed(r)) \/ \E d \in Devices : Moves(r, Handled(r, d))
          \/ \E u : Moves(r, ForUser(r, u))
      BY <3>0, ProceedMoves DEF Proceed, Ended, AfterEvent
    <3> HIDE DEF Fine
    <3>6. \E q : Fine(q)
      BY <3>1, <3>2, <3>3, <3>4, <3>5
    <3>. QED
      BY <3>6 DEF Fine
  <2>. QED
    BY <2>1, <2>2 DEF Moves
<1>2. members' \subseteq Users /\ group' \in {"none", "live", "deleted"}
      /\ UNCHANGED <<devices, listed, overlapped, invited>>
  <2>0. req[r] \in RequestType /\ Fits(req[r]) /\ RowsOK
    BY DEF TypeInv, RequestsOK
  <2>1. CASE InsertMember(r)
    BY <2>0, <2>1 DEF InsertMember, RowsOK, Fits, RequestType
  <2>2. CASE Forget(r)
    BY <2>0, <2>2 DEF Forget, RowsOK
  <2>3. CASE IncrementInviteUse(r)
    BY <2>0, <2>3 DEF IncrementInviteUse, RowsOK
  <2>. QED
    BY <2>0, <2>1, <2>2, <2>3 DEF Proceed, UseFails, InsertFails, ListDevices, ListFails, Bind,
       Unbind, Publish, PublishFails, NextUser, ForgetFails, stored, RowsOK
<1>3. uses' \in Nat
  <2>1. uses' = uses \/ uses' = uses + 1
    BY DEF Proceed, IncrementInviteUse, UseFails, InsertMember, InsertFails, ListDevices,
           ListFails, Bind, Unbind, Publish, PublishFails, NextUser, Forget, ForgetFails, stored
  <2>2. uses \in Nat
    BY DEF TypeInv, CountersOK
  <2>. QED
    BY <2>1, <2>2
<1>4. RowsOK'
  BY <1>1, <1>2 DEF TypeInv, RowsOK
<1>5. BindingsOK'
  <2> USE DEF TypeInv, BindingsOK
  <2>1. CASE ListFails(r)
    BY <1>2, <2>1 DEF ListFails, DevicesOf, events
  <2>2. ASSUME NEW d \in Devices, Bind(r, d) PROVE BindingsOK'
    BY <1>2, <2>2 DEF Bind, Believe, OfDevices, RowsOK, events
  <2>3. ASSUME NEW d \in Devices, Unbind(r, d) PROVE BindingsOK'
    BY <1>2, <2>3 DEF Unbind, RowsOK, events
  <2>4. CASE Publish(r)
    <3>1. bound \X {req[r].user} \subseteq devices \X Users
      BY <2>4 DEF Publish, RequestsOK, RequestType, Fits
    <3>. QED
      BY <1>2, <2>4, <3>1 DEF Publish, Believe
  <2>5. CASE PublishFails(r)
    BY <1>2, <2>5 DEF PublishFails, Believe, About
  <2>6. CASE ForgetFails(r)
    BY <1>2, <2>6 DEF ForgetFails, Believe, OfDevices
  <2>7. CASE UNCHANGED bindings
    BY <1>2, <2>7 DEF bindings, events
  <2>. QED
    BY <2>1, <2>2, <2>3, <2>4, <2>5, <2>6, <2>7 DEF Proceed, IncrementInviteUse, UseFails,
       InsertMember, InsertFails, ListDevices, NextUser, Forget
<1>. QED
  BY <1>1, <1>2, <1>3, <1>4, <1>5 DEF TypeInv, CountersOK

LEMMA TypeStep == TypeInv /\ [Next]_vars => TypeInv'
<1> SUFFICES ASSUME TypeInv, [Next]_vars PROVE TypeInv'
  OBVIOUS
<1>1. ASSUME NEW d \in Devices, CreateDevice(d) PROVE TypeInv'
  BY <1>1 DEF CreateDevice, TypeInv, RequestsOK, RowsOK, BindingsOK, CountersOK, bindings, events
<1>2. CASE CreateInvite
  BY <1>2 DEF CreateInvite, TypeInv, RequestsOK, RowsOK, BindingsOK, CountersOK, bindings, events
<1>3. CASE UNCHANGED vars
  BY <1>3 DEF vars, stored, bindings, events, TypeInv, RequestsOK, RowsOK, BindingsOK, CountersOK
<1>. QED
  BY <1>1, <1>2, <1>3, StartTypes, ProceedTypes DEF Next

LEMMA InitTypes == Init => TypeInv
<1> SUFFICES ASSUME Init PROVE TypeInv
  OBVIOUS
<1>1. None \in RequestType /\ Fits(None) /\ None.todo = {}
  BY DEF None, Request, RequestType, Fits
<1>. QED
  BY <1>1 DEF Init, TypeInv, RequestsOK, RowsOK, BindingsOK, CountersOK

THEOREM TypeInvariant == Spec => []TypeInv
  BY InitTypes, TypeStep, PTL DEF Spec

\* Type correctness: whatever calls fail and however requests overlap, the
\* rows, the bindings and the requests (group_service.go) stay consistent.
THEOREM MembershipTypeCorrect == Spec => []TypeOK
<1>1. TypeInv => TypeOK
  BY DEF TypeInv, RequestsOK, RowsOK, BindingsOK, CountersOK, TypeOK, RequestType
<1>. QED
  BY <1>1, TypeInvariant, PTL

-----------------------------------------------------------------------------
(* No device of a member is left out, whatever overlaps.                   *)

\* A request that has not yet bound d, and will try to.
WillBind(q, d) ==
    \/ q.pc = "bind" /\ d \in q.todo
    \/ q.pc = "list" /\ q.op \in {"create", "add"} /\ q.user = OwnerOf[d]

\* A request that has yet to delete the row of d's user.
WillForget(q, d) == q.op = "delete" \/ (q.op = "remove" /\ q.user = OwnerOf[d])

Covered(d) ==
    \/ d \in bound \cup missed
    \/ \E r \in Reqs : WillBind(req[r], d) \/ WillForget(req[r], d)

\* A provisioned device of a member is bound, known as missed, or there is a
\* request that will bind it or delete the member's row.
Cover == \A d \in listed : OwnerOf[d] \in members => Covered(d)

\* A device stays covered when its binding does, and what the request r was
\* going to do for it r still is, or has done.
LEMMA StaysCovered ==
  ASSUME NEW r \in Reqs, NEW d \in Devices, Covered(d),
         d \in bound \cup missed => d \in bound' \cup missed' \/ WillForget(req'[r], d),
         \A o \in Reqs \ {r} : req'[o] = req[o],
         WillBind(req[r], d) \/ WillForget(req[r], d)
           => \/ WillBind(req'[r], d) \/ WillForget(req'[r], d)
              \/ d \in bound' \cup missed'
  PROVE  Covered(d)'
<1>1. CASE d \in bound \cup missed
  BY <1>1 DEF Covered
<1>2. ASSUME NEW o \in Reqs, WillBind(req[o], d) \/ WillForget(req[o], d)
      PROVE  Covered(d)'
  <2>1. CASE o = r
    BY <1>2, <2>1 DEF Covered
  <2>2. CASE o # r
    <3>1. req'[o] = req[o]
      BY <2>2
    <3>. QED
      BY <1>2, <3>1 DEF Covered, WillBind, WillForget
  <2>. QED
    BY <2>1, <2>2
<1>. QED
  BY <1>1, <1>2 DEF Covered

\* Settling keeps what a request is going to do.
LEMMA SettlesWilling ==
  ASSUME NEW r \in Reqs, NEW q \in RequestType, Moves(r, q), q.pc # "idle", NEW d \in Devices
  PROVE  /\ WillBind(q, d) => WillBind(req'[r], d)
         /\ WillForget(q, d) => WillForget(req'[r], d)
<1>1. SettleOutcome(q, req'[r])
  BY DEF Moves
<1>2. WillBind(q, d) => req'[r] = q
  BY <1>1 DEF SettleOutcome, WillBind, Looks, DevicesDone
<1>3. WillForget(q, d) => WillForget(req'[r], d)
  BY <1>1 DEF SettleOutcome, WillForget, RequestType, Request
<1>. QED
  BY <1>2, <1>3 DEF WillBind

\* An operation that begins covers what it covers.
LEMMA StartCovers ==
  ASSUME TypeInv, Cover, NEW r \in Reqs, Start(r)
  PROVE  Cover'
<1>0. RequestsOK /\ RowsOK /\ req[r] \in RequestType /\ Fits(req[r])
  BY DEF TypeInv, RequestsOK
<1>1. req[r].pc = "idle" /\ UNCHANGED <<bound, missed, members>>
  BY DEF Start, CreateGroup, AddMember, RedeemInvite, RemoveMember, DeleteGroup, Provision,
         Begins, stored, bindings
<1>2. ~ \E d \in Devices : WillBind(req[r], d) \/ WillForget(req[r], d)
  BY <1>0, <1>1 DEF WillBind, WillForget, Fits, RequestType
<1>3. \A o \in Reqs \ {r} : req'[o] = req[o]
  <2>1. ASSUME NEW q, Moves(r, q) PROVE \A o \in Reqs \ {r} : req'[o] = req[o]
    BY <2>1 DEF Moves
  <2>2. UNCHANGED req \/ \E q : Moves(r, q)
    BY <1>0, StartMoves DEF Start
  <2>. QED
    BY <2>1, <2>2
<1>4. \A d \in Devices : Covered(d) => Covered(d)'
  BY <1>1, <1>2, <1>3, StaysCovered
<1>5. ASSUME NEW d \in Devices, Provision(r, d), OwnerOf[d] \in members
      PROVE  Covered(d)'
  <2>1. req'[r] = Request("provision", "bind", OwnerOf[d], {}, {d})
    BY <1>0, <1>5 DEF Provision, RequestsOK
  <2>2. WillBind(req'[r], d)
    BY <2>1 DEF WillBind, Request
  <2>. QED
    BY <2>2 DEF Covered
<1>6. CASE UNCHANGED listed
  BY <1>0, <1>1, <1>4, <1>6 DEF Cover, RowsOK
<1>7. ASSUME NEW d \in Devices, Provision(r, d) PROVE Cover'
  <2>1. listed' = listed \cup {d}
    BY <1>7 DEF Provision
  <2>. QED
    BY <1>0, <1>1, <1>4, <1>5, <1>7, <2>1 DEF Cover, RowsOK
<1>. QED
  BY <1>6, <1>7 DEF Start, CreateGroup, AddMember, RedeemInvite, RemoveMember, DeleteGroup

\* So does every call: what it takes off a request's list it has bound, noted as
\* missed, or unbound for a member whose row is still to be deleted.
LEMMA ProceedCovers ==
  ASSUME TypeInv, Cover, NEW r \in Reqs, Proceed(r)
  PROVE  Cover'
<1>0. RequestsOK /\ RowsOK /\ BindingsOK /\ req[r] \in RequestType /\ Fits(req[r])
  BY DEF TypeInv, RequestsOK
<1>1. UNCHANGED <<listed, devices>>
  BY DEF Proceed, IncrementInviteUse, UseFails, InsertMember, InsertFails, ListDevices, ListFails,
         Bind, Unbind, Publish, PublishFails, NextUser, Forget, ForgetFails, stored
<1>2. \A o \in Reqs \ {r} : req'[o] = req[o]
  BY <1>0, ProceedMoves DEF Proceed, Moves
<1>3. listed \subseteq devices /\ listed \subseteq Devices
  BY <1>0 DEF RowsOK
<1> DEFINE Will(p, d) == WillBind(p, d) \/ WillForget(p, d)
\* Where no member is added it is enough to follow each device.
<1>4. ASSUME \A d \in listed : OwnerOf[d] \in members' =>
                /\ OwnerOf[d] \in members
                /\ d \in bound \cup missed => d \in bound' \cup missed' \/ WillForget(req'[r], d)
                /\ Will(req[r], d) => Will(req'[r], d) \/ d \in bound' \cup missed'
      PROVE  Cover'
  <2>. SUFFICES ASSUME NEW d \in listed, OwnerOf[d] \in members'
                PROVE  Covered(d)'
    BY <1>1 DEF Cover
  <2>1. d \in Devices /\ Covered(d)
    BY <1>3, <1>4 DEF Cover
  <2>. QED
    BY <1>2, <1>4, <2>1, StaysCovered
<1>5. CASE IncrementInviteUse(r) \/ UseFails(r) \/ InsertFails(r)
  <2>1. ~ \E d \in Devices : Will(req[r], d)
    BY <1>0, <1>5 DEF IncrementInviteUse, UseFails, InsertFails, WillBind, WillForget, Fits
  <2>2. UNCHANGED <<members, bound, missed>>
    BY <1>5 DEF IncrementInviteUse, UseFails, InsertFails, bindings, stored
  <2>. QED
    BY <1>3, <1>4, <2>1, <2>2
\* The devices of a new member are about to be listed.
<1>6. CASE InsertMember(r)
  <2>1. Moves(r, At(r, "list")) /\ members' = members \cup {req[r].user}
        /\ UNCHANGED <<bound, missed>>
    BY <1>0, <1>6, ProceedMoves DEF InsertMember, bindings
  <2>2. ASSUME NEW d \in Devices, OwnerOf[d] = req[r].user PROVE Covered(d)'
    <3>1. WillBind(At(r, "list"), d)
      BY <1>0, <1>6, <2>2 DEF InsertMember, WillBind, At, Fits, RequestType
    <3>2. At(r, "list") \in RequestType /\ At(r, "list").pc # "idle"
      BY <1>0, <2>1 DEF Moves, At, RequestType
    <3>. QED
      BY <2>1, <3>1, <3>2, SettlesWilling DEF Covered
  <2>3. ~ \E d \in Devices : Will(req[r], d)
    BY <1>0, <1>6 DEF InsertMember, WillBind, WillForget, Fits
  <2>4. \A d \in Devices : Covered(d) => Covered(d)'
    BY <1>2, <2>1, <2>3, StaysCovered
  <2>. QED
    BY <1>1, <1>3, <2>1, <2>2, <2>4 DEF Cover
\* Every stored device of the member is listed, ...
<1>7. CASE ListDevices(r)
  <2>1. Moves(r, Listed(r)) /\ UNCHANGED <<members, bound, missed>>
    BY <1>0, <1>7, ProceedMoves DEF ListDevices, bindings, stored
  <2>2. Listed(r) \in RequestType /\ Listed(r).pc # "idle"
    BY <1>0, <2>1 DEF Moves, Listed, RequestType
  <2>3. ASSUME NEW d \in listed, Will(req[r], d) PROVE Will(Listed(r), d)
    BY <1>0, <1>3, <1>7, <2>3 DEF ListDevices, WillBind, WillForget, Listed, Removing,
       DevicesOf, RequestType, Fits
  <2>. QED
    BY <1>3, <1>4, <2>1, <2>2, <2>3, SettlesWilling
\* ... or all of them are noted as missed.
<1>8. CASE ListFails(r)
  <2> DEFINE q == At(r, IF Removing(r) THEN "unbind" ELSE "bind")
  <2>1. Moves(r, q) /\ UNCHANGED <<members, bound>> /\ missed \subseteq missed'
    BY <1>0, <1>8, ProceedMoves DEF ListFails, stored
  <2>2. q \in RequestType /\ q.pc # "idle"
    BY <1>0, <2>1 DEF Moves, At, RequestType
  <2>3. ASSUME NEW d \in listed, WillForget(req[r], d) PROVE WillForget(q, d)
    BY <1>0, <2>3 DEF WillForget, At, RequestType
  <2>4. ASSUME NEW d \in listed, WillBind(req[r], d) PROVE d \in bound' \cup missed'
    BY <1>0, <1>3, <1>8, <2>1, <2>4 DEF ListFails, WillBind, Removing, DevicesOf
  <2>. QED
    BY <1>3, <1>4, <2>1, <2>2, <2>3, <2>4, SettlesWilling
<1>9. ASSUME NEW d \in Devices, Bind(r, d) PROVE Cover'
  <2>1. Moves(r, Handled(r, d)) /\ UNCHANGED members /\ d \in bound' \cup missed'
        /\ bound \cup missed \subseteq bound' \cup missed'
    BY <1>0, <1>9, ProceedMoves DEF Bind, stored
  <2>2. Handled(r, d) \in RequestType /\ Handled(r, d).pc # "idle"
    BY <1>0, <1>9, <2>1 DEF Moves, Handled, RequestType, Bind
  <2>3. ASSUME NEW e \in listed, Will(req[r], e), e # d PROVE Will(Handled(r, d), e)
    BY <1>0, <2>3 DEF WillBind, WillForget, Handled, RequestType
  <2>. QED
    BY <1>3, <1>4, <2>1, <2>2, <2>3, SettlesWilling
<1>10. ASSUME NEW d \in Devices, Unbind(r, d) PROVE Cover'
  <2>1. Moves(r, Handled(r, d)) /\ UNCHANGED <<members, missed>> /\ bound \ {d} \subseteq bound'
    BY <1>0, <1>10, ProceedMoves DEF Unbind, stored
  <2>2. Handled(r, d) \in RequestType /\ Handled(r, d).pc # "idle"
    BY <1>0, <1>10, <2>1 DEF Moves, Handled, RequestType, Unbind
  <2>3. WillForget(Handled(r, d), d)
    BY <1>0, <1>10 DEF Unbind, WillForget, Handled, RequestType, Fits
  <2>4. ASSUME NEW e \in listed, Will(req[r], e) PROVE Will(Handled(r, d), e)
    BY <1>0, <1>10, <2>3, <2>4 DEF WillBind, WillForget, Handled, RequestType, Unbind
  <2>. QED
    BY <1>3, <1>4, <2>1, <2>2, <2>3, <2>4, SettlesWilling
<1>11. CASE Publish(r) \/ PublishFails(r)
  <2>1. Moves(r, AfterEvent(r)) /\ UNCHANGED <<members, bound, missed>>
    BY <1>0, <1>11, ProceedMoves DEF Publish, PublishFails, stored
  <2>2. ASSUME NEW d \in Devices, Will(req[r], d)
        PROVE  WillForget(AfterEvent(r), d) /\ AfterEvent(r).pc # "idle"
    BY <1>0, <1>11, <2>2 DEF Publish, PublishFails, WillBind, WillForget, AfterEvent, At, Fits,
       RequestType
  <2>3. AfterEvent(r) \in RequestType
    BY <2>1 DEF Moves
  <2>. QED
    BY <1>3, <1>4, <2>1, <2>2, <2>3, SettlesWilling
<1>12. CASE NextUser(r)
  <2>1. PICK u \in req[r].users : Moves(r, ForUser(r, u))
    BY <1>0, <1>12, ProceedMoves
  <2>2. UNCHANGED <<members, bound, missed>> /\ ForUser(r, u) \in RequestType
    BY <1>12, <2>1 DEF NextUser, stored, bindings, Moves
  <2>3. ASSUME NEW d \in Devices, Will(req[r], d)
        PROVE  WillForget(ForUser(r, u), d) /\ ForUser(r, u).pc # "idle"
    BY <1>0, <1>12, <2>3 DEF NextUser, WillBind, WillForget, ForUser, Request, Fits, RequestType
  <2>. QED
    BY <1>3, <1>4, <2>1, <2>2, <2>3, SettlesWilling
\* The rows are gone, ...
<1>13. CASE Forget(r)
  <2>1. UNCHANGED <<bound, missed>>
    BY <1>13 DEF Forget, bindings
  <2>2. ASSUME NEW d \in listed, OwnerOf[d] \in members'
        PROVE  OwnerOf[d] \in members /\ ~Will(req[r], d)
    BY <1>0, <1>13, <2>2 DEF Forget, WillBind, WillForget, Fits, RequestType
  <2>. QED
    BY <1>4, <2>1, <2>2
\* ... or the devices without a binding are noted.
<1>14. CASE ForgetFails(r)
  <2>1. devices \subseteq bound' \cup missed' /\ UNCHANGED members
    BY <1>14 DEF ForgetFails, stored
  <2>. QED
    BY <1>3, <1>4, <2>1
<1>. QED
  BY <1>5, <1>6, <1>7, <1>8, <1>9, <1>10, <1>11, <1>12, <1>13, <1>14 DEF Proceed

THEOREM MembersCovered == Spec => [](TypeInv /\ Cover)
<1>1. Init => Cover
  BY DEF Init, Cover
<1>2. TypeInv /\ Cover /\ [Next]_vars => Cover'
  <2> SUFFICES ASSUME TypeInv, Cover, [Next]_vars PROVE Cover'
    OBVIOUS
  <2>1. ASSUME UNCHANGED <<listed, members, bound, missed, req>> PROVE Cover'
    BY <2>1 DEF Cover, Covered, WillBind, WillForget
  <2>. QED
    BY <2>1, StartCovers, ProceedCovers
       DEF Next, CreateDevice, CreateInvite, vars, stored, bindings
<1>. QED
  BY <1>1, <1>2, InitTypes, TypeStep, PTL DEF Spec

\* No device of a member is left out, however additions, removals, logins and
\* reconnections overlap and whichever calls fail (group_service.go:127).
THEOREM NoMemberLeftOut == Spec => []MembersBound
<1>1. TypeInv /\ Cover => MembersBound
  BY DEF TypeInv, RequestsOK, RowsOK, RequestType, Fits, Cover, Covered, WillBind, WillForget,
         MembersBound, Quiescent
<1>. QED
  BY <1>1, MembersCovered, PTL

-----------------------------------------------------------------------------
(* While requests do not overlap.                                          *)

AtMostOne == \A o, r \in Reqs : req[o].pc # "idle" /\ req[r].pc # "idle" => o = r

Told(d, u) == <<d, u>> \in believed \ untold

\* Devices are bound, and told of a join, for members only.
AddingOK(q) ==
    (q.op \in {"create", "add"} /\ q.pc \in {"list", "bind", "publish"}) \/ q.op = "provision"
        => q.user \in members

\* An exit is known to every device it concerns before the unbinding begins,
\* and the devices that are done are unbound.
RemovingOK(q) ==
    /\ q.op = "remove" => group = "live"
    /\ q.op = "remove" /\ q.pc \in {"unbind", "forget"}
         => \A d \in bound \ (kept \cup q.todo) : OwnerOf[d] # q.user
    /\ q.op = "remove" /\ q.pc \in {"list", "unbind", "forget"}
         => \A d \in Devices : Told(d, q.user) => d \notin bound /\ OwnerOf[d] # q.user

\* The bound devices belong to the users to come and to the one at hand.
DeletingOK(q) ==
    q.op = "delete" => \A d \in bound \ (kept \cup q.todo) :
        OwnerOf[d] \in q.users \/ (q.pc = "list" /\ OwnerOf[d] = q.user)

RequestOK(r) == AddingOK(req[r]) /\ RemovingOK(req[r]) /\ DeletingOK(req[r])

\* Who is taken for a member by a device that gets the messages, or by one of
\* his own, is a member; and his own device gets them.
ToldMembers ==
    \A d \in Devices, u \in Users :
        Told(d, u) /\ (d \in bound \/ OwnerOf[d] = u) => u \in members
ToldOwnBound ==
    \A d \in Devices, u \in Users :
        Told(d, u) /\ OwnerOf[d] = u => d \in bound \/ \E r \in Reqs : req[r].op = "delete"
ToldOK == group # "deleted" => ToldMembers /\ ToldOwnBound

SerialStates == AtMostOne /\ (\A r \in Reqs : RequestOK(r)) /\ ~StrayBinding /\ ToldOK
Serial == ~overlapped => SerialStates

LEMMA OthersRest ==
  ASSUME RequestsOK, NEW r \in Reqs,
         \A o \in Reqs \ {r} : req'[o] = req[o] /\ req[o].pc = "idle"
  PROVE  /\ AtMostOne'
         /\ \A o \in Reqs \ {r} : RequestOK(o)' /\ req[o].op = "none" /\ req'[o].op = "none"
<1>1. \A o \in Reqs \ {r} : req[o].op = "none"
  BY DEF RequestsOK, Fits, RequestType
<1>. QED
  BY <1>1 DEF AtMostOne, RequestOK, AddingOK, RemovingOK, DeletingOK

LEMMA SerialStart ==
  ASSUME TypeInv, Serial, NEW r \in Reqs, Start(r), ~overlapped'
  PROVE  SerialStates'
<1>0. RequestsOK /\ RowsOK /\ BindingsOK /\ req[r] \in RequestType /\ Fits(req[r])
  BY DEF TypeInv, RequestsOK
<1>1. ~overlapped /\ Quiescent /\ SerialStates
      /\ UNCHANGED <<members, bound, kept, believed, untold>>
  BY DEF Start, CreateGroup, AddMember, RedeemInvite, RemoveMember, DeleteGroup, Provision,
         Begins, stored, bindings, events, Serial
<1>2. \A o \in Reqs : req[o].op = "none"
  BY <1>0, <1>1 DEF Quiescent, RequestsOK, Fits, RequestType
<1>3. \A o \in Reqs \ {r} : req'[o] = req[o] /\ req[o].pc = "idle"
  <2>1. UNCHANGED req \/ \E q : Moves(r, q)
    BY <1>0, StartMoves DEF Start
  <2>. QED
    BY <1>1, <2>1 DEF Moves, Quiescent
<1>4. ~StrayBinding'
  BY <1>1 DEF SerialStates, StrayBinding
<1>5. (group = "deleted" => group' = "deleted") => ToldOK'
  <2>1. ASSUME ToldMembers PROVE ToldMembers'
    BY <1>1, <2>1 DEF ToldMembers, Told
  <2>2. ASSUME ToldOwnBound PROVE ToldOwnBound'
    BY <1>1, <1>2, <2>2 DEF ToldOwnBound, Told
  <2>. QED
    BY <1>1, <2>1, <2>2 DEF SerialStates, ToldOK
<1> DEFINE Fine == RequestOK(r)' /\ (group = "deleted" => group' = "deleted")
<1>6. Fine
  <2> USE DEF RequestOK, AddingOK, RemovingOK, DeletingOK
  <2>1. ASSUME NEW us \in SUBSET (Users \ {Creator}), CreateGroup(r, us) PROVE Fine
    <3>1. Moves(r, Request("create", "insert", Creator, us, {})) /\ group = "none"
      BY <1>0, <2>1, StartMoves DEF CreateGroup
    <3>2. req'[r] = Request("create", "insert", Creator, us, {})
      BY <3>1 DEF Moves, SettleOutcome, Request, Looks, DevicesDone
    <3>. QED
      BY <3>1, <3>2 DEF Request
  <2>2. ASSUME NEW u \in Users, AddMember(r, u) PROVE Fine
    <3>1. Moves(r, Request("add", "insert", u, {}, {})) /\ group' = group
      BY <1>0, <2>2, StartMoves DEF AddMember, stored
    <3>2. req'[r] = Request("add", "insert", u, {}, {})
      BY <3>1 DEF Moves, SettleOutcome, Request, Looks, DevicesDone
    <3>. QED
      BY <3>1, <3>2 DEF Request
  <2>3. ASSUME NEW u \in Users, RedeemInvite(r, u) PROVE Fine
    <3>1. Moves(r, Request("add", "use", u, {}, {})) /\ group' = group
      BY <1>0, <2>3, StartMoves DEF RedeemInvite, stored
    <3>2. req'[r] = Request("add", "use", u, {}, {})
      BY <3>1 DEF Moves, SettleOutcome, Request, Looks, DevicesDone
    <3>. QED
      BY <3>1, <3>2 DEF Request
  <2>4. ASSUME NEW u \in Users, RemoveMember(r, u) PROVE Fine
    <3>1. Moves(r, Request("remove", "publish", u, {}, {})) /\ group = "live" /\ group' = group
      BY <1>0, <2>4, StartMoves DEF RemoveMember, stored
    <3>2. req'[r] = Request("remove", "publish", u, {}, {})
      BY <3>1 DEF Moves, SettleOutcome, Request, Looks, DevicesDone
    <3>. QED
      BY <3>1, <3>2 DEF Request
  <2>5. ASSUME DeleteGroup(r) PROVE Fine
    <3>1. Moves(r, Request("delete", "next", NoUser, members, {})) /\ group' = group
      BY <1>0, <2>5, StartMoves DEF DeleteGroup, stored
    <3>2. req'[r].op = "delete" /\ req'[r].users = members /\ req'[r].todo = {}
      BY <3>1 DEF Moves, SettleOutcome, Request, Looks, DevicesDone
    <3>3. \A d \in bound \ kept : OwnerOf[d] \in members
      BY <1>1 DEF SerialStates, StrayBinding
    <3>. QED
      BY <1>1, <3>1, <3>2, <3>3
  <2>6. ASSUME NEW d \in Devices, Provision(r, d) PROVE Fine
    <3>1. CASE OwnerOf[d] \in members
      <4>1. req'[r] = Request("provision", "bind", OwnerOf[d], {}, {d}) /\ UNCHANGED <<members, group>>
        BY <1>0, <2>6, <3>1 DEF Provision, RequestsOK, stored
      <4>. QED
        BY <3>1, <4>1 DEF Request
    <3>2. CASE OwnerOf[d] \notin members
      BY <1>2, <2>6, <3>2 DEF Provision, stored
    <3>. QED
      BY <3>1, <3>2
  <2>. QED
    BY <2>1, <2>2, <2>3, <2>4, <2>5, <2>6 DEF Start
<1>. QED
  BY <1>0, <1>3, <1>4, <1>5, <1>6, OthersRest DEF SerialStates

\* What is left of a request when it has settled.
LEMMA Settled ==
  ASSUME NEW q \in RequestType, NEW s, SettleOutcome(q, s), q.pc = "next" => q.todo = {},
         q.op = "provision" => q.pc \in {"bind", "idle"}
  PROVE  /\ s.op = "provision" \/ (s.op \in {"create", "add"} /\ s.pc \in {"list", "bind", "publish"})
              => s.op = q.op /\ s.user = q.user /\ q.pc \in {"list", "bind", "unbind", "publish"}
         /\ s.op = "remove"
              => /\ q.op = "remove" /\ s.user = q.user /\ s.todo = q.todo
                 /\ s.pc = q.pc \/ (q.pc \in {"bind", "unbind"} /\ s.pc = "forget")
         /\ q.op = "delete" /\ q.pc # "idle"
              => /\ s.op = "delete" /\ s.users = q.users /\ s.todo = q.todo
                 /\ q.pc = "list" => s.pc = "list" /\ s.user = q.user
         /\ s.op = "delete" => q.op = "delete" /\ q.pc # "idle"
         /\ q.pc = "idle" => s = None
<1> USE DEF RequestType, Request, None
<1>1. CASE s = q /\ q.pc \notin {"idle", "next"} /\ ~DevicesDone(q)
  BY <1>1
<1>2. CASE s = None /\ (q.pc = "idle" \/ (Looks(q) /\ q.op \in {"create", "provision"}))
  BY <1>2 DEF Looks, DevicesDone
<1>3. CASE s = [q EXCEPT !.pc = "publish"] /\ DevicesDone(q) /\ q.op \in {"create", "add"}
  BY <1>3 DEF DevicesDone
<1>4. CASE s = [q EXCEPT !.pc = "forget"] /\ DevicesDone(q) /\ q.op = "remove"
  BY <1>4 DEF DevicesDone
<1>5. CASE /\ s = Request(q.op, "next", NoUser, q.users, {})
           /\ Looks(q) /\ q.op \in {"create", "delete"}
  BY <1>5 DEF Looks, DevicesDone
<1>6. CASE /\ s = Request("delete", "forget", NoUser, {}, {})
           /\ Looks(q) /\ q.op = "delete" /\ q.users = {}
  BY <1>6 DEF Looks, DevicesDone
<1>. QED
  BY <1>1, <1>2, <1>3, <1>4, <1>5, <1>6 DEF SettleOutcome

LEMMA SerialProceed ==
  ASSUME TypeInv, Serial, NEW r \in Reqs, Proceed(r), ~overlapped'
  PROVE  SerialStates'
<1> DEFINE q == req[r]
           s == req'[r]
           Deleting == \E o \in Reqs : req[o].op = "delete"
<1>0. RequestsOK /\ RowsOK /\ BindingsOK /\ q \in RequestType /\ Fits(q)
  BY DEF TypeInv, RequestsOK
<1>1. UNCHANGED <<overlapped, devices>> /\ q.pc # "idle"
  BY DEF Proceed, IncrementInviteUse, UseFails, InsertMember, InsertFails, ListDevices, ListFails,
         Bind, Unbind, Publish, PublishFails, NextUser, Forget, ForgetFails, stored
<1>2. ~overlapped /\ SerialStates /\ RequestOK(r)
  BY <1>1 DEF Serial, SerialStates
<1>3. \A o \in Reqs \ {r} : req'[o] = req[o] /\ req[o].pc = "idle"
  <2>1. \E p : Moves(r, p)
    BY <1>0, ProceedMoves DEF Proceed
  <2>. QED
    BY <1>1, <1>2, <2>1 DEF Moves, SerialStates, AtMostOne
<1>4. AtMostOne' /\ (\A o \in Reqs \ {r} : RequestOK(o)')
      /\ (Deleting <=> q.op = "delete") /\ (Deleting' <=> s.op = "delete")
  BY <1>0, <1>3, OthersRest
<1> DEFINE Kept == ~StrayBinding' /\ ToldOK'
\* A call that changes no rows and no bindings, of a request that stays what it is.
<1>5. ASSUME UNCHANGED <<members, bound, believed, untold, group>>, kept \subseteq kept',
             q.op = "delete" => s.op = "delete"
      PROVE  Kept
  <2>1. ASSUME ToldMembers PROVE ToldMembers'
    BY <1>5, <2>1 DEF ToldMembers, Told
  <2>2. ASSUME ToldOwnBound PROVE ToldOwnBound'
    BY <1>4, <1>5, <2>2 DEF ToldOwnBound, Told
  <2>3. ~StrayBinding'
    BY <1>2, <1>5 DEF SerialStates, StrayBinding
  <2>. QED
    BY <1>2, <1>5, <2>1, <2>2, <2>3 DEF SerialStates, ToldOK
\* The request goes on with p, and settles.
<1> DEFINE Calm(p) == p.op \in {"none", "create", "add"} /\ p.pc \notin {"list", "bind", "publish"}
           Goes(p) == /\ Moves(r, p) /\ (p.pc = "next" => p.todo = {})
                      /\ p.op = "provision" => p.pc \in {"bind", "idle"}
<1>6. ASSUME NEW p, Goes(p), p.pc \notin {"list", "bind", "unbind", "publish"}, p.op \in {"create", "add"}
               \/ p.pc = "idle"
      PROVE  Calm(s)
  BY <1>6, Settled DEF Moves, SettleOutcome, Request, None, Looks, DevicesDone
<1>7. Calm(s) => RequestOK(r)'
  BY DEF RequestOK, AddingOK, RemovingOK, DeletingOK
<1> DEFINE Fine == RequestOK(r)' /\ Kept
<1>8. ASSUME IncrementInviteUse(r) \/ UseFails(r) \/ InsertFails(r) PROVE Fine
  <2>1. UNCHANGED <<members, bound, kept, believed, untold, group>>
    BY <1>8 DEF IncrementInviteUse, UseFails, InsertFails, bindings, events, stored
  <2>2. q.op \in {"create", "add"} /\ q.todo = {}
    BY <1>0, <1>8 DEF IncrementInviteUse, UseFails, InsertFails, Fits, RequestType
  <2>3. Goes(At(r, "insert")) \/ Goes(At(r, "next")) \/ Goes(Ended(r))
    BY <1>0, <1>8, <2>2, ProceedMoves DEF At, Ended, RequestType
  <2>4. Calm(s)
    BY <1>0, <1>6, <2>2, <2>3 DEF At, Ended, RequestType
  <2>. QED
    BY <1>5, <1>7, <2>1, <2>2, <2>4
<1>9. ASSUME InsertMember(r) PROVE Fine
  <2>1. Goes(At(r, "list")) /\ q.op \in {"create", "add"} /\ q.user \in Users
    BY <1>0, <1>9, ProceedMoves DEF InsertMember, At, Fits, RequestType
  <2>2. s = At(r, "list")
    BY <1>0, <2>1 DEF Moves, SettleOutcome, At, RequestType, Looks, DevicesDone
  <2>3. s.op \in {"create", "add"} /\ s.user = q.user
    BY <1>0, <2>1, <2>2 DEF At, RequestType
  <2>4. members' = members \cup {q.user} /\ UNCHANGED <<bound, kept, believed, untold, group>>
        /\ group = "live"
    BY <1>9 DEF InsertMember, bindings, events
  <2>5. RequestOK(r)'
    BY <2>3, <2>4 DEF RequestOK, AddingOK, RemovingOK, DeletingOK
  <2>6. ~StrayBinding'
    BY <1>2, <2>4 DEF SerialStates, StrayBinding
  <2>7. ToldMembers /\ ToldOwnBound
    BY <1>2, <2>4 DEF SerialStates, ToldOK
  <2>8. ToldMembers'
    BY <2>4, <2>7 DEF ToldMembers, Told
  <2>9. ToldOwnBound'
    BY <1>4, <2>1, <2>4, <2>7 DEF ToldOwnBound, Told
  <2>. QED
    BY <2>5, <2>6, <2>8, <2>9 DEF ToldOK
\* The listing: nobody is bound that it leaves out.
<1>10. ASSUME ListDevices(r) PROVE Fine
  <2>1. Goes(Listed(r)) /\ UNCHANGED <<members, bound, kept, believed, untold, group>>
        /\ q.pc = "list" /\ q.op \in {"create", "add", "remove", "delete"} /\ q.todo = {}
    BY <1>0, <1>10, ProceedMoves DEF ListDevices, Listed, Fits, RequestType, Removing,
       bindings, events, stored
  <2>2. Listed(r) \in RequestType /\ SettleOutcome(Listed(r), s)
    BY <2>1 DEF Moves
  <2>3. /\ Listed(r).op = q.op /\ Listed(r).user = q.user /\ Listed(r).users = q.users
        /\ Listed(r).todo = DevicesOf(q.user) /\ Listed(r).pc \in {"bind", "unbind"}
    BY <1>0 DEF Listed, RequestType
  <2>4. AddingOK(q) /\ RemovingOK(q) /\ DeletingOK(q)
    BY <1>2 DEF RequestOK
  <2>5. AddingOK(q)'
    BY <2>1, <2>2, <2>3, <2>4, Settled DEF AddingOK
  <2>6. RemovingOK(q)'
    <3>1. \A d \in bound : OwnerOf[d] = q.user => d \in DevicesOf(q.user)
      BY <1>0 DEF BindingsOK, DevicesOf
    <3>. QED
      BY <2>1, <2>2, <2>3, <2>4, <3>1, Settled DEF RemovingOK, Told
  <2>7. DeletingOK(q)'
    <3>1. \A d \in bound : OwnerOf[d] = q.user => d \in DevicesOf(q.user)
      BY <1>0 DEF BindingsOK, DevicesOf
    <3>. QED
      BY <2>1, <2>2, <2>3, <2>4, <3>1, Settled DEF DeletingOK
  <2>8. q.op = "delete" => s.op = "delete"
    BY <2>1, <2>2, <2>3, Settled
  <2>. QED
    BY <1>5, <2>1, <2>5, <2>6, <2>7, <2>8 DEF RequestOK
<1>11. ASSUME ListFails(r) PROVE Fine
  <2> DEFINE p == At(r, IF Removing(r) THEN "unbind" ELSE "bind")
  <2>1. Goes(p) /\ UNCHANGED <<members, bound, believed, untold, group>>
        /\ q.pc = "list" /\ q.op \in {"create", "add", "remove", "delete"} /\ q.todo = {}
    BY <1>0, <1>11, ProceedMoves DEF ListFails, At, Fits, RequestType, Removing, events, stored
  <2>2. p \in RequestType /\ SettleOutcome(p, s)
    BY <2>1 DEF Moves
  <2>3. p.op = q.op /\ p.user = q.user /\ p.users = q.users /\ p.todo = {}
        /\ p.pc \in {"bind", "unbind"}
    BY <1>0, <2>1 DEF At, RequestType
  <2>4. AddingOK(q) /\ RemovingOK(q) /\ DeletingOK(q)
    BY <1>2 DEF RequestOK
  <2>5. kept \subseteq kept'
        /\ (q.op \in {"remove", "delete"} => \A d \in bound : OwnerOf[d] = q.user => d \in kept')
    BY <1>0, <1>11 DEF ListFails, Removing, BindingsOK, DevicesOf
  <2> HIDE DEF p
  <2>6. AddingOK(q)'
    BY <2>1, <2>2, <2>3, <2>4, Settled DEF AddingOK
  <2>7. RemovingOK(q)'
    BY <2>1, <2>2, <2>3, <2>4, <2>5, Settled DEF RemovingOK, Told
  <2>8. DeletingOK(q)'
    BY <2>1, <2>2, <2>3, <2>4, <2>5, Settled DEF DeletingOK
  <2>9. q.op = "delete" => s.op = "delete"
    BY <2>1, <2>2, <2>3, Settled
  <2>. QED
    BY <1>5, <2>1, <2>5, <2>6, <2>7, <2>8, <2>9 DEF RequestOK
<1>12. ASSUME NEW d \in Devices, Bind(r, d) PROVE Fine
  <2> DEFINE p == Handled(r, d)
  <2>1. Goes(p) /\ UNCHANGED <<members, group>> /\ d \in q.todo
        /\ q.pc = "bind" /\ q.op \in {"create", "add", "provision"} /\ OwnerOf[d] = q.user
    BY <1>0, <1>12, ProceedMoves DEF Bind, Handled, Fits, RequestType, stored
  <2>2. p \in RequestType /\ SettleOutcome(p, s)
    BY <2>1 DEF Moves
  <2>3. p.op = q.op /\ p.user = q.user /\ p.pc = "bind"
    BY <1>0, <2>1 DEF Handled, RequestType
  <2> HIDE DEF p
  <2>4. q.user \in members
    BY <1>2, <2>1 DEF RequestOK, AddingOK
  <2>5. RequestOK(r)' /\ q.op # "delete" /\ s.op # "delete"
    BY <2>1, <2>2, <2>3, <2>4, Settled DEF RequestOK, AddingOK, RemovingOK, DeletingOK
  <2>6. /\ bound \subseteq bound' /\ bound' \subseteq bound \cup {d}
        /\ bound' \ kept' \subseteq (bound \ kept) \cup {d}
    BY <1>12 DEF Bind, events
  <2>7. \A e \in Devices, u \in Users : Told(e, u)' => Told(e, u) /\ (e \in bound' => e \in bound)
    BY <1>2, <1>12 DEF Bind, Told, Believe, OfDevices, events
  <2>8. ~StrayBinding'
    BY <1>2, <2>1, <2>4, <2>6 DEF SerialStates, StrayBinding
  <2>9. ASSUME ToldMembers PROVE ToldMembers'
    BY <2>1, <2>7, <2>9 DEF ToldMembers
  <2>10. ASSUME ToldOwnBound PROVE ToldOwnBound'
    BY <1>4, <2>5, <2>6, <2>7, <2>10 DEF ToldOwnBound
  <2>. QED
    BY <1>2, <2>1, <2>5, <2>8, <2>9, <2>10 DEF SerialStates, ToldOK
\* The device whose binding goes does not take its user for a member.
<1>13. ASSUME NEW d \in Devices, Unbind(r, d) PROVE Fine
  <2> DEFINE p == Handled(r, d)
  <2>1. Goes(p) /\ UNCHANGED <<members, group, believed, untold>> /\ d \in q.todo
        /\ q.pc = "unbind" /\ q.op \in {"remove", "delete"} /\ OwnerOf[d] = q.user
    BY <1>0, <1>13, ProceedMoves DEF Unbind, Handled, Fits, RequestType, stored, events
  <2>2. p \in RequestType /\ SettleOutcome(p, s)
    BY <2>1 DEF Moves
  <2>3. p.op = q.op /\ p.user = q.user /\ p.users = q.users /\ p.pc = "unbind"
        /\ p.todo = q.todo \ {d}
    BY <1>0, <2>1 DEF Handled, RequestType
  <2> HIDE DEF p
  <2>4. RemovingOK(q) /\ DeletingOK(q)
    BY <1>2 DEF RequestOK
  <2>5. /\ bound \ {d} \subseteq bound' /\ bound' \subseteq bound
        /\ bound' \ kept' \subseteq (bound \ kept) \ {d}
    BY <1>13 DEF Unbind
  <2>6. AddingOK(q)'
    BY <2>1, <2>2, <2>3, Settled DEF AddingOK
  <2>7. RemovingOK(q)'
    <3>1. ASSUME s.op = "remove"
          PROVE  q.op = "remove" /\ s.user = q.user /\ s.todo = q.todo \ {d} /\ s.pc \in {"unbind", "forget"}
      BY <2>1, <2>2, <2>3, <3>1, Settled
    <3>2. \A e \in bound' \ (kept' \cup (q.todo \ {d})) : e \in bound \ (kept \cup q.todo)
      BY <2>5
    <3>. QED
      BY <2>1, <2>4, <2>5, <3>1, <3>2 DEF RemovingOK, Told
  <2>8. DeletingOK(q)'
    <3>1. ASSUME s.op = "delete"
          PROVE  q.op = "delete" /\ s.users = q.users /\ s.todo = q.todo \ {d}
      BY <2>1, <2>2, <2>3, <3>1, Settled
    <3>2. \A e \in bound' \ (kept' \cup (q.todo \ {d})) : e \in bound \ (kept \cup q.todo)
      BY <2>5
    <3>. QED
      BY <2>1, <2>4, <3>1, <3>2 DEF DeletingOK
  <2>9. ~StrayBinding'
    BY <1>2, <2>1, <2>5 DEF SerialStates, StrayBinding
  <2>10. ASSUME ToldMembers PROVE ToldMembers'
    BY <2>1, <2>5, <2>10 DEF ToldMembers, Told
  <2>11. ASSUME ToldOwnBound PROVE ToldOwnBound'
    <3>1. CASE q.op = "delete"
      BY <1>4, <2>1, <2>2, <2>3, <3>1, Settled DEF ToldOwnBound
    <3>2. CASE q.op = "remove"
      BY <1>4, <2>1, <2>4, <2>5, <2>11, <3>2 DEF ToldOwnBound, Told, RemovingOK
    <3>. QED
      BY <2>1, <3>1, <3>2
  <2>. QED
    BY <1>2, <2>1, <2>6, <2>7, <2>8, <2>9, <2>10, <2>11 DEF SerialStates, ToldOK, RequestOK
\* An event reaches the bound devices.
<1>14. ASSUME Publish(r) \/ PublishFails(r) PROVE Fine
  <2> DEFINE p == AfterEvent(r)
  <2>1. Goes(p) /\ UNCHANGED <<members, group, bound, kept>> /\ q.user \in Users
        /\ q.pc = "publish" /\ q.op \in {"create", "add", "remove"} /\ q.todo = {}
    BY <1>0, <1>14, ProceedMoves DEF Publish, PublishFails, AfterEvent, At, Fits, RequestType, stored
  <2>2. p \in RequestType /\ SettleOutcome(p, s)
    BY <2>1 DEF Moves
  <2>3. /\ p.op = q.op /\ p.user = q.user /\ p.pc \in {"list", "next", "idle"}
        /\ p.pc = "list" <=> q.op = "remove"
    BY <1>0, <2>1 DEF AfterEvent, At, RequestType
  <2> HIDE DEF p
  <2>4. AddingOK(q) /\ RemovingOK(q)
    BY <1>2 DEF RequestOK
  <2>5. \A d \in Devices, u \in Users : Told(d, u)' =>
            \/ Told(d, u) /\ ~(q.op = "remove" /\ u = q.user /\ d \in bound)
            \/ q.op # "remove" /\ d \in bound /\ u = q.user
    BY <1>2, <1>14, <2>1 DEF Publish, PublishFails, Believe, Told, About, Removing
  <2>6. ~StrayBinding'
    BY <1>2, <2>1 DEF SerialStates, StrayBinding
  <2>7. ASSUME ToldMembers PROVE ToldMembers'
    BY <2>1, <2>4, <2>5, <2>7 DEF ToldMembers, AddingOK
  <2>8. ASSUME ToldOwnBound PROVE ToldOwnBound'
    BY <1>4, <2>1, <2>5, <2>8 DEF ToldOwnBound
  <2>9. AddingOK(q)' /\ DeletingOK(q)'
    BY <2>1, <2>2, <2>3, Settled DEF AddingOK, DeletingOK
  <2>10. RemovingOK(q)'
    <3>1. ASSUME s.op = "remove"
          PROVE  q.op = "remove" /\ s.user = q.user /\ s.pc = "list"
      BY <2>1, <2>2, <2>3, <3>1, Settled
    <3>2. CASE q.op = "remove"
      <4>1. group = "live" /\ ToldOwnBound
        BY <1>2, <2>4, <3>2 DEF RemovingOK, SerialStates, ToldOK
      <4>2. \A d \in Devices, u \in Users : Told(d, u)' /\ u = q.user => d \notin bound /\ OwnerOf[d] # u
        BY <1>4, <2>1, <2>5, <3>2, <4>1 DEF ToldOwnBound
      <4>. QED
        BY <2>1, <3>1, <4>1, <4>2 DEF RemovingOK, Told
    <3>. QED
      BY <3>1, <3>2 DEF RemovingOK
  <2>. QED
    BY <1>2, <2>1, <2>6, <2>7, <2>8, <2>9, <2>10 DEF SerialStates, ToldOK, RequestOK
<1>15. ASSUME NextUser(r) PROVE Fine
  <2>1. PICK u \in q.users : Moves(r, ForUser(r, u))
    BY <1>0, <1>15, ProceedMoves
  <2> DEFINE p == ForUser(r, u)
  <2>2. /\ UNCHANGED <<members, bound, kept, believed, untold, group>>
        /\ q.pc = "next" /\ q.op \in {"create", "delete"} /\ q.todo = {}
    BY <1>0, <1>15 DEF NextUser, stored, bindings, events, Fits, RequestType
  <2>3. p \in RequestType /\ SettleOutcome(p, s)
    BY <2>1 DEF Moves
  <2>4. /\ p.op = q.op /\ p.user = u /\ p.users = q.users \ {u} /\ p.todo = {}
        /\ p.pc = IF q.op = "delete" THEN "list" ELSE "insert"
    BY DEF ForUser, Request
  <2> HIDE DEF p
  <2>5. AddingOK(q)' /\ RemovingOK(q)'
    BY <2>2, <2>3, <2>4, Settled DEF AddingOK, RemovingOK
  <2>6. DeletingOK(q)'
    <3>1. ASSUME s.op = "delete"
          PROVE  q.op = "delete" /\ s.users = q.users \ {u} /\ s.todo = {} /\ s.pc = "list" /\ s.user = u
      BY <2>2, <2>3, <2>4, <3>1, Settled
    <3>. QED
      BY <1>2, <2>2, <3>1 DEF DeletingOK, RequestOK
  <2>7. q.op = "delete" => s.op = "delete"
    BY <2>2, <2>3, <2>4, Settled
  <2>. QED
    BY <1>5, <2>2, <2>5, <2>6, <2>7 DEF RequestOK
<1>16. ASSUME Forget(r) \/ ForgetFails(r) PROVE Fine
  <2>1. Goes(Ended(r)) /\ q.pc = "forget" /\ q.op \in {"remove", "delete"} /\ q.todo = {}
        /\ (q.op = "delete" => q.users = {}) /\ UNCHANGED <<bound, kept>>
    BY <1>0, <1>16, ProceedMoves DEF Forget, ForgetFails, Ended, At, Fits, RequestType,
       bindings
  <2>2. Ended(r).pc = "idle"
    BY <1>0 DEF Ended, At, RequestType
  <2>3. Calm(s)
    BY <1>6, <2>1, <2>2
  <2>4. RemovingOK(q) /\ DeletingOK(q)
    BY <1>2 DEF RequestOK
  <2>5. ASSUME Forget(r), q.op = "remove" PROVE Kept
    <3>1. members' = members \ {q.user} /\ UNCHANGED <<group, believed, untold>> /\ group = "live"
      BY <2>4, <2>5 DEF Forget, bindings, events, RemovingOK
    <3>2. ~StrayBinding'
      BY <1>2, <2>1, <2>4, <2>5, <3>1 DEF SerialStates, StrayBinding, RemovingOK
    <3>3. ToldMembers /\ ToldOwnBound
      BY <1>2, <3>1 DEF SerialStates, ToldOK
    <3>4. ToldMembers'
      BY <2>1, <2>4, <2>5, <3>1, <3>3 DEF ToldMembers, Told, RemovingOK
    <3>5. ToldOwnBound'
      BY <1>4, <2>1, <2>5, <3>1, <3>3 DEF ToldOwnBound, Told
    <3>. QED
      BY <3>2, <3>4, <3>5 DEF ToldOK
  <2>6. ASSUME Forget(r), q.op = "delete" PROVE Kept
    <3>1. group' = "deleted"
      BY <2>6 DEF Forget
    <3>2. ~StrayBinding'
      BY <2>1, <2>4, <2>6 DEF StrayBinding, DeletingOK
    <3>. QED
      BY <3>1, <3>2 DEF ToldOK
  <2>7. ASSUME ForgetFails(r) PROVE Kept
    <3>1. UNCHANGED <<members, group>>
      BY <2>7 DEF ForgetFails, stored
    <3>2. \A d \in Devices, u \in Users : Told(d, u)' => Told(d, u) /\ d \in bound
      BY <1>0, <1>2, <2>7 DEF ForgetFails, Believe, Told, OfDevices, BindingsOK
    <3>3. ~StrayBinding'
      BY <1>2, <2>1, <3>1 DEF SerialStates, StrayBinding
    <3>4. ASSUME ToldMembers PROVE ToldMembers'
      BY <2>1, <3>1, <3>2, <3>4 DEF ToldMembers
    <3>5. ToldOwnBound'
      BY <2>1, <3>2 DEF ToldOwnBound
    <3>. QED
      BY <1>2, <3>1, <3>3, <3>4, <3>5 DEF SerialStates, ToldOK
  <2>. QED
    BY <1>7, <1>16, <2>1, <2>3, <2>5, <2>6, <2>7
<1>17. Fine
  BY <1>8, <1>9, <1>10, <1>11, <1>12, <1>13, <1>14, <1>15, <1>16 DEF Proceed
<1>. QED
  BY <1>4, <1>17 DEF SerialStates

THEOREM SerialRequests == Spec => [](TypeInv /\ Serial)
<1>1. Init => Serial
  BY DEF Init, Serial, SerialStates, AtMostOne, None, Request, RequestOK, AddingOK, RemovingOK,
         DeletingOK, StrayBinding, ToldOK, ToldMembers, ToldOwnBound, Told
<1>2. TypeInv /\ Serial /\ [Next]_vars => Serial'
  <2> SUFFICES ASSUME TypeInv, Serial, [Next]_vars PROVE Serial'
    OBVIOUS
  <2>1. ASSUME UNCHANGED <<group, members, bound, kept, believed, untold, req, overlapped>>
        PROVE  Serial'
    BY <2>1 DEF Serial, SerialStates, AtMostOne, RequestOK, AddingOK, RemovingOK, DeletingOK,
                StrayBinding, ToldOK, ToldMembers, ToldOwnBound, Told
  <2>. QED
    BY <2>1, SerialStart, SerialProceed
       DEF Next, CreateDevice, CreateInvite, vars, stored, bindings, events, Serial
<1>. QED
  BY <1>1, <1>2, InitTypes, TypeStep, PTL DEF Spec

\* While requests do not overlap, no queue stays bound for somebody who left, or
\* to a deleted group, but where the broker refused (group_service.go:203, 260).
THEOREM NobodyStaysBound == Spec => []OnlyMembersBound
<1>1. TypeInv /\ Serial => OnlyMembersBound
  BY DEF Serial, SerialStates, OnlyMembersBound
<1>. QED
  BY <1>1, SerialRequests, PTL

\* While requests do not overlap, everybody who gets the living group's messages,
\* and everybody who left it, knows who left (group_service.go:256).
THEOREM ExitsAreHeard == Spec => []ExitIsHeard
<1>1. TypeInv /\ Serial => ExitIsHeard
  BY DEF Serial, SerialStates, ToldOK, ToldMembers, Told, ExitIsHeard
<1>. QED
  BY <1>1, SerialRequests, PTL

-----------------------------------------------------------------------------
(* The invite.                                                             *)

\* Redemptions that have passed the check and not been counted.
Using == {r \in Reqs : req[r].pc = "use"}
Limit(o) == IF o THEN MaxUses + Cardinality(Reqs) - 1 ELSE MaxUses
Counted == uses + Cardinality(Using) <= Limit(overlapped)

LEMMA UsingFinite ==
  /\ IsFiniteSet(Using) /\ Cardinality(Using) \in Nat
  /\ Cardinality(Reqs) \in Nat /\ Cardinality(Using) <= Cardinality(Reqs)
  BY FS_Subset, FS_CardinalityType DEF Using

\* Once there are requests, overlapping ones may count more.
LEMMA LimitGrows ==
  ASSUME NEW r \in Reqs, TypeInv, overlapped => overlapped'
  PROVE  Limit(overlapped) \in Int /\ Limit(overlapped') \in Int
         /\ Limit(overlapped) <= Limit(overlapped')
<1>1. Cardinality(Reqs) \in Nat /\ Cardinality(Reqs) # 0
  BY FS_CardinalityType, FS_EmptySet
<1>2. CASE overlapped'
  BY <1>1, <1>2 DEF Limit
<1>3. CASE ~overlapped /\ ~overlapped'
  BY <1>1, <1>3 DEF Limit
<1>. QED
  BY <1>2, <1>3

\* A step that counts no use and lets no redemption pass the check.
LEMMA CountedLess ==
  ASSUME TypeInv, Counted, NEW r \in Reqs, uses' = uses, Using' \subseteq Using,
         overlapped => overlapped'
  PROVE  Counted'
<1> DEFINE l == Limit(overlapped)
           m == Limit(overlapped')
           c == Cardinality(Using)
           k == Cardinality(Using')
<1>1. k \in Nat /\ c \in Nat /\ k <= c
  BY UsingFinite, FS_Subset, FS_CardinalityType
<1>2. l \in Int /\ m \in Int /\ l <= m
  BY LimitGrows
<1>3. uses \in Nat /\ uses + c <= l
  BY DEF TypeInv, CountersOK, Counted
<1> HIDE DEF l, m, c, k
<1>4. uses' + k <= m
  BY <1>1, <1>2, <1>3
<1>. QED
  BY <1>4 DEF Counted, k, m

LEMMA CountedStart ==
  ASSUME TypeInv, Counted, NEW r \in Reqs, Start(r)
  PROVE  Counted'
<1>0. RequestsOK /\ RowsOK
  BY DEF TypeInv
<1>1. overlapped => overlapped'
  BY DEF Start, CreateGroup, AddMember, RedeemInvite, RemoveMember, DeleteGroup, Provision,
         Begins
<1>2. uses' = uses /\ req[r].pc = "idle"
  BY DEF Start, CreateGroup, AddMember, RedeemInvite, RemoveMember, DeleteGroup, Provision,
         Begins, stored
<1>3. \A q : Moves(r, q) /\ q.pc # "use" => Using' \subseteq Using
  BY DEF Using, Moves, SettleOutcome, RequestType, None, Request
<1>4. ASSUME NEW u \in Users, RedeemInvite(r, u)
      PROVE  Counted'
  <2>1. Using' \subseteq Using \cup {r}
    BY <1>0, <1>4, StartMoves DEF Using, Moves
  <2>2. CASE ~overlapped'
    <3>1. Using = {}
      BY <1>4, <2>2 DEF RedeemInvite, Begins, Quiescent, Using
    <3>2. Cardinality(Using') <= 1 /\ Cardinality(Using') \in Nat
      <4>1. Using' \in SUBSET {r} /\ IsFiniteSet({r}) /\ Cardinality({r}) = 1
        BY <2>1, <3>1, FS_Singleton
      <4>. QED
        BY <4>1, FS_Subset, FS_CardinalityType
    <3>3. uses + 1 <= MaxUses /\ uses \in Nat
      BY <1>4 DEF RedeemInvite, TypeInv, CountersOK
    <3>4. uses' + Cardinality(Using') <= MaxUses
      BY <1>2, <3>2, <3>3
    <3>. QED
      BY <2>2, <3>4 DEF Counted, Limit
  <2>3. CASE overlapped'
    <3>1. Cardinality(Using') <= Cardinality(Reqs) /\ Cardinality(Using') \in Nat
          /\ Cardinality(Reqs) \in Nat
      BY FS_Subset, FS_CardinalityType DEF Using
    <3>2. uses + 1 <= MaxUses /\ uses \in Nat
      BY <1>4 DEF RedeemInvite, TypeInv, CountersOK
    <3>3. uses' + Cardinality(Using') <= MaxUses + Cardinality(Reqs) - 1
      BY <1>2, <3>1, <3>2
    <3>. QED
      BY <2>3, <3>3 DEF Counted, Limit
  <2>. QED
    BY <2>2, <2>3
<1>5. CASE Using' \subseteq Using
  BY <1>1, <1>2, <1>5, CountedLess
<1>6. UNCHANGED req => Using' \subseteq Using
  BY DEF Using
<1>7. ASSUME NEW us \in SUBSET (Users \ {Creator}), CreateGroup(r, us) PROVE Using' \subseteq Using
  BY <1>0, <1>3, <1>7, StartMoves DEF Request
<1>8. ASSUME NEW u \in Users, AddMember(r, u) \/ RemoveMember(r, u) PROVE Using' \subseteq Using
  BY <1>0, <1>3, <1>8, StartMoves DEF Request
<1>9. ASSUME DeleteGroup(r) PROVE Using' \subseteq Using
  BY <1>0, <1>3, <1>9, StartMoves DEF Request
<1>10. ASSUME NEW d \in Devices, Provision(r, d) PROVE Using' \subseteq Using
  BY <1>0, <1>3, <1>6, <1>10, StartMoves DEF Request
<1>. QED
  BY <1>4, <1>5, <1>7, <1>8, <1>9, <1>10 DEF Start

LEMMA CountedProceed ==
  ASSUME TypeInv, Counted, NEW r \in Reqs, Proceed(r)
  PROVE  Counted'
<1>0. RequestsOK /\ RowsOK /\ req[r] \in RequestType /\ Fits(req[r])
  BY DEF TypeInv, RequestsOK
<1>1. overlapped' = overlapped
  BY DEF Proceed, IncrementInviteUse, UseFails, InsertMember, InsertFails, ListDevices, ListFails,
         Bind, Unbind, Publish, PublishFails, NextUser, Forget, ForgetFails
<1>2. \A q : Moves(r, q) /\ q.pc # "use" => Using' \subseteq Using \ {r}
  BY DEF Using, Moves, SettleOutcome, RequestType, None, Request
<1>3. Using' \subseteq Using \ {r}
  <2>1. \A pc \in {"insert", "idle", "list", "next", "bind", "unbind"} : At(r, pc).pc # "use"
    BY <1>0 DEF At, RequestType
  <2>2. Ended(r).pc # "use" /\ AfterEvent(r).pc # "use" /\ Listed(r).pc # "use"
    BY <1>0 DEF Ended, AfterEvent, Listed, At, RequestType
  <2>3. \A d \in Devices : Bind(r, d) \/ Unbind(r, d) => Handled(r, d).pc # "use"
    BY <1>0 DEF Handled, Bind, Unbind, RequestType
  <2>4. \A u : ForUser(r, u).pc # "use"
    BY DEF ForUser, Request
  <2>. QED
    BY <1>0, <1>2, <2>1, <2>2, <2>3, <2>4, ProceedMoves DEF Proceed
<1>4. CASE IncrementInviteUse(r)
  <2>1. r \in Using /\ uses' = uses + 1
    BY <1>4 DEF IncrementInviteUse, Using
  <2>2. Cardinality(Using') + 1 <= Cardinality(Using) /\ Cardinality(Using') \in Nat
    BY <1>3, <2>1, UsingFinite, FS_RemoveElement, FS_Subset, FS_CardinalityType
  <2> DEFINE l == Limit(overlapped)
  <2>3. uses \in Nat /\ l \in Int /\ uses + Cardinality(Using) <= l
    BY LimitGrows, <1>1 DEF TypeInv, CountersOK, Counted
  <2> HIDE DEF l
  <2>4. uses' + Cardinality(Using') <= l
    BY <2>1, <2>2, <2>3, UsingFinite
  <2>. QED
    BY <1>1, <2>4 DEF Counted, l
<1>5. CASE uses' = uses
  BY <1>1, <1>3, <1>5, CountedLess
<1>. QED
  BY <1>4, <1>5 DEF Proceed, UseFails, InsertMember, InsertFails, ListDevices, ListFails,
     Bind, Unbind, Publish, PublishFails, NextUser, Forget, ForgetFails, stored

\* The invite is used as often as it may be, and overlapping redemptions exceed
\* that by one for each beyond the first (group_service.go:329).
THEOREM InviteLimited == Spec => []InviteWithinLimit
<1>1. Init => Counted
  <2> SUFFICES ASSUME Init PROVE Counted
    OBVIOUS
  <2>1. Using = {} /\ uses = 0 /\ overlapped = FALSE
    BY DEF Init, Using, None, Request
  <2>. QED
    BY <2>1, FS_EmptySet DEF Counted, Limit
<1>2. TypeInv /\ Counted /\ [Next]_vars => Counted'
  <2> SUFFICES ASSUME TypeInv, Counted, [Next]_vars PROVE Counted'
    OBVIOUS
  <2>1. ASSUME UNCHANGED <<uses, req, overlapped>> PROVE Counted'
    BY <2>1 DEF Counted, Using
  <2>. QED
    BY <2>1, CountedStart, CountedProceed
       DEF Next, CreateDevice, CreateInvite, vars, stored
<1>3. TypeInv /\ Counted => InviteWithinLimit
  <2> SUFFICES ASSUME TypeInv, Counted PROVE uses <= Limit(overlapped)
    BY DEF InviteWithinLimit, Limit
  <2> DEFINE l == Limit(overlapped)
  <2>1. l \in Int
    BY FS_CardinalityType DEF Limit
  <2>2. uses \in Nat /\ uses + Cardinality(Using) <= l /\ Cardinality(Using) \in Nat
    BY UsingFinite DEF TypeInv, CountersOK, Counted
  <2> HIDE DEF l
  <2>3. uses <= l
    BY <2>1, <2>2
  <2>. QED
    BY <2>3 DEF l
<1>. QED
  BY <1>1, <1>2, <1>3, InitTypes, TypeStep, PTL DEF Spec
=============================================================================
