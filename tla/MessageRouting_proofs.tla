----------------------- MODULE MessageRouting_proofs -----------------------
(***************************************************************************)
(* Proofs about MessageRouting and the connection of RabbitClient it uses. *)
(*                                                                         *)
(* What is promised of a frame is promised when its handling is done, so   *)
(* the invariant says of every step on the way what has been seen to by    *)
(* then: which kind of frame takes the step (KindOK), what can be in the   *)
(* queues (FrameOK), that the copy and the echo are where they belong once *)
(* their publish is over (CopyOK, EchoOK), which queues it can still reach *)
(* when bindings change under it (AudienceOK), who is still to be woken up *)
(* (AsleepOK, AwakeOK), and that a failed copy will be saved (SavedOK).    *)
(* RabbitInv says that only the last connection dialled can be open, and   *)
(* where it is kept.                                                       *)
(***************************************************************************)
EXTENDS MessageRouting, TLAPS

-----------------------------------------------------------------------------
\* The frames a device can be handling: one that is no sender posts receipts.
Kinds(d) == IF d \in Senders THEN {"none", "direct", "receipt", "group", "rest"}
            ELSE {"none", "rest"}

\* What the step of d tells of its frame.  r: req[d]; t: trouble[d].
KindOK(d, r, t) ==
    /\ r.kind \in Kinds(d)
    /\ r.kind = "group" => r.to \in Groups
    /\ r.kind \in {"direct", "receipt"} => r.to \in Users
    /\ r.kind = "none" <=> r.pc = "idle"
    /\ r.kind = "rest" => r.pc \in {"lookup", "copy", "done"}
    /\ r.pc \in {"member", "group"} => r.kind = "group"
    /\ r.pc = "lookup" => r.kind = "rest"
    /\ r.pc = "save" => r.kind = "direct"
    /\ r.pc \in {"wake", "list"} => r.kind \in {"direct", "group"}
    /\ r.pc = "list" => r.user \in Users
    /\ r.pc = "idle" => t = {}
    /\ "refused" \in t => r.pc = "done"

\* f: a frame in the queue of q; r, t, au: of the device that sent it.
FrameOK(q, f, r, t, au) ==
    /\ r.pc \notin {"idle", "member", "lookup"}
    /\ "refused" \notin t
    /\ f.src \in {NoDevice, f.msg}
    /\ q \in au.ever \cup DevicesOf(OwnerOf[f.msg])
    /\ f.src = NoDevice => r.kind # "group" /\ OwnerOf[q] = r.to

\* a: asleep[d]; ms: members.  A user with a session when the frame is read is
\* not in it, the sender among them; and until the list of the members is read
\* none is who has left.
AsleepOK(d, r, a, ms) ==
    /\ OwnerOf[d] \notin a
    /\ r.kind = "direct" => a \subseteq {r.to}
    /\ r.kind = "group" /\ r.pc \in {"member", "copy", "echo", "group"} => a \subseteq ms[r.to]
    /\ r.kind \notin {"direct", "group"} => a = {}

\* au: audience[d]; own, reached: the queues of the sender's user, and those the
\* frame reaches, at the moment.
AudienceOK(r, au, own, reached) ==
    /\ au.own \subseteq own
    /\ r.pc \notin {"idle", "done"} => au.always \subseteq reached /\ reached \subseteq au.ever

\* Once the push has begun, a sleeper is woken up or still to be looked at.
\* p: pushed[d].
AwakeOK(d, r, t, a, p) ==
    /\ r.kind \in {"direct", "group"} /\ r.pc \in {"wake", "list", "save", "done"}
    /\ t \cap {"refused", "noList"} = {}
    /\ r.kind = "group" => ~r.err
    => \A u \in a : \/ DevicesOf(u) \cap HasToken \subseteq p
                    \/ u \in r.todo /\ r.pc \in {"wake", "list"}

\* After the publish of the copy, and after that of the echo, those that had a
\* queue are shown the frame.  au: audience[d]; s: ShownTo(d).
CopyOK(d, r, t, au, s) ==
    /\ r.kind \in {"direct", "group", "receipt"}
    /\ r.pc \notin {"idle", "member", "copy"}
    /\ t \cap {"refused", "copy", "lostCopy"} = {}
    => au.always \ {d} \subseteq s

EchoOK(d, r, t, au, s) ==
    /\ r.kind \in {"direct", "group", "receipt"}
    /\ r.pc \notin {"idle", "member", "copy", "echo"}
    /\ t \cap {"refused", "echo", "lostEcho"} = {}
    /\ r.kind = "group" => ~r.err
    => au.own \ {d} \subseteq s

\* publishErr stands for the failed copy until the frame is saved.
SavedOK(d, r, t, saved) ==
    r.kind = "direct" =>
        /\ "copy" \in t => r.err
        /\ r.pc = "done" /\ r.err => d \in saved \/ "unsaved" \in t

RoutesInv ==
    /\ \A d \in Actors : KindOK(d, req[d], trouble[d])
    /\ \A q \in Devices : \A f \in queued[q] : FrameOK(q, f, req[f.msg], trouble[f.msg], audience[f.msg])
    /\ \A d \in Actors : AsleepOK(d, req[d], asleep[d], members)
    /\ \A d \in Actors : Busy(d) => \A u \in asleep[d] : ~Online(u)
    /\ \A d \in Senders : AwakeOK(d, req[d], trouble[d], asleep[d], pushed[d])
    /\ \A d \in Actors : AudienceOK(req[d], audience[d], Queues(OwnerOf[d]),
                                   Reached(req[d].kind, req[d].to))
    /\ \A d \in Actors : CopyOK(d, req[d], trouble[d], audience[d], ShownTo(d))
    /\ \A d \in Actors : EchoOK(d, req[d], trouble[d], audience[d], ShownTo(d))
    /\ \A d \in Actors : SavedOK(d, req[d], trouble[d], rows)

\* Only the connection dialled last can be open; outside a dial it is conn, and
\* one that Close has not seen was installed after Close.  A connection whose
\* number is at the bound stays open until Close, which closes one.
RabbitInv ==
    /\ open \subseteq {dialled}
    /\ loop.pc \in {"top", "waiting", "stopped"} => conn = dialled
    /\ loop.pc = "waiting" => loop.on = conn
    /\ loop.pc = "dialled" => loop.on = dialled /\ conn < dialled
    /\ loop.pc = "reconnecting" => dialled \notin open
    /\ closing # 0 => closed
    /\ closed => closing = conn \/ conn \in late \/ conn \notin open
    /\ dialled <= MaxConns + 1 \/ (closed /\ dialled <= MaxConns + 2)
    /\ loop.pc = "waiting" => dialled <= MaxConns + 1
    /\ loop.pc = "reconnecting" => dialled <= MaxConns \/ (closed /\ dialled <= MaxConns + 1)
    /\ loop.pc \in {"top", "waiting", "dialled"} =>
           dialled \in open \/ dialled < MaxConns \/ closed
-----------------------------------------------------------------------------
LEMMA ConnsBound == MaxConns \in Nat /\ MaxConns >= 1
BY RoutingAssumption DEF RoutingAssumption

LEMMA RabbitInit ==
    ASSUME Rabbit!Init
    PROVE  Rabbit!TypeOK /\ RabbitInv
<1> USE ConnsBound
<1>1. Rabbit!TypeOK
  <2>1. loop \in [pc : {"top", "waiting", "reconnecting", "dialled", "stopped"}, on : 0..dialled]
    BY SMT DEF Rabbit!Init, Rabbit!Loop
  <2>2. open \subseteq 1..dialled
    BY SMT DEF Rabbit!Init
  <2>3. dialled \in 1..(MaxConns + 2) /\ conn \in 1..dialled /\ closing \in 0..dialled
    BY SMT DEF Rabbit!Init
  <2>4. late \subseteq 1..dialled /\ closed \in BOOLEAN
    BY DEF Rabbit!Init
  <2> QED BY <2>1, <2>2, <2>3, <2>4, Zenon DEF Rabbit!TypeOK
<1>2. RabbitInv
  BY SMT DEF Rabbit!Init, Rabbit!Loop, RabbitInv
<1> QED BY <1>1, <1>2

LEMMA RabbitStep ==
    ASSUME Rabbit!TypeOK, RabbitInv, Rabbit!Next
    PROVE  Rabbit!TypeOK' /\ RabbitInv' /\ dialled <= dialled'
<1> USE ConnsBound DEF Rabbit!TypeOK, Rabbit!Loop, RabbitInv
<1>1. CASE Rabbit!Watch
  BY <1>1, SMT DEF Rabbit!Watch
<1>2. CASE Rabbit!HearDone
  BY <1>2, SMT DEF Rabbit!HearDone
<1>3. CASE Rabbit!HearClose
  BY <1>3, SMT DEF Rabbit!HearClose
<1>4. CASE Rabbit!Dial
  BY <1>4, SMT DEF Rabbit!Dial
<1>5. CASE Rabbit!ChannelFails
  <2>1. /\ loop.on = dialled /\ dialled <= MaxConns /\ conn < dialled
        /\ UNCHANGED <<conn, dialled, closed, closing, late>>
    BY <1>5 DEF Rabbit!ChannelFails
  <2>2. loop'.pc = "reconnecting" /\ loop'.on = 0
        /\ loop' \in [pc : {"top", "waiting", "reconnecting", "dialled", "stopped"}, on : 0..dialled]
    BY <1>5, SMT DEF Rabbit!ChannelFails
  <2>3. open' \subseteq open /\ dialled \notin open'
    BY <1>5, <2>1 DEF Rabbit!ChannelFails
  <2>4. Rabbit!TypeOK'
    BY <2>1, <2>2, <2>3, SMT
  <2>5. RabbitInv'
    BY <2>1, <2>2, <2>3, SMT
  <2> QED BY <2>1, <2>4, <2>5
<1>6. CASE Rabbit!Install
  <2>1. /\ loop.on = dialled /\ conn' = dialled /\ dialled' = dialled /\ conn < dialled
        /\ open' = open /\ closed' = closed /\ closing' = closing
        /\ closed => dialled \in late'
        /\ late' \subseteq late \cup {dialled}
        /\ loop'.pc = "top"
    BY <1>6 DEF Rabbit!Install
  <2>2. loop' \in [pc : {"top", "waiting", "reconnecting", "dialled", "stopped"}, on : 0..dialled]
    BY <1>6, SMT DEF Rabbit!Install
  <2>3. dialled \in open \/ dialled < MaxConns \/ closed
    BY <1>6 DEF Rabbit!Install
  <2>4. late' \subseteq 1..dialled'
    BY <2>1, SMT
  <2>5. Rabbit!TypeOK'
    BY <2>1, <2>2, <2>4, SMT
  <2>6. RabbitInv'
    BY <2>1, <2>3, SMT
  <2> QED BY <2>1, <2>5, <2>6
<1>7. CASE Rabbit!Close
  BY <1>7, SMT DEF Rabbit!Close
<1>8. CASE Rabbit!CloseConn
  BY <1>8, SMT DEF Rabbit!CloseConn
<1>9. CASE \E k \in open : Rabbit!Break(k)
  BY <1>9, SMT DEF Rabbit!Break
<1> QED BY <1>1, <1>2, <1>3, <1>4, <1>5, <1>6, <1>7, <1>8, <1>9 DEF Rabbit!Next, Rabbit!LoopStep

LEMMA NoStray ==
    ASSUME Rabbit!TypeOK, RabbitInv
    PROVE  NoStrayConnection
BY SMT DEF NoStrayConnection, Rabbit!NoStrayConnection, Rabbit!TypeOK, RabbitInv

-----------------------------------------------------------------------------
(* What the steps of a device do to its request, field by field.           *)

Pcs == {"idle", "member", "copy", "echo", "group", "wake", "list", "save", "lookup", "done"}

Requests(n) ==
    [kind : {"none", "direct", "receipt", "group", "rest"},
     to : Users \cup Groups \cup {NoUser},
     about : Senders \cup {NoDevice}, user : Users \cup {NoUser},
     pc : Pcs, k : 0..n, err : BOOLEAN, todo : SUBSET Users]

\* The step of d leaves the requests of the others alone.
Steps(d) ==
    /\ req' \in [Actors -> Requests(dialled)]
    /\ \A e \in Actors \ {d} : req'[e] = req[e]

SameFrame(r, s) == s.kind = r.kind /\ s.to = r.to /\ s.about = r.about
SameWake(r, s) == s.err = r.err /\ s.todo = r.todo /\ s.user = r.user

LEMMA Typed ==
    ASSUME TypeOK
    PROVE  req \in [Actors -> Requests(dialled)]
BY DEF TypeOK, Requests, Pcs

LEMMA GotoStep ==
    ASSUME NEW d \in Actors, NEW p \in Pcs, TypeOK, Goto(d, p)
    PROVE  /\ Steps(d) /\ req'[d].pc = p /\ req'[d].k = req[d].k
           /\ SameFrame(req[d], req'[d]) /\ SameWake(req[d], req'[d])
<1>1. req \in [Actors -> Requests(dialled)]
  BY Typed
<1>2. req' = [req EXCEPT ![d] = [req[d] EXCEPT !.pc = p]]
  BY DEF Goto
<1>3. [req[d] EXCEPT !.pc = p] \in Requests(dialled)
  BY <1>1, SMT DEF Requests
<1>4. Steps(d) /\ req'[d] = [req[d] EXCEPT !.pc = p]
  BY <1>1, <1>2, <1>3, SMT DEF Steps
<1> QED BY <1>1, <1>4, SMT DEF Requests, SameFrame, SameWake

LEMMA ReadStep ==
    ASSUME NEW d \in Actors, NEW kind \in {"direct", "receipt", "group"},
           NEW to \in Users \cup Groups, TypeOK, ReadFrame(d, kind, to)
    PROVE  /\ Steps(d)
           /\ req'[d].pc = IF kind = "group" THEN "member" ELSE "copy"
           /\ req'[d].k = 0 /\ req'[d].kind = kind /\ req'[d].to = to
           /\ req'[d].err = FALSE
<1>1. req \in [Actors -> Requests(dialled)] /\ dialled \in Nat
  BY Typed, SMT DEF TypeOK, Rabbit!TypeOK
<1> DEFINE s == Request(kind, to, NoDevice, IF kind = "group" THEN "member" ELSE "copy")
<1>2. s \in Requests(dialled)
  BY <1>1, SMT DEF Requests, Request, Pcs
<1>3. req' = [req EXCEPT ![d] = s]
  BY DEF ReadFrame
<1>4. Steps(d) /\ req'[d] = s
  BY <1>1, <1>2, <1>3, SMT DEF Steps
<1> QED BY <1>4, SMT DEF Request

LEMMA PostStep ==
    ASSUME NEW d \in Actors, NEW m \in Senders, TypeOK, PostReceipt(d, m)
    PROVE  /\ Steps(d)
           /\ req'[d].pc = "lookup" /\ req'[d].kind = "rest" /\ req'[d].about = m
           /\ req'[d].to = OwnerOf[m]
<1>1. req \in [Actors -> Requests(dialled)] /\ dialled \in Nat
  BY Typed, SMT DEF TypeOK, Rabbit!TypeOK
<1> DEFINE s == Request("rest", OwnerOf[m], m, "lookup")
<1>2. s \in Requests(dialled)
  BY <1>1, RoutingAssumption, SMT DEF RoutingAssumption, Requests, Request, Pcs
<1>3. req' = [req EXCEPT ![d] = s]
  BY DEF PostReceipt
<1>4. Steps(d) /\ req'[d] = s
  BY <1>1, <1>2, <1>3, SMT DEF Steps
<1> QED BY <1>4, SMT DEF Request

LEMMA WriteStep ==
    ASSUME NEW d \in Actors, TypeOK, Write(d)
    PROVE  /\ Steps(d) /\ req'[d].pc = req[d].pc
           /\ SameFrame(req[d], req'[d]) /\ SameWake(req[d], req'[d])
<1>1. req \in [Actors -> Requests(dialled)] /\ conn \in 0..dialled
  BY Typed, SMT DEF TypeOK, Rabbit!TypeOK
<1>2. req' = [req EXCEPT ![d] = [req[d] EXCEPT !.k = conn]]
  BY DEF Write
<1>3. [req[d] EXCEPT !.k = conn] \in Requests(dialled)
  BY <1>1, SMT DEF Requests
<1>4. Steps(d) /\ req'[d] = [req[d] EXCEPT !.k = conn]
  BY <1>1, <1>2, <1>3, SMT DEF Steps
<1> QED BY <1>1, <1>4, SMT DEF Requests, SameFrame, SameWake

LEMMA PublishedStep ==
    ASSUME NEW d \in Actors, NEW err \in BOOLEAN, TypeOK, RoutesInv, Published(d, err)
    PROVE  /\ Steps(d) /\ req'[d].pc = NextStep(req[d], err)
           /\ SameFrame(req[d], req'[d])
           /\ req'[d].err = (req[d].err \/ (err /\ req[d].pc = "copy"))
           /\ req'[d].todo = IF req[d].kind = "direct" THEN {req[d].to} ELSE {}
<1>1. req \in [Actors -> Requests(dialled)] /\ dialled \in Nat
  BY Typed, SMT DEF TypeOK, Rabbit!TypeOK
<1> DEFINE todo == IF req[d].kind = "direct" THEN {req[d].to} ELSE {}
           fail == req[d].err \/ (err /\ req[d].pc = "copy")
           pc == NextStep(req[d], err)
           s == [req[d] EXCEPT !.pc = pc, !.k = 0, !.err = fail, !.todo = todo]
<1>2. req' = [req EXCEPT ![d] = s]
  BY DEF Published
<1>3. todo \in SUBSET Users
  BY <1>1 DEF RoutesInv, KindOK
<1>4. pc \in Pcs
  BY DEF NextStep, Pcs
<1>5. fail \in BOOLEAN /\ 0 \in 0..dialled
  BY <1>1, SMT
<1> HIDE DEF todo, fail, pc
<1>6. s \in Requests(dialled)
  BY <1>1, <1>3, <1>4, <1>5, Zenon DEF Requests
<1>7. Steps(d) /\ req'[d] = s
  BY <1>1, <1>2, <1>6, SMT DEF Steps
<1>8. /\ req'[d].pc = pc /\ req'[d].err = fail /\ req'[d].todo = todo
      /\ SameFrame(req[d], req'[d])
  BY <1>1, <1>7, SMT DEF Requests, SameFrame
<1> QED BY <1>7, <1>8 DEF todo, fail, pc

LEMMA ListedStep ==
    ASSUME NEW d \in Actors, TypeOK, Listed(d)
    PROVE  /\ Steps(d) /\ req'[d].pc = "wake" /\ req'[d].err = req[d].err
           /\ SameFrame(req[d], req'[d])
           /\ req'[d].todo = req[d].todo \ {req[d].user}
<1>1. req \in [Actors -> Requests(dialled)]
  BY Typed
<1> DEFINE todo == req[d].todo \ {req[d].user}
           s == [req[d] EXCEPT !.pc = "wake", !.user = NoUser, !.todo = todo]
<1>2. req' = [req EXCEPT ![d] = s]
  BY DEF Listed
<1>3. todo \in SUBSET Users
  BY <1>1, SMT DEF Requests
<1> HIDE DEF todo
<1>4. s \in Requests(dialled)
  BY <1>1, <1>3, Zenon DEF Requests, Pcs
<1>5. Steps(d) /\ req'[d] = s
  BY <1>1, <1>2, <1>4, SMT DEF Steps
<1>6. /\ req'[d].pc = "wake" /\ req'[d].err = req[d].err /\ req'[d].todo = todo
      /\ SameFrame(req[d], req'[d])
  BY <1>1, <1>5, SMT DEF Requests, SameFrame
<1> QED BY <1>5, <1>6 DEF todo

LEMMA GetGroupStep ==
    ASSUME NEW d \in Actors, TypeOK, RoutesInv, GetGroup(d)
    PROVE  /\ Steps(d) /\ req'[d].pc = "wake" /\ req'[d].err = req[d].err
           /\ SameFrame(req[d], req'[d])
           /\ req'[d].todo = members[req[d].to] \ {OwnerOf[d]}
<1>1. req \in [Actors -> Requests(dialled)]
  BY Typed
<1> DEFINE todo == members[req[d].to] \ {OwnerOf[d]}
           s == [req[d] EXCEPT !.pc = "wake", !.todo = todo]
<1>2. req' = [req EXCEPT ![d] = s]
  BY DEF GetGroup
<1>3. req[d].to \in Groups
  BY DEF GetGroup, RoutesInv, KindOK
<1>4. todo \in SUBSET Users
  BY <1>3 DEF TypeOK
<1> HIDE DEF todo
<1>5. s \in Requests(dialled)
  BY <1>1, <1>4, Zenon DEF Requests, Pcs
<1>6. Steps(d) /\ req'[d] = s
  BY <1>1, <1>2, <1>5, SMT DEF Steps
<1>7. /\ req'[d].pc = "wake" /\ req'[d].err = req[d].err /\ req'[d].todo = todo
      /\ SameFrame(req[d], req'[d])
  BY <1>1, <1>6, SMT DEF Requests, SameFrame
<1> QED BY <1>6, <1>7 DEF todo

LEMMA CheckOnlineStep ==
    ASSUME NEW d \in Actors, NEW u \in Users, TypeOK, CheckOnline(d, u)
    PROVE  /\ Steps(d) /\ req'[d].err = req[d].err /\ SameFrame(req[d], req'[d])
           /\ \/ HasSession(u) /\ req'[d].pc = "wake" /\ req'[d].todo = req[d].todo \ {u}
              \/ req'[d].pc = "list" /\ req'[d].user = u /\ req'[d].todo = req[d].todo
<1>1. req \in [Actors -> Requests(dialled)]
  BY Typed
<1>2. CASE HasSession(u)
  <2> DEFINE todo == req[d].todo \ {u}
             s == [req[d] EXCEPT !.todo = todo]
  <2>1. req' = [req EXCEPT ![d] = s]
    BY <1>2 DEF CheckOnline
  <2>2. todo \in SUBSET Users
    BY <1>1, SMT DEF Requests
  <2> HIDE DEF todo
  <2>3. s \in Requests(dialled)
    BY <1>1, <2>2, SMT DEF Requests
  <2>4. Steps(d) /\ req'[d] = s
    BY <1>1, <2>1, <2>3, SMT DEF Steps
  <2>5. /\ req'[d].pc = req[d].pc /\ req'[d].err = req[d].err /\ req'[d].todo = todo
        /\ SameFrame(req[d], req'[d])
    BY <1>1, <2>4, SMT DEF Requests, SameFrame
  <2>6. req[d].pc = "wake"
    BY DEF CheckOnline
  <2> QED BY <1>2, <2>4, <2>5, <2>6 DEF todo
<1>3. CASE ~HasSession(u)
  <2> DEFINE s == [req[d] EXCEPT !.pc = "list", !.user = u]
  <2>1. req' = [req EXCEPT ![d] = s]
    BY <1>3 DEF CheckOnline
  <2>2. s \in Requests(dialled)
    BY <1>1, Zenon DEF Requests, Pcs
  <2>3. Steps(d) /\ req'[d] = s
    BY <1>1, <2>1, <2>2, SMT DEF Steps
  <2> QED BY <1>1, <2>3, SMT DEF Requests, SameFrame
<1> QED BY <1>2, <1>3

LEMMA LookUpStep ==
    ASSUME NEW d \in Actors, TypeOK, LookUp(d)
    PROVE  /\ Steps(d) /\ req'[d].pc \in {"copy", "done"}
           /\ SameFrame(req[d], req'[d]) /\ SameWake(req[d], req'[d])
BY GotoStep DEF LookUp, Pcs

-----------------------------------------------------------------------------
(* What the step of a device leaves alone, and what can only grow.         *)

Tells(d) ==
    /\ trouble' \in [Actors -> SUBSET Troubles]
    /\ trouble[d] \subseteq trouble'[d]
    /\ \A e \in Actors \ {d} : trouble'[e] = trouble[e]

Alone(d) ==
    /\ Steps(d) /\ Tells(d)
    /\ \A e \in Actors \ {d} : audience'[e] = audience[e] /\ asleep'[e] = asleep[e]
    /\ \A e \in Senders \ {d} : pushed'[e] = pushed[e]
    /\ UNCHANGED <<rabbit, sessions>>

Grows == rows \subseteq rows' /\ \A q \in Devices : queued[q] \subseteq queued'[q]

LEMMA TroubledStep ==
    ASSUME NEW d \in Actors, NEW what \in Troubles, TypeOK, Troubled(d, what)
    PROVE  Tells(d) /\ trouble'[d] = trouble[d] \cup {what}
<1>1. trouble \in [Actors -> SUBSET Troubles]
  BY DEF TypeOK
<1>2. trouble' = [trouble EXCEPT ![d] = trouble[d] \cup {what}]
  BY DEF Troubled
<1>3. trouble[d] \cup {what} \in SUBSET Troubles
  BY <1>1
<1> QED BY <1>1, <1>2, <1>3, SMT DEF Tells

LEMMA Untroubled ==
    ASSUME NEW d \in Actors, TypeOK, UNCHANGED trouble
    PROVE  Tells(d)
BY DEF Tells, TypeOK

\* The steps that change nothing but the request and its trouble.
LEMMA OnlyRequest ==
    ASSUME NEW d \in Actors, TypeOK, Steps(d), Tells(d),
           UNCHANGED <<rabbit, sessions, queued, rows, pushed, audience, asleep>>
    PROVE  TypeOK' /\ Alone(d) /\ Grows
<1>1. Alone(d) /\ Grows
  BY DEF Alone, Grows, rabbit, sessions
<1>2. Rabbit!TypeOK'
  BY DEF rabbit, TypeOK, Rabbit!TypeOK
<1>3. req' \in [Actors -> Requests(dialled')]
  BY DEF Steps, rabbit
<1> QED BY <1>1, <1>2, <1>3 DEF TypeOK, sessions, Requests, Pcs, Tells

AudienceType == [own : SUBSET Devices, always : SUBSET Devices, ever : SUBSET Devices]

LEMMA AudienceTyped ==
    ASSUME NEW own \in SUBSET Devices, NEW reached \in SUBSET Devices
    PROVE  /\ Audience(own, reached) \in AudienceType
           /\ Audience(own, reached).own = own
           /\ Audience(own, reached).always = reached /\ Audience(own, reached).ever = reached
BY DEF Audience, AudienceType

LEMMA QueuesTyped ==
    ASSUME TypeOK
    PROVE  /\ \A u : Queues(u) \in SUBSET Devices
           /\ \A kind, to : (kind = "group" => to \in Groups)
                 => Reached(kind, to) \in SUBSET Devices
BY DEF TypeOK, Queues, Reached

LEMMA FrameTyped ==
    ASSUME NEW d \in Actors
    PROVE  Frame(d) \in [msg : Actors, src : Devices \cup {NoDevice}]
BY RoutingAssumption DEF RoutingAssumption, Frame, Actors

LEMMA HandlesTyped ==
    ASSUME NEW d \in Actors, TypeOK, RoutesInv, Handles(d)
    PROVE  TypeOK' /\ Alone(d) /\ Grows
<1>1. ASSUME NEW kind \in {"direct", "receipt", "group"}, NEW to \in Users \cup Groups,
             ReadFrame(d, kind, to)
      PROVE  TypeOK' /\ Alone(d) /\ Grows
  <2>1. Steps(d) /\ Tells(d)
    BY <1>1, ReadStep, Untroubled DEF ReadFrame
  <2>2. Audience(Queues(OwnerOf[d]), Reached(kind, to)) \in AudienceType
    BY <1>1, QueuesTyped, AudienceTyped DEF ReadFrame
  <2>3. /\ audience' \in [Actors -> AudienceType]
        /\ \A e \in Actors \ {d} : audience'[e] = audience[e]
    BY <1>1, <2>2 DEF ReadFrame, TypeOK, AudienceType
  <2>4. Addressees(kind, to) \subseteq Users
    BY <1>1 DEF TypeOK, ReadFrame, Addressees
  <2> DEFINE a == IF kind = "receipt" THEN {} ELSE {u \in Addressees(kind, to) : ~Online(u)}
  <2>5. asleep' = [asleep EXCEPT ![d] = a]
    BY <1>1 DEF ReadFrame
  <2>6. a \in SUBSET Users
    BY <2>4
  <2> HIDE DEF a
  <2>7. asleep' \in [Actors -> SUBSET Users] /\ \A e \in Actors \ {d} : asleep'[e] = asleep[e]
    BY <2>5, <2>6 DEF TypeOK
  <2>8. UNCHANGED <<rabbit, sessions, queued, rows, pushed>>
    BY <1>1 DEF ReadFrame
  <2>9. Rabbit!TypeOK' /\ req' \in [Actors -> Requests(dialled')]
    BY <2>1, <2>8 DEF Steps, rabbit, TypeOK, Rabbit!TypeOK
  <2>10. TypeOK'
    BY <2>1, <2>3, <2>7, <2>8, <2>9 DEF TypeOK, sessions, Requests, Pcs, Tells, AudienceType
  <2> QED BY <2>1, <2>3, <2>7, <2>8, <2>10 DEF Alone, Grows
<1>2. CASE CheckMember(d)
  <2>1. Steps(d)
    BY <1>2, GotoStep DEF CheckMember, Pcs
  <2>2. Tells(d)
    BY <1>2, TroubledStep, Untroubled DEF CheckMember, Troubles
  <2> QED BY <1>2, <2>1, <2>2, OnlyRequest DEF CheckMember
<1>3. CASE Write(d)
  BY <1>3, WriteStep, Untroubled, OnlyRequest DEF Write, past
<1>4. CASE PublishFails(d)
  <2>1. Steps(d)
    BY <1>4, PublishedStep DEF PublishFails
  <2>2. Tells(d)
    BY <1>4, TroubledStep DEF PublishFails, Publishing, Troubles
  <2> QED BY <1>4, <2>1, <2>2, OnlyRequest DEF PublishFails
<1>5. CASE Routed(d)
  <2>1. Steps(d) /\ Tells(d)
    BY <1>5, PublishedStep, Untroubled DEF Routed, past
  <2>2. \A q \in Devices : queued[q] \subseteq queued'[q]
    BY <1>5 DEF Routed, TypeOK
  <2>3. \A q \in Devices : queued'[q] \subseteq queued[q] \cup {Frame(d)}
    BY <1>5 DEF Routed, TypeOK
  <2>4. queued' \in [Devices -> SUBSET [msg : Actors, src : Devices \cup {NoDevice}]]
    <3>1. queued' = [q \in Devices |-> queued'[q]]
      BY <1>5 DEF Routed
    <3>2. \A q \in Devices : queued'[q] \in SUBSET [msg : Actors, src : Devices \cup {NoDevice}]
      BY <2>3, FrameTyped DEF TypeOK
    <3> QED BY <3>1, <3>2
  <2>5. UNCHANGED <<rabbit, sessions, rows, pushed, audience, asleep>>
    BY <1>5 DEF Routed, past
  <2>6. Rabbit!TypeOK' /\ req' \in [Actors -> Requests(dialled')]
    BY <2>1, <2>5 DEF Steps, rabbit, TypeOK, Rabbit!TypeOK
  <2>7. TypeOK'
    BY <2>1, <2>4, <2>5, <2>6 DEF TypeOK, sessions, Requests, Pcs, Tells
  <2> QED BY <2>1, <2>2, <2>5, <2>7 DEF Alone, Grows
<1>6. CASE Lost(d)
  <2>1. Steps(d)
    BY <1>6, PublishedStep DEF Lost
  <2>2. Tells(d)
    BY <1>6, TroubledStep DEF Lost, Troubles
  <2> QED BY <1>6, <2>1, <2>2, OnlyRequest DEF Lost
<1>7. CASE GetGroup(d)
  BY <1>7, GetGroupStep, Untroubled, OnlyRequest DEF GetGroup, past
<1>8. CASE GetGroupFails(d)
  <2>1. Steps(d)
    BY <1>8, GotoStep DEF GetGroupFails, Pcs
  <2>2. Tells(d)
    BY <1>8, TroubledStep DEF GetGroupFails, Troubles
  <2> QED BY <1>8, <2>1, <2>2, OnlyRequest DEF GetGroupFails
<1>9. ASSUME NEW u \in Users, CheckOnline(d, u)
      PROVE  TypeOK' /\ Alone(d) /\ Grows
  BY <1>9, CheckOnlineStep, Untroubled, OnlyRequest DEF CheckOnline, past
<1>10. CASE WakeUp(d)
  <2>1. Steps(d) /\ Tells(d)
    BY <1>10, ListedStep, Untroubled DEF WakeUp, past
  <2>2. /\ pushed' \in [Senders -> SUBSET HasToken]
        /\ \A e \in Senders \ {d} : pushed'[e] = pushed[e]
    BY <1>10 DEF WakeUp, TypeOK
  <2>3. UNCHANGED <<rabbit, sessions, queued, rows, audience, asleep>>
    BY <1>10 DEF WakeUp, past
  <2>4. Rabbit!TypeOK' /\ req' \in [Actors -> Requests(dialled')]
    BY <2>1, <2>3 DEF Steps, rabbit, TypeOK, Rabbit!TypeOK
  <2>5. TypeOK'
    BY <2>1, <2>2, <2>3, <2>4 DEF TypeOK, sessions, Requests, Pcs, Tells
  <2> QED BY <2>1, <2>2, <2>3, <2>5 DEF Alone, Grows
<1>11. CASE ListFails(d)
  <2>1. Steps(d)
    BY <1>11, ListedStep DEF ListFails
  <2>2. Tells(d)
    BY <1>11, TroubledStep DEF ListFails, Troubles
  <2> QED BY <1>11, <2>1, <2>2, OnlyRequest DEF ListFails
<1>12. CASE WakeDone(d)
  <2>1. Steps(d)
    BY <1>12, GotoStep DEF WakeDone, Pcs
  <2> QED BY <1>12, <2>1, Untroubled, OnlyRequest DEF WakeDone, past
<1>13. CASE SaveMessage(d)
  <2>1. Steps(d)
    BY <1>13, GotoStep DEF SaveMessage, Pcs
  <2>2. Tells(d)
    BY <1>13, Untroubled DEF SaveMessage, past
  <2>3. d \in Senders
    BY <1>13 DEF SaveMessage, RoutesInv, KindOK, Kinds
  <2>4. rows' = rows \cup {d} /\ UNCHANGED <<rabbit, sessions, queued, pushed, audience, asleep>>
    BY <1>13 DEF SaveMessage, past
  <2>5. Rabbit!TypeOK' /\ req' \in [Actors -> Requests(dialled')]
    BY <2>1, <2>4 DEF Steps, rabbit, TypeOK, Rabbit!TypeOK
  <2>6. TypeOK'
    BY <2>2, <2>3, <2>4, <2>5 DEF TypeOK, sessions, Requests, Pcs, Tells
  <2> QED BY <2>1, <2>2, <2>4, <2>6 DEF Alone, Grows
<1>14. CASE SaveFails(d)
  <2>1. Steps(d)
    BY <1>14, GotoStep DEF SaveFails, Pcs
  <2>2. Tells(d)
    BY <1>14, TroubledStep DEF SaveFails, Troubles
  <2> QED BY <1>14, <2>1, <2>2, OnlyRequest DEF SaveFails
<1>15. ASSUME NEW m \in Senders, PostReceipt(d, m)
       PROVE  TypeOK' /\ Alone(d) /\ Grows
  <2>1. Steps(d) /\ Tells(d)
    BY <1>15, PostStep, Untroubled DEF PostReceipt
  <2>2. Audience({}, Reached("rest", OwnerOf[m])) \in AudienceType
    BY QueuesTyped, AudienceTyped
  <2>3. /\ audience' \in [Actors -> AudienceType]
        /\ \A e \in Actors \ {d} : audience'[e] = audience[e]
    BY <1>15, <2>2 DEF PostReceipt, TypeOK, AudienceType
  <2>4. UNCHANGED <<rabbit, sessions, queued, rows, pushed, asleep>>
    BY <1>15 DEF PostReceipt
  <2>5. Rabbit!TypeOK' /\ req' \in [Actors -> Requests(dialled')]
    BY <2>1, <2>4 DEF Steps, rabbit, TypeOK, Rabbit!TypeOK
  <2>6. TypeOK'
    BY <2>1, <2>3, <2>4, <2>5 DEF TypeOK, sessions, Requests, Pcs, Tells, AudienceType
  <2> QED BY <2>1, <2>3, <2>4, <2>6 DEF Alone, Grows
<1>16. CASE LookUp(d)
  BY <1>16, LookUpStep, Untroubled, OnlyRequest DEF LookUp, past
<1>17. CASE LookUpFails(d)
  <2>1. Steps(d)
    BY <1>17, GotoStep DEF LookUpFails, Pcs
  <2>2. Tells(d)
    BY <1>17, TroubledStep DEF LookUpFails, Troubles
  <2> QED BY <1>17, <2>1, <2>2, OnlyRequest DEF LookUpFails
<1> QED
  BY <1>1, <1>2, <1>3, <1>4, <1>5, <1>6, <1>7, <1>8, <1>9, <1>10, <1>11, <1>12, <1>13,
     <1>14, <1>15, <1>16, <1>17 DEF Handles

-----------------------------------------------------------------------------
(* The invariant, for the device that takes the step.                      *)

\* All but the steps that begin a request, or learn whom it is for.
Calm(d) ==
    /\ SameFrame(req[d], req'[d])
    /\ audience'[d] = audience[d] /\ asleep'[d] = asleep[d]

LEMMA KindStep ==
    ASSUME NEW d \in Actors, TypeOK, RoutesInv, Handles(d)
    PROVE  KindOK(d, req'[d], trouble'[d])
<1>0. KindOK(d, req[d], trouble[d])
  BY DEF RoutesInv
<1>1. ASSUME NEW kind \in {"direct", "receipt", "group"}, NEW to \in Users \cup Groups,
             ReadFrame(d, kind, to)
      PROVE  KindOK(d, req'[d], trouble'[d])
  <2>1. /\ d \in Senders /\ trouble'[d] = {}
        /\ kind = "group" => to \in Groups
        /\ kind # "group" => to \in Users
    BY <1>0, <1>1 DEF ReadFrame, KindOK
  <2> QED BY <2>1, <1>1, ReadStep DEF KindOK, Kinds
<1>2. CASE CheckMember(d)
  BY <1>0, <1>2, TroubledStep, GotoStep DEF CheckMember, Pcs, Troubles, KindOK, SameFrame
<1>3. CASE Write(d)
  BY <1>0, <1>3, WriteStep DEF Write, past, KindOK, SameFrame
<1>4. CASE PublishFails(d)
  BY <1>0, <1>4, TroubledStep, PublishedStep DEF PublishFails, Publishing, Troubles, NextStep, KindOK, SameFrame
<1>5. CASE Routed(d)
  BY <1>0, <1>5, PublishedStep DEF Routed, Publishing, past, NextStep, KindOK, SameFrame
<1>6. CASE Lost(d)
  BY <1>0, <1>6, TroubledStep, PublishedStep DEF Lost, Publishing, Troubles, NextStep, KindOK, SameFrame
<1>7. CASE GetGroup(d)
  BY <1>0, <1>7, GetGroupStep DEF GetGroup, past, KindOK, SameFrame
<1>8. CASE GetGroupFails(d)
  BY <1>0, <1>8, TroubledStep, GotoStep DEF GetGroupFails, Pcs, Troubles, KindOK, SameFrame
<1>9. ASSUME NEW u \in Users, CheckOnline(d, u)
      PROVE  KindOK(d, req'[d], trouble'[d])
  BY <1>0, <1>9, CheckOnlineStep DEF CheckOnline, past, KindOK, SameFrame
<1>10. CASE WakeUp(d)
  BY <1>0, <1>10, ListedStep DEF WakeUp, past, KindOK, SameFrame
<1>11. CASE ListFails(d)
  BY <1>0, <1>11, TroubledStep, ListedStep DEF ListFails, Troubles, KindOK, SameFrame
<1>12. CASE WakeDone(d)
  BY <1>0, <1>12, GotoStep DEF WakeDone, Pcs, past, KindOK, SameFrame
<1>13. CASE SaveMessage(d)
  BY <1>0, <1>13, GotoStep DEF SaveMessage, Pcs, past, KindOK, SameFrame
<1>14. CASE SaveFails(d)
  BY <1>0, <1>14, TroubledStep, GotoStep DEF SaveFails, Pcs, Troubles, KindOK, SameFrame
<1>15. ASSUME NEW m \in Senders, PostReceipt(d, m)
       PROVE  KindOK(d, req'[d], trouble'[d])
  <2>1. trouble'[d] = {}
    BY <1>0, <1>15 DEF PostReceipt, KindOK
  <2> QED BY <2>1, <1>15, PostStep DEF KindOK, Kinds
<1>16. CASE LookUp(d)
  BY <1>0, <1>16, LookUpStep DEF LookUp, past, KindOK, SameFrame
<1>17. CASE LookUpFails(d)
  BY <1>0, <1>17, TroubledStep, GotoStep DEF LookUpFails, Pcs, Troubles, KindOK, SameFrame
<1> QED
  BY <1>1, <1>2, <1>3, <1>4, <1>5, <1>6, <1>7, <1>8, <1>9, <1>10, <1>11, <1>12, <1>13,
     <1>14, <1>15, <1>16, <1>17 DEF Handles

\* A step that begins no request is a step of a request under way.
LEMMA CalmStep ==
    ASSUME NEW d \in Actors, TypeOK, RoutesInv, Handles(d)
    PROVE  \/ \E kind \in {"direct", "receipt", "group"}, to \in Users \cup Groups :
                 ReadFrame(d, kind, to)
           \/ \E m \in Senders : PostReceipt(d, m)
           \/ LookUp(d)
           \/ Calm(d) /\ Busy(d)
<1> USE DEF Calm, Busy
<1>1. ASSUME CheckMember(d)
      PROVE  Calm(d) /\ Busy(d)
  BY <1>1, GotoStep DEF CheckMember, Pcs
<1>2. ASSUME Write(d)
      PROVE  Calm(d) /\ Busy(d)
  BY <1>2, WriteStep DEF Write, past, Publishing
<1>3. ASSUME PublishFails(d)
      PROVE  Calm(d) /\ Busy(d)
  BY <1>3, PublishedStep DEF PublishFails, Publishing
<1>4. ASSUME Routed(d)
      PROVE  Calm(d) /\ Busy(d)
  BY <1>4, PublishedStep DEF Routed, past, Publishing
<1>5. ASSUME Lost(d)
      PROVE  Calm(d) /\ Busy(d)
  BY <1>5, PublishedStep DEF Lost, Publishing
<1>6. ASSUME GetGroup(d)
      PROVE  Calm(d) /\ Busy(d)
  BY <1>6, GetGroupStep DEF GetGroup, past
<1>7. ASSUME GetGroupFails(d)
      PROVE  Calm(d) /\ Busy(d)
  BY <1>7, GotoStep DEF GetGroupFails, Pcs
<1>8. ASSUME NEW u \in Users, CheckOnline(d, u)
      PROVE  Calm(d) /\ Busy(d)
  BY <1>8, CheckOnlineStep DEF CheckOnline, past
<1>9. ASSUME WakeUp(d)
      PROVE  Calm(d) /\ Busy(d)
  BY <1>9, ListedStep DEF WakeUp, past
<1>10. ASSUME ListFails(d)
       PROVE  Calm(d) /\ Busy(d)
  BY <1>10, ListedStep DEF ListFails
<1>11. ASSUME WakeDone(d)
       PROVE  Calm(d) /\ Busy(d)
  BY <1>11, GotoStep DEF WakeDone, Pcs, past
<1>12. ASSUME SaveMessage(d)
       PROVE  Calm(d) /\ Busy(d)
  BY <1>12, GotoStep DEF SaveMessage, Pcs, past
<1>13. ASSUME SaveFails(d)
       PROVE  Calm(d) /\ Busy(d)
  BY <1>13, GotoStep DEF SaveFails, Pcs
<1>14. ASSUME LookUpFails(d)
       PROVE  Calm(d) /\ Busy(d)
  BY <1>14, GotoStep DEF LookUpFails, Pcs
<1> QED
  BY <1>1, <1>2, <1>3, <1>4, <1>5, <1>6, <1>7, <1>8, <1>9, <1>10, <1>11, <1>12, <1>13,
     <1>14 DEF Handles

\* Only the steps before the push lead to one of them.
LEMMA PushStep ==
    ASSUME NEW d \in Actors, TypeOK, RoutesInv, Handles(d),
           req'[d].pc \in {"member", "copy", "echo", "group"}
    PROVE  req[d].pc \in {"idle", "member", "lookup", "copy", "echo", "group"}
<1>1. ASSUME NEW kind \in {"direct", "receipt", "group"}, NEW to \in Users \cup Groups,
             ReadFrame(d, kind, to)
      PROVE  req[d].pc = "idle"
  BY <1>1 DEF ReadFrame
<1>2. ASSUME NEW u \in Users, CheckOnline(d, u)
      PROVE  FALSE
  BY <1>2, CheckOnlineStep
<1>3. CASE WakeUp(d) \/ ListFails(d)
  BY <1>3, ListedStep DEF WakeUp, ListFails
<1>4. CASE WakeDone(d)
  BY <1>4, GotoStep DEF WakeDone, Pcs
<1>5. CASE SaveMessage(d) \/ SaveFails(d)
  BY <1>5, GotoStep DEF SaveMessage, SaveFails, Pcs
<1> QED
  BY <1>1, <1>2, <1>3, <1>4, <1>5 DEF Handles, CheckMember, Write, PublishFails, Routed, Lost,
     Publishing, GetGroup, GetGroupFails, PostReceipt, LookUp, LookUpFails

LEMMA AsleepStep ==
    ASSUME NEW d \in Actors, TypeOK, RoutesInv, Handles(d)
    PROVE  AsleepOK(d, req'[d], asleep'[d], members)
<1>0. AsleepOK(d, req[d], asleep[d], members) /\ KindOK(d, req[d], trouble[d])
  BY DEF RoutesInv
<1>1. ASSUME NEW kind \in {"direct", "receipt", "group"}, NEW to \in Users \cup Groups,
             ReadFrame(d, kind, to)
      PROVE  AsleepOK(d, req'[d], asleep'[d], members)
  <2>1. req'[d].kind = kind /\ req'[d].to = to
    BY <1>1, ReadStep
  <2>2. asleep'[d] = IF kind = "receipt" THEN {} ELSE {u \in Addressees(kind, to) : ~Online(u)}
    BY <1>1 DEF ReadFrame, TypeOK
  <2>3. Online(OwnerOf[d])
    BY <1>1 DEF ReadFrame, Online
  <2> QED BY <2>1, <2>2, <2>3 DEF AsleepOK, Addressees
<1>2. ASSUME NEW m \in Senders, PostReceipt(d, m)
      PROVE  AsleepOK(d, req'[d], asleep'[d], members)
  BY <1>0, <1>2, PostStep DEF PostReceipt, AsleepOK, KindOK
<1>3. CASE LookUp(d)
  BY <1>0, <1>3, LookUpStep DEF LookUp, AsleepOK, KindOK, past, SameFrame
<1>4. CASE Calm(d)
  <2>1. req[d].kind = "group" /\ req'[d].pc \in {"member", "copy", "echo", "group"}
          => req[d].pc \in {"member", "copy", "echo", "group"}
    BY <1>0, PushStep DEF KindOK
  <2> QED BY <1>0, <1>4, <2>1 DEF Calm, SameFrame, AsleepOK
<1> QED BY <1>1, <1>2, <1>3, <1>4, CalmStep

LEMMA BusyStep ==
    ASSUME NEW d \in Actors, TypeOK, RoutesInv, Handles(d)
    PROVE  \A u \in asleep'[d] : ~Online(u)
<1>0. AsleepOK(d, req[d], asleep[d], members) /\ KindOK(d, req[d], trouble[d])
  BY DEF RoutesInv
<1>1. ASSUME NEW kind \in {"direct", "receipt", "group"}, NEW to \in Users \cup Groups,
             ReadFrame(d, kind, to)
      PROVE  \A u \in asleep'[d] : ~Online(u)
  <2>1. asleep'[d] = IF kind = "receipt" THEN {} ELSE {u \in Addressees(kind, to) : ~Online(u)}
    BY <1>1 DEF ReadFrame, TypeOK
  <2> QED BY <2>1
<1>2. ASSUME NEW m \in Senders, PostReceipt(d, m)
      PROVE  \A u \in asleep'[d] : ~Online(u)
  BY <1>0, <1>2 DEF PostReceipt, AsleepOK, KindOK
<1>3. CASE LookUp(d)
  BY <1>0, <1>3 DEF LookUp, AsleepOK, KindOK, past
<1>4. CASE Calm(d) /\ Busy(d)
  BY <1>4 DEF Calm, RoutesInv
<1> QED BY <1>1, <1>2, <1>3, <1>4, CalmStep

\* Where the frame of d leads, before and after the step.
AudienceHolds(d, r, au) ==
    AudienceOK(r, au, Queues(OwnerOf[d]), Reached(r.kind, r.to))

LEMMA AudienceStep ==
    ASSUME NEW d \in Actors, TypeOK, RoutesInv, Handles(d)
    PROVE  AudienceHolds(d, req'[d], audience'[d])
<1>0. AudienceHolds(d, req[d], audience[d]) /\ KindOK(d, req[d], trouble[d])
  BY DEF RoutesInv, AudienceHolds
<1>1. ASSUME NEW kind \in {"direct", "receipt", "group"}, NEW to \in Users \cup Groups,
             ReadFrame(d, kind, to)
      PROVE  AudienceHolds(d, req'[d], audience'[d])
  <2>1. audience'[d] = Audience(Queues(OwnerOf[d]), Reached(kind, to))
    BY <1>1 DEF ReadFrame, TypeOK
  <2>2. req'[d].kind = kind /\ req'[d].to = to
    BY <1>1, ReadStep
  <2> QED BY <2>1, <2>2 DEF AudienceHolds, AudienceOK, Audience
<1>2. ASSUME NEW m \in Senders, PostReceipt(d, m)
      PROVE  AudienceHolds(d, req'[d], audience'[d])
  <2>1. audience'[d] = Audience({}, Reached("rest", OwnerOf[m]))
    BY <1>2 DEF PostReceipt, TypeOK
  <2> QED BY <1>2, <2>1, PostStep DEF AudienceHolds, AudienceOK, Audience
<1>3. CASE LookUp(d)
  BY <1>0, <1>3, LookUpStep DEF LookUp, past, SameFrame, AudienceHolds, AudienceOK
<1>4. CASE Calm(d) /\ Busy(d)
  BY <1>0, <1>4 DEF Calm, SameFrame, Busy, AudienceHolds, AudienceOK
<1> QED BY <1>1, <1>2, <1>3, <1>4, CalmStep

LEMMA SavedStep ==
    ASSUME NEW d \in Actors, TypeOK, RoutesInv, Handles(d)
    PROVE  SavedOK(d, req'[d], trouble'[d], rows')
<1>0. SavedOK(d, req[d], trouble[d], rows) /\ KindOK(d, req[d], trouble[d])
  BY DEF RoutesInv
<1>1. ASSUME NEW kind \in {"direct", "receipt", "group"}, NEW to \in Users \cup Groups,
             ReadFrame(d, kind, to)
      PROVE  SavedOK(d, req'[d], trouble'[d], rows')
  BY <1>0, <1>1, ReadStep DEF ReadFrame, SavedOK, KindOK
<1>2. CASE CheckMember(d)
  BY <1>0, <1>2, TroubledStep, GotoStep DEF CheckMember, Pcs, Troubles, SavedOK, SameFrame, SameWake, KindOK
<1>3. CASE Write(d)
  BY <1>0, <1>3, WriteStep DEF Write, past, SavedOK, SameFrame, SameWake, KindOK
<1>4. CASE PublishFails(d)
  <2>1. req[d].pc \in {"copy", "echo"} /\ trouble'[d] = trouble[d] \cup {req[d].pc}
    BY <1>4, TroubledStep DEF PublishFails, Publishing, Troubles
  <2>2. /\ req'[d].pc = NextStep(req[d], TRUE) /\ req'[d].kind = req[d].kind
        /\ req'[d].err = (req[d].err \/ req[d].pc = "copy")
    BY <1>4, PublishedStep DEF PublishFails, SameFrame
  <2>3. req[d].kind = "direct" => req'[d].pc # "done"
    BY <2>1, <2>2 DEF NextStep
  <2> QED BY <1>0, <2>1, <2>2, <2>3 DEF SavedOK
<1>5. CASE Routed(d)
  BY <1>0, <1>5, PublishedStep DEF Routed, Publishing, past, NextStep, SavedOK, SameFrame, SameWake, KindOK
<1>6. CASE Lost(d)
  BY <1>0, <1>6, TroubledStep, PublishedStep DEF Lost, Publishing, Troubles, NextStep, SavedOK, SameFrame, SameWake, KindOK
<1>7. CASE GetGroup(d)
  BY <1>0, <1>7, GetGroupStep DEF GetGroup, past, SavedOK, SameFrame, SameWake, KindOK
<1>8. CASE GetGroupFails(d)
  BY <1>0, <1>8, TroubledStep, GotoStep DEF GetGroupFails, Pcs, Troubles, SavedOK, SameFrame, SameWake, KindOK
<1>9. ASSUME NEW u \in Users, CheckOnline(d, u)
      PROVE  SavedOK(d, req'[d], trouble'[d], rows')
  BY <1>0, <1>9, CheckOnlineStep DEF CheckOnline, past, SavedOK, SameFrame, SameWake, KindOK
<1>10. CASE WakeUp(d)
  BY <1>0, <1>10, ListedStep DEF WakeUp, past, SavedOK, SameFrame, SameWake, KindOK
<1>11. CASE ListFails(d)
  BY <1>0, <1>11, TroubledStep, ListedStep DEF ListFails, Troubles, SavedOK, SameFrame, SameWake, KindOK
<1>12. CASE WakeDone(d)
  BY <1>0, <1>12, GotoStep DEF WakeDone, Pcs, past, SavedOK, SameFrame, SameWake, KindOK
<1>13. CASE SaveMessage(d)
  BY <1>0, <1>13, GotoStep DEF SaveMessage, Pcs, past, SavedOK, SameFrame, SameWake, KindOK
<1>14. CASE SaveFails(d)
  BY <1>0, <1>14, TroubledStep, GotoStep DEF SaveFails, Pcs, Troubles, SavedOK, SameFrame, SameWake, KindOK
<1>15. ASSUME NEW m \in Senders, PostReceipt(d, m)
       PROVE  SavedOK(d, req'[d], trouble'[d], rows')
  BY <1>0, <1>15, PostStep DEF PostReceipt, SavedOK, KindOK
<1>16. CASE LookUp(d)
  BY <1>0, <1>16, LookUpStep DEF LookUp, past, SavedOK, KindOK, SameFrame
<1>17. CASE LookUpFails(d)
  BY <1>0, <1>17, TroubledStep, GotoStep DEF LookUpFails, Pcs, Troubles, SavedOK, SameFrame, SameWake, KindOK
<1> QED
  BY <1>1, <1>2, <1>3, <1>4, <1>5, <1>6, <1>7, <1>8, <1>9, <1>10, <1>11, <1>12, <1>13,
     <1>14, <1>15, <1>16, <1>17 DEF Handles

LEMMA AwakeStep ==
    ASSUME NEW d \in Actors, TypeOK, RoutesInv, Handles(d), d \in Senders
    PROVE  AwakeOK(d, req'[d], trouble'[d], asleep'[d], pushed'[d])
<1>0. /\ KindOK(d, req[d], trouble[d]) /\ AsleepOK(d, req[d], asleep[d], members)
      /\ AwakeOK(d, req[d], trouble[d], asleep[d], pushed[d])
      /\ Busy(d) => \A u \in asleep[d] : ~Online(u)
  BY DEF RoutesInv
<1>1. ASSUME NEW kind \in {"direct", "receipt", "group"}, NEW to \in Users \cup Groups,
             ReadFrame(d, kind, to)
      PROVE  AwakeOK(d, req'[d], trouble'[d], asleep'[d], pushed'[d])
  BY <1>1, ReadStep DEF AwakeOK
<1>2. CASE CheckMember(d)
  BY <1>0, <1>2, TroubledStep, GotoStep DEF CheckMember, Pcs, Troubles, AwakeOK, SameFrame, SameWake, KindOK
<1>3. CASE Write(d)
  BY <1>0, <1>3, WriteStep DEF Write, past, AwakeOK, SameFrame, SameWake, KindOK
<1>4. CASE PublishFails(d)
  BY <1>0, <1>4, TroubledStep, PublishedStep DEF PublishFails, Publishing, Troubles, NextStep, AwakeOK, SameFrame, SameWake, KindOK, AsleepOK, Addressees
<1>5. CASE Routed(d)
  BY <1>0, <1>5, PublishedStep DEF Routed, Publishing, past, NextStep, AwakeOK, SameFrame, SameWake, KindOK, AsleepOK, Addressees
<1>6. CASE Lost(d)
  BY <1>0, <1>6, TroubledStep, PublishedStep DEF Lost, Publishing, Troubles, NextStep, AwakeOK, SameFrame, SameWake, KindOK, AsleepOK, Addressees
<1>7. CASE GetGroup(d)
  BY <1>0, <1>7, GetGroupStep DEF GetGroup, past, AwakeOK, SameFrame, SameWake, KindOK, AsleepOK, Addressees
<1>8. CASE GetGroupFails(d)
  BY <1>0, <1>8, TroubledStep, GotoStep DEF GetGroupFails, Pcs, Troubles, AwakeOK, SameFrame, SameWake, KindOK
<1>9. ASSUME NEW u \in Users, CheckOnline(d, u)
      PROVE  AwakeOK(d, req'[d], trouble'[d], asleep'[d], pushed'[d])
  <2>1. req[d].pc = "wake" /\ UNCHANGED <<pushed, asleep, trouble>>
    BY <1>9 DEF CheckOnline, past
  <2>2. /\ req'[d].kind = req[d].kind /\ req'[d].err = req[d].err /\ req'[d].pc \in {"wake", "list"}
        /\ \A v \in req[d].todo : v \in req'[d].todo \/ Online(v)
    BY <1>9, CheckOnlineStep DEF SameFrame, HasSession
  <2>3. \A v \in asleep[d] : ~Online(v)
    BY <1>0, <2>1 DEF Busy
  <2> QED BY <1>0, <2>1, <2>2, <2>3 DEF AwakeOK
<1>10. CASE WakeUp(d)
  <2>1. /\ req[d].pc = "list" /\ UNCHANGED <<asleep, trouble>>
        /\ pushed'[d] = pushed[d] \cup (DevicesOf(req[d].user) \cap HasToken)
    BY <1>10 DEF WakeUp, past, TypeOK
  <2>2. /\ req'[d].kind = req[d].kind /\ req'[d].err = req[d].err /\ req'[d].pc = "wake"
        /\ req'[d].todo = req[d].todo \ {req[d].user}
    BY <1>10, ListedStep DEF WakeUp, SameFrame
  <2> QED BY <1>0, <2>1, <2>2 DEF AwakeOK
<1>11. CASE ListFails(d)
  BY <1>0, <1>11, TroubledStep, ListedStep DEF ListFails, Troubles, AwakeOK, SameFrame, SameWake, KindOK
<1>12. CASE WakeDone(d)
  BY <1>0, <1>12, GotoStep DEF WakeDone, Pcs, past, AwakeOK, SameFrame, SameWake, KindOK
<1>13. CASE SaveMessage(d)
  BY <1>0, <1>13, GotoStep DEF SaveMessage, Pcs, past, AwakeOK, SameFrame, SameWake, KindOK
<1>14. CASE SaveFails(d)
  BY <1>0, <1>14, TroubledStep, GotoStep DEF SaveFails, Pcs, Troubles, AwakeOK, SameFrame, SameWake, KindOK
<1>15. ASSUME NEW m \in Senders, PostReceipt(d, m)
       PROVE  AwakeOK(d, req'[d], trouble'[d], asleep'[d], pushed'[d])
  BY <1>0, <1>15, PostStep DEF PostReceipt, AwakeOK, KindOK
<1>16. CASE LookUp(d)
  BY <1>0, <1>16, LookUpStep DEF LookUp, past, AwakeOK, KindOK, SameFrame
<1>17. CASE LookUpFails(d)
  BY <1>0, <1>17, TroubledStep, GotoStep DEF LookUpFails, Pcs, Troubles, AwakeOK, SameFrame, SameWake, KindOK
<1> QED
  BY <1>1, <1>2, <1>3, <1>4, <1>5, <1>6, <1>7, <1>8, <1>9, <1>10, <1>11, <1>12, <1>13,
     <1>14, <1>15, <1>16, <1>17 DEF Handles

LEMMA ShownGrows ==
    ASSUME Grows, NEW e
    PROVE  ShownTo(e) \subseteq ShownTo(e)'
BY DEF Grows, ShownTo

\* The consumer drops no copy but one on the device that sent the frame.
LEMMA RoutedShows ==
    ASSUME NEW d \in Actors, TypeOK, RoutesInv, Routed(d)
    PROVE  Targets(d) \ {d} \subseteq ShownTo(d)'
<1> SUFFICES ASSUME NEW q \in Targets(d) \ {d}
             PROVE  q \in ShownTo(d)'
  OBVIOUS
<1>1. q \in Devices
  <2>1. req[d].kind = "group" => req[d].to \in Groups
    BY DEF RoutesInv, KindOK
  <2> QED BY <2>1, QueuesTyped DEF Targets
<1>2. Frame(d) \in queued'[q]
  BY <1>1 DEF Routed
<1>3. Frame(d).msg = d /\ Frame(d).src # q
  BY <1>1, RoutingAssumption DEF RoutingAssumption, Frame
<1> QED BY <1>1, <1>2, <1>3 DEF ShownTo

\* What has been shown stays shown.
LEMMA CopyKept ==
    ASSUME NEW d \in Actors, Calm(d), Tells(d), Grows,
           req[d].pc \notin {"idle", "member", "copy"},
           CopyOK(d, req[d], trouble[d], audience[d], ShownTo(d))
    PROVE  CopyOK(d, req'[d], trouble'[d], audience'[d], ShownTo(d)')
<1>1. ShownTo(d) \subseteq ShownTo(d)' /\ trouble[d] \subseteq trouble'[d]
  BY ShownGrows DEF Tells
<1> QED BY <1>1 DEF Calm, SameFrame, CopyOK

LEMMA EchoKept ==
    ASSUME NEW d \in Actors, Calm(d), Tells(d), Grows, req'[d].err = req[d].err,
           req[d].pc \notin {"idle", "member", "copy", "echo"},
           EchoOK(d, req[d], trouble[d], audience[d], ShownTo(d))
    PROVE  EchoOK(d, req'[d], trouble'[d], audience'[d], ShownTo(d)')
<1>1. ShownTo(d) \subseteq ShownTo(d)' /\ trouble[d] \subseteq trouble'[d]
  BY ShownGrows DEF Tells
<1> QED BY <1>1 DEF Calm, SameFrame, EchoOK

LEMMA CopyStep ==
    ASSUME NEW d \in Actors, TypeOK, RoutesInv, Handles(d)
    PROVE  CopyOK(d, req'[d], trouble'[d], audience'[d], ShownTo(d)')
<1>0. /\ KindOK(d, req[d], trouble[d]) /\ Tells(d) /\ Grows
      /\ CopyOK(d, req[d], trouble[d], audience[d], ShownTo(d))
  BY HandlesTyped DEF RoutesInv, Alone
<1>1. ASSUME NEW kind \in {"direct", "receipt", "group"}, NEW to \in Users \cup Groups,
             ReadFrame(d, kind, to)
      PROVE  CopyOK(d, req'[d], trouble'[d], audience'[d], ShownTo(d)')
  BY <1>1, ReadStep DEF CopyOK
<1>2. CASE CheckMember(d)
  BY <1>2, GotoStep, TroubledStep DEF CheckMember, CopyOK, Pcs, Troubles
<1>3. CASE Write(d)
  <2>1. CASE req[d].pc = "copy"
    BY <1>3, <2>1, WriteStep DEF CopyOK
  <2>2. CASE req[d].pc = "echo"
    BY <1>0, <1>3, <2>2, WriteStep, CopyKept DEF Write, past, Calm
  <2> QED BY <1>3, <2>1, <2>2 DEF Write, Publishing
<1>4. CASE PublishFails(d)
  <2>1. CASE req[d].pc = "copy"
    <3>1. "copy" \in trouble'[d]
      BY <1>4, <2>1, TroubledStep DEF PublishFails, Troubles
    <3> QED BY <3>1 DEF CopyOK
  <2>2. CASE req[d].pc = "echo"
    BY <1>0, <1>4, <2>2, PublishedStep, CopyKept DEF PublishFails, Calm
  <2> QED BY <1>4, <2>1, <2>2 DEF PublishFails, Publishing
<1>5. CASE Routed(d)
  <2>1. CASE req[d].pc = "copy"
    <3>1. SameFrame(req[d], req'[d]) /\ audience'[d] = audience[d]
      BY <1>5, PublishedStep DEF Routed, past
    <3>2. audience[d].always \subseteq Targets(d)
      BY <2>1 DEF Targets, AudienceOK, RoutesInv
    <3> QED BY <1>5, <3>1, <3>2, RoutedShows DEF CopyOK, SameFrame
  <2>2. CASE req[d].pc = "echo"
    BY <1>0, <1>5, <2>2, PublishedStep, CopyKept DEF Routed, past, Calm
  <2> QED BY <1>5, <2>1, <2>2 DEF Routed, Publishing
<1>6. CASE Lost(d)
  <2>1. CASE req[d].pc = "copy"
    <3>1. "lostCopy" \in trouble'[d]
      BY <1>6, <2>1, TroubledStep DEF Lost, Troubles
    <3> QED BY <3>1 DEF CopyOK
  <2>2. CASE req[d].pc = "echo"
    BY <1>0, <1>6, <2>2, PublishedStep, CopyKept DEF Lost, Calm
  <2> QED BY <1>6, <2>1, <2>2 DEF Lost, Publishing
<1>7. CASE GetGroup(d)
  BY <1>0, <1>7, GetGroupStep, CopyKept DEF GetGroup, past, Calm, SameWake
<1>8. CASE GetGroupFails(d)
  BY <1>0, <1>8, GotoStep, CopyKept DEF GetGroupFails, Pcs, Calm, SameWake
<1>9. ASSUME NEW u \in Users, CheckOnline(d, u)
      PROVE  CopyOK(d, req'[d], trouble'[d], audience'[d], ShownTo(d)')
  BY <1>0, <1>9, CheckOnlineStep, CopyKept DEF CheckOnline, past, Calm, SameWake
<1>10. CASE WakeUp(d)
  BY <1>0, <1>10, ListedStep, CopyKept DEF WakeUp, past, Calm, SameWake
<1>11. CASE ListFails(d)
  BY <1>0, <1>11, ListedStep, CopyKept DEF ListFails, Calm, SameWake
<1>12. CASE WakeDone(d)
  BY <1>0, <1>12, GotoStep, CopyKept DEF WakeDone, Pcs, past, Calm, SameWake
<1>13. CASE SaveMessage(d)
  BY <1>0, <1>13, GotoStep, CopyKept DEF SaveMessage, Pcs, past, Calm, SameWake
<1>14. CASE SaveFails(d)
  BY <1>0, <1>14, GotoStep, CopyKept DEF SaveFails, Pcs, Calm, SameWake
<1>15. ASSUME NEW m \in Senders, PostReceipt(d, m)
       PROVE  CopyOK(d, req'[d], trouble'[d], audience'[d], ShownTo(d)')
  BY <1>15, PostStep DEF CopyOK
<1>16. CASE LookUp(d)
  BY <1>0, <1>16, LookUpStep DEF LookUp, CopyOK, KindOK, SameFrame
<1>17. CASE LookUpFails(d)
  BY <1>0, <1>17, GotoStep DEF LookUpFails, CopyOK, KindOK, SameFrame, Pcs
<1> QED
  BY <1>1, <1>2, <1>3, <1>4, <1>5, <1>6, <1>7, <1>8, <1>9, <1>10, <1>11, <1>12, <1>13,
     <1>14, <1>15, <1>16, <1>17 DEF Handles

LEMMA EchoStep ==
    ASSUME NEW d \in Actors, TypeOK, RoutesInv, Handles(d)
    PROVE  EchoOK(d, req'[d], trouble'[d], audience'[d], ShownTo(d)')
<1>0. /\ KindOK(d, req[d], trouble[d]) /\ Tells(d) /\ Grows
      /\ EchoOK(d, req[d], trouble[d], audience[d], ShownTo(d))
  BY HandlesTyped DEF RoutesInv, Alone
<1>1. ASSUME NEW kind \in {"direct", "receipt", "group"}, NEW to \in Users \cup Groups,
             ReadFrame(d, kind, to)
      PROVE  EchoOK(d, req'[d], trouble'[d], audience'[d], ShownTo(d)')
  BY <1>1, ReadStep DEF EchoOK
<1>2. CASE CheckMember(d)
  BY <1>2, GotoStep, TroubledStep DEF CheckMember, EchoOK, Pcs, Troubles
<1>3. CASE Write(d)
  BY <1>3, WriteStep DEF Write, Publishing, EchoOK
<1>4. CASE PublishFails(d)
  <2>1. CASE req[d].pc = "echo"
    <3>1. "echo" \in trouble'[d]
      BY <1>4, <2>1, TroubledStep DEF PublishFails, Troubles
    <3> QED BY <3>1 DEF EchoOK
  <2>2. CASE req[d].pc = "copy"
    BY <1>0, <1>4, <2>2, PublishedStep DEF PublishFails, NextStep, SameFrame, EchoOK
  <2> QED BY <1>4, <2>1, <2>2 DEF PublishFails, Publishing
<1>5. CASE Routed(d)
  <2>1. CASE req[d].pc = "echo"
    <3>1. audience'[d] = audience[d]
      BY <1>5 DEF Routed, past
    <3>2. audience[d].own \subseteq Targets(d)
      BY <2>1 DEF Targets, AudienceOK, RoutesInv
    <3> QED BY <1>5, <3>1, <3>2, RoutedShows DEF EchoOK
  <2>2. CASE req[d].pc = "copy"
    BY <1>0, <1>5, <2>2, PublishedStep DEF Routed, NextStep, SameFrame, EchoOK
  <2> QED BY <1>5, <2>1, <2>2 DEF Routed, Publishing
<1>6. CASE Lost(d)
  <2>1. CASE req[d].pc = "echo"
    <3>1. "lostEcho" \in trouble'[d]
      BY <1>6, <2>1, TroubledStep DEF Lost, Troubles
    <3> QED BY <3>1 DEF EchoOK
  <2>2. CASE req[d].pc = "copy"
    BY <1>0, <1>6, <2>2, PublishedStep DEF Lost, NextStep, SameFrame, EchoOK
  <2> QED BY <1>6, <2>1, <2>2 DEF Lost, Publishing
<1>7. CASE GetGroup(d)
  BY <1>0, <1>7, GetGroupStep, EchoKept DEF GetGroup, past, Calm, SameWake
<1>8. CASE GetGroupFails(d)
  BY <1>0, <1>8, GotoStep, EchoKept DEF GetGroupFails, Pcs, Calm, SameWake
<1>9. ASSUME NEW u \in Users, CheckOnline(d, u)
      PROVE  EchoOK(d, req'[d], trouble'[d], audience'[d], ShownTo(d)')
  BY <1>0, <1>9, CheckOnlineStep, EchoKept DEF CheckOnline, past, Calm, SameWake
<1>10. CASE WakeUp(d)
  BY <1>0, <1>10, ListedStep, EchoKept DEF WakeUp, past, Calm, SameWake
<1>11. CASE ListFails(d)
  BY <1>0, <1>11, ListedStep, EchoKept DEF ListFails, Calm, SameWake
<1>12. CASE WakeDone(d)
  BY <1>0, <1>12, GotoStep, EchoKept DEF WakeDone, Pcs, past, Calm, SameWake
<1>13. CASE SaveMessage(d)
  BY <1>0, <1>13, GotoStep, EchoKept DEF SaveMessage, Pcs, past, Calm, SameWake
<1>14. CASE SaveFails(d)
  BY <1>0, <1>14, GotoStep, EchoKept DEF SaveFails, Pcs, Calm, SameWake
<1>15. ASSUME NEW m \in Senders, PostReceipt(d, m)
       PROVE  EchoOK(d, req'[d], trouble'[d], audience'[d], ShownTo(d)')
  BY <1>15, PostStep DEF EchoOK
<1>16. CASE LookUp(d)
  BY <1>0, <1>16, LookUpStep DEF LookUp, EchoOK, KindOK, SameFrame
<1>17. CASE LookUpFails(d)
  BY <1>0, <1>17, GotoStep DEF LookUpFails, EchoOK, KindOK, SameFrame, Pcs
<1> QED
  BY <1>1, <1>2, <1>3, <1>4, <1>5, <1>6, <1>7, <1>8, <1>9, <1>10, <1>11, <1>12, <1>13,
     <1>14, <1>15, <1>16, <1>17 DEF Handles

\* What has been sent is neither asked for again nor refused.
StillSent(d) ==
    /\ req'[d].pc \notin {"idle", "member", "lookup"}
    /\ SameFrame(req[d], req'[d]) /\ audience'[d] = audience[d]
    /\ "refused" \in trouble'[d] => "refused" \in trouble[d]

LEMMA SentStep ==
    ASSUME NEW d \in Actors, TypeOK, RoutesInv, Handles(d)
    PROVE  req[d].pc \in {"idle", "member", "lookup"} \/ StillSent(d)
<1>1. ASSUME NEW kind \in {"direct", "receipt", "group"}, NEW to \in Users \cup Groups,
             ReadFrame(d, kind, to)
      PROVE  req[d].pc \in {"idle", "member", "lookup"} \/ StillSent(d)
  BY <1>1 DEF ReadFrame
<1>2. CASE CheckMember(d)
  BY <1>2 DEF CheckMember
<1>3. CASE Write(d)
  BY <1>3, WriteStep DEF Write, past, StillSent, SameWake
<1>4. CASE PublishFails(d)
  BY <1>4, TroubledStep, PublishedStep DEF PublishFails, Publishing, Troubles, NextStep, StillSent, SameWake
<1>5. CASE Routed(d)
  BY <1>5, PublishedStep DEF Routed, Publishing, past, NextStep, StillSent, SameWake
<1>6. CASE Lost(d)
  BY <1>6, TroubledStep, PublishedStep DEF Lost, Publishing, Troubles, NextStep, StillSent, SameWake
<1>7. CASE GetGroup(d)
  BY <1>7, GetGroupStep DEF GetGroup, past, StillSent, SameWake
<1>8. CASE GetGroupFails(d)
  BY <1>8, TroubledStep, GotoStep DEF GetGroupFails, Pcs, Troubles, StillSent, SameWake
<1>9. ASSUME NEW u \in Users, CheckOnline(d, u)
      PROVE  req[d].pc \in {"idle", "member", "lookup"} \/ StillSent(d)
  BY <1>9, CheckOnlineStep DEF CheckOnline, past, StillSent, SameWake
<1>10. CASE WakeUp(d)
  BY <1>10, ListedStep DEF WakeUp, past, StillSent, SameWake
<1>11. CASE ListFails(d)
  BY <1>11, TroubledStep, ListedStep DEF ListFails, Troubles, StillSent, SameWake
<1>12. CASE WakeDone(d)
  BY <1>12, GotoStep DEF WakeDone, Pcs, past, StillSent, SameWake
<1>13. CASE SaveMessage(d)
  BY <1>13, GotoStep DEF SaveMessage, Pcs, past, StillSent, SameWake
<1>14. CASE SaveFails(d)
  BY <1>14, TroubledStep, GotoStep DEF SaveFails, Pcs, Troubles, StillSent, SameWake
<1>15. ASSUME NEW m \in Senders, PostReceipt(d, m)
       PROVE  req[d].pc \in {"idle", "member", "lookup"} \/ StillSent(d)
  BY <1>15 DEF PostReceipt
<1>16. CASE LookUp(d)
  BY <1>16 DEF LookUp
<1>17. CASE LookUpFails(d)
  BY <1>17 DEF LookUpFails
<1> QED
  BY <1>1, <1>2, <1>3, <1>4, <1>5, <1>6, <1>7, <1>8, <1>9, <1>10, <1>11, <1>12, <1>13,
     <1>14, <1>15, <1>16, <1>17 DEF Handles

LEMMA FramesStep ==
    ASSUME NEW d \in Actors, TypeOK, RoutesInv, Handles(d),
           NEW q \in Devices, NEW f \in queued'[q]
    PROVE  FrameOK(q, f, req'[f.msg], trouble'[f.msg], audience'[f.msg])
<1>1. Alone(d)
  BY HandlesTyped
<1>2. CASE f \in queued[q]
  <2>1. f.msg \in Actors /\ FrameOK(q, f, req[f.msg], trouble[f.msg], audience[f.msg])
    BY <1>2 DEF RoutesInv, TypeOK
  <2>2. CASE f.msg # d
    BY <1>1, <2>1, <2>2 DEF Alone, Steps, Tells
  <2>3. CASE f.msg = d
    <3>1. StillSent(d)
      BY <2>1, <2>3, SentStep DEF FrameOK
    <3> QED BY <2>1, <2>3, <3>1 DEF FrameOK, StillSent, SameFrame
  <2> QED BY <2>2, <2>3
<1>3. CASE f \notin queued[q]
  <2>1. Routed(d) /\ q \in Targets(d) /\ f = Frame(d)
    <3>1. Routed(d)
      BY <1>3, Zenon DEF Handles, ReadFrame, CheckMember, Write, PublishFails, Lost, GetGroup,
         GetGroupFails, CheckOnline, WakeUp, ListFails, WakeDone, SaveMessage, SaveFails,
         PostReceipt, LookUp, LookUpFails
    <3> QED BY <1>3, <3>1 DEF Routed
  <2>2. req[d].pc \in {"copy", "echo"} /\ StillSent(d)
    BY <2>1, SentStep DEF Routed, Publishing
  <2>3. f.msg = d /\ f.src \in {NoDevice, d}
    BY <2>1 DEF Frame
  <2>4. f.src = NoDevice => req[d].pc = "copy" /\ req[d].kind # "group"
    BY <2>1, <2>2, RoutingAssumption DEF RoutingAssumption, Frame, Actors
  <2>5. q \in IF req[d].pc = "echo" THEN Queues(OwnerOf[d])
              ELSE Reached(req[d].kind, req[d].to)
    BY <2>1 DEF Targets
  <2>6. "refused" \notin trouble[d] 
    BY <2>2 DEF RoutesInv, KindOK
  <2>7. q \in audience[d].ever \cup DevicesOf(OwnerOf[d])
    BY <2>2, <2>5 DEF RoutesInv, AudienceOK, Queues, DevicesOf
  <2>8. f.src = NoDevice => OwnerOf[q] = req[d].to
    BY <2>4, <2>5 DEF Reached, Queues
  <2> QED BY <2>2, <2>3, <2>4, <2>6, <2>7, <2>8 DEF FrameOK, StillSent, SameFrame
<1> QED BY <1>2, <1>3

-----------------------------------------------------------------------------
(* The invariant, for all devices and steps.                               *)

LEMMA HandlesInv ==
    ASSUME NEW d \in Actors, TypeOK, RoutesInv, Handles(d)
    PROVE  RoutesInv'
<1>1. Alone(d) /\ Grows
  BY HandlesTyped
<1>2. UNCHANGED <<online, provisioned, members, bound>>
  BY <1>1 DEF Alone, sessions
<1>3. \A e \in Actors : ShownTo(e) \subseteq ShownTo(e)'
  BY <1>1, ShownGrows
<1> DEFINE same(e) == /\ req'[e] = req[e] /\ trouble'[e] = trouble[e]
                      /\ audience'[e] = audience[e] /\ asleep'[e] = asleep[e]
<1>4. \A e \in Actors \ {d} : same(e)
  BY <1>1 DEF Alone, Steps, Tells
<1>5. ASSUME NEW e \in Actors PROVE KindOK(e, req'[e], trouble'[e])
  BY <1>4, KindStep DEF RoutesInv
<1>6. ASSUME NEW e \in Actors PROVE AsleepOK(e, req'[e], asleep'[e], members')
  BY <1>2, <1>4, AsleepStep DEF RoutesInv
<1>7. ASSUME NEW e \in Actors, Busy(e)' PROVE \A u \in asleep'[e] : ~Online(u)'
  <2>1. \A u \in asleep'[e] : ~Online(u)
    BY <1>4, <1>7, BusyStep DEF RoutesInv, Busy
  <2> QED BY <1>2, <2>1 DEF Online
<1>8. ASSUME NEW e \in Senders PROVE AwakeOK(e, req'[e], trouble'[e], asleep'[e], pushed'[e])
  <2>1. e \in Actors
    BY DEF Actors
  <2>2. CASE e = d
    BY <2>2, AwakeStep
  <2>3. CASE e # d
    BY <1>1, <1>4, <2>1, <2>3 DEF Alone, RoutesInv
  <2> QED BY <2>2, <2>3
<1>9. ASSUME NEW e \in Actors
      PROVE  AudienceOK(req'[e], audience'[e], Queues(OwnerOf[e])',
                        Reached(req[e].kind, req[e].to)')
  <2>1. AudienceHolds(e, req'[e], audience'[e])
    BY <1>4, AudienceStep DEF RoutesInv, AudienceHolds
  <2>2. Queues(OwnerOf[e])' = Queues(OwnerOf[e])
        /\ Reached(req[e].kind, req[e].to)' = Reached(req'[e].kind, req'[e].to)
    BY <1>2 DEF Queues, Reached
  <2> QED BY <2>1, <2>2 DEF AudienceHolds
<1>10. ASSUME NEW e \in Actors
       PROVE  CopyOK(e, req'[e], trouble'[e], audience'[e], ShownTo(e)')
  <2>1. CASE e = d
    BY <2>1, CopyStep
  <2>2. CASE e # d
    <3>1. CopyOK(e, req[e], trouble[e], audience[e], ShownTo(e)) /\ same(e)
      BY <1>4, <2>2 DEF RoutesInv
    <3> QED BY <1>3, <3>1 DEF CopyOK
  <2> QED BY <2>1, <2>2
<1>11. ASSUME NEW e \in Actors
       PROVE  EchoOK(e, req'[e], trouble'[e], audience'[e], ShownTo(e)')
  <2>1. CASE e = d
    BY <2>1, EchoStep
  <2>2. CASE e # d
    <3>1. EchoOK(e, req[e], trouble[e], audience[e], ShownTo(e)) /\ same(e)
      BY <1>4, <2>2 DEF RoutesInv
    <3> QED BY <1>3, <3>1 DEF EchoOK
  <2> QED BY <2>1, <2>2
<1>12. ASSUME NEW e \in Actors PROVE SavedOK(e, req'[e], trouble'[e], rows')
  <2>1. CASE e = d
    BY <2>1, SavedStep
  <2>2. CASE e # d
    <3>1. SavedOK(e, req[e], trouble[e], rows) /\ same(e)
      BY <1>4, <2>2 DEF RoutesInv
    <3> QED BY <1>1, <3>1 DEF SavedOK, Grows
  <2> QED BY <2>1, <2>2
<1>13. \A q \in Devices : \A f \in queued'[q] : FrameOK(q, f, req'[f.msg], trouble'[f.msg], audience'[f.msg])
  BY FramesStep
<1> QED BY <1>5, <1>6, <1>7, <1>8, <1>9, <1>10, <1>11, <1>12, <1>13 DEF RoutesInv

\* Steps of others: what a frame is for can only become less certain.
Fades(au, bu) == bu.own = au.own /\ bu.always \subseteq au.always /\ au.ever \subseteq bu.ever

LEMMA OthersInv ==
    ASSUME TypeOK, RoutesInv, UNCHANGED <<queued, rows, pushed, req, trouble>>,
           \A e \in Actors : asleep'[e] \subseteq asleep[e],
           \A e \in Actors : Busy(e) => \A u \in asleep'[e] : ~Online(u)',
           \A e \in Actors : AsleepOK(e, req[e], asleep'[e], members'),
           \A e \in Actors : Fades(audience[e], audience'[e]),
           \A e \in Actors : AudienceOK(req[e], audience'[e], Queues(OwnerOf[e])',
                                       Reached(req[e].kind, req[e].to)')
    PROVE  RoutesInv'
<1>2. \A e \in Senders : AwakeOK(e, req[e], trouble[e], asleep'[e], pushed[e])
  BY DEF RoutesInv, AwakeOK, Actors
<1>3. \A e \in Actors : Busy(e)' => \A u \in asleep'[e] : ~Online(u)'
  BY DEF Busy
<1>4. \A e \in Actors : ShownTo(e)' = ShownTo(e)
  BY DEF ShownTo
<1>5. \A e \in Actors : /\ CopyOK(e, req[e], trouble[e], audience'[e], ShownTo(e))
                        /\ EchoOK(e, req[e], trouble[e], audience'[e], ShownTo(e))
  BY DEF RoutesInv, CopyOK, EchoOK, Fades
<1>6. \A q \in Devices : \A f \in queued[q] :
         FrameOK(q, f, req[f.msg], trouble[f.msg], audience'[f.msg])
  <2> SUFFICES ASSUME NEW q \in Devices, NEW f \in queued[q]
               PROVE  FrameOK(q, f, req[f.msg], trouble[f.msg], audience'[f.msg])
    OBVIOUS
  <2>1. f.msg \in Actors /\ FrameOK(q, f, req[f.msg], trouble[f.msg], audience[f.msg])
    BY DEF RoutesInv, TypeOK
  <2> QED BY <2>1 DEF FrameOK, Fades
<1> QED BY <1>2, <1>3, <1>4, <1>5, <1>6 DEF RoutesInv

\* The bindings are as they were.
LEMMA NotRebound ==
    ASSUME TypeOK, RoutesInv, UNCHANGED <<req, audience, provisioned, bound>>
    PROVE  /\ \A e \in Actors : Fades(audience[e], audience'[e])
           /\ \A e \in Actors : AudienceOK(req[e], audience'[e], Queues(OwnerOf[e])',
                                          Reached(req[e].kind, req[e].to)')
<1>1. \A e \in Actors : /\ Queues(OwnerOf[e])' = Queues(OwnerOf[e])
                        /\ Reached(req[e].kind, req[e].to)' = Reached(req[e].kind, req[e].to)
  BY DEF Queues, Reached
<1> QED BY <1>1 DEF RoutesInv, Fades

\* The bindings change.
LEMMA ReboundStep ==
    ASSUME TypeOK, RoutesInv, Rebound, provisioned \subseteq provisioned',
           provisioned' \subseteq Devices, bound' \in [Groups -> SUBSET provisioned']
    PROVE  /\ audience' \in [Actors -> AudienceType]
           /\ \A e \in Actors : Fades(audience[e], audience'[e])
           /\ \A e \in Actors : AudienceOK(req[e], audience'[e], Queues(OwnerOf[e])',
                                          Reached(req[e].kind, req[e].to)')
<1> DEFINE now(e) == Reached(req[e].kind, req[e].to)'
           au(e) == IF ~Busy(e) THEN audience[e]
                    ELSE [audience[e] EXCEPT !.always = @ \cap now(e), !.ever = @ \cup now(e)]
<1>1. audience' = [e \in Actors |-> au(e)]
  BY DEF Rebound
<1>2. req' = req /\ \A e \in Actors : audience[e] \in AudienceType
  BY DEF Rebound, TypeOK, AudienceType
<1>3. ASSUME NEW e \in Actors
      PROVE  now(e) \subseteq Devices /\ Queues(OwnerOf[e]) \subseteq Queues(OwnerOf[e])'
  <2>1. req[e].kind = "group" => req[e].to \in Groups
    BY DEF RoutesInv, KindOK
  <2> QED BY <1>2, <2>1 DEF Reached, Queues
<1> HIDE DEF now
<1>4. ASSUME NEW e \in Actors
      PROVE  /\ au(e) \in AudienceType /\ Fades(audience[e], au(e))
             /\ Busy(e) => au(e).always \subseteq now(e) /\ now(e) \subseteq au(e).ever
  BY <1>2, <1>3 DEF AudienceType, Fades
<1> HIDE DEF au
<1>5. ASSUME NEW e \in Actors
      PROVE  AudienceOK(req[e], audience'[e], Queues(OwnerOf[e])', now(e))
  <2>1. audience[e].own \subseteq Queues(OwnerOf[e])
    BY DEF RoutesInv, AudienceOK
  <2>2. audience'[e] = au(e)
    BY <1>1
  <2> QED BY <1>3, <1>4, <2>1, <2>2 DEF AudienceOK, Fades, Busy
<1> QED BY <1>1, <1>4, <1>5 DEF now

\* Nobody leaves, and nobody new is asleep.
LEMMA SleepersStay ==
    ASSUME TypeOK, RoutesInv, NEW ms, NEW as,
           \A e \in Actors : as[e] \subseteq asleep[e],
           \A g \in Groups : members[g] \subseteq ms[g]
    PROVE  \A e \in Actors : AsleepOK(e, req[e], as[e], ms)
BY DEF RoutesInv, AsleepOK, KindOK

LEMMA SessionsInv ==
    ASSUME NEW d \in Devices, TypeOK, RoutesInv, Provision(d) \/ Connect(d) \/ Disconnect(d)
    PROVE  TypeOK' /\ RoutesInv'
<1>1. CASE Provision(d)
  <2>1. UNCHANGED <<rabbit, online, members, queued, rows, pushed, req, asleep, trouble>>
    BY <1>1 DEF Provision, Rebound
  <2>2. provisioned' = provisioned \cup {d} /\ Rebound
    BY <1>1 DEF Provision
  <2>3. bound' \in [Groups -> SUBSET provisioned']
    BY <1>1, <2>2 DEF Provision, TypeOK
  <2>4. /\ audience' \in [Actors -> AudienceType]
        /\ \A e \in Actors : Fades(audience[e], audience'[e])
        /\ \A e \in Actors : AudienceOK(req[e], audience'[e], Queues(OwnerOf[e])',
                                       Reached(req[e].kind, req[e].to)')
    BY <2>2, <2>3, ReboundStep DEF TypeOK
  <2>5. TypeOK'
    BY <2>1, <2>2, <2>3, <2>4 DEF TypeOK, Rabbit!TypeOK, rabbit, AudienceType
  <2>6. \A e \in Actors : Busy(e) => \A u \in asleep'[e] : ~Online(u)'
    BY <2>1 DEF RoutesInv, Online
  <2>7. \A e \in Actors : AsleepOK(e, req[e], asleep'[e], members')
    BY <2>1, SleepersStay
  <2> QED BY <2>1, <2>4, <2>5, <2>6, <2>7, OthersInv
<1>2. CASE Connect(d)
  <2>1. UNCHANGED <<rabbit, provisioned, members, bound, queued, rows, pushed, req, audience, trouble>>
    BY <1>2 DEF Connect
  <2>2. online' = online \cup {d} /\ d \in provisioned
    BY <1>2 DEF Connect
  <2>3. asleep' = [s \in Actors |-> IF Busy(s) THEN asleep[s] \ {OwnerOf[d]} ELSE asleep[s]]
    BY <1>2 DEF Connect
  <2>4. asleep' \in [Actors -> SUBSET Users] /\ \A e \in Actors : asleep'[e] \subseteq asleep[e]
    BY <2>3 DEF TypeOK
  <2>5. TypeOK'
    BY <2>1, <2>2, <2>4 DEF TypeOK, Rabbit!TypeOK, rabbit
  <2>6. \A e \in Actors : Busy(e) => \A u \in asleep'[e] : ~Online(u)'
    BY <2>2, <2>3 DEF RoutesInv, Online
  <2>7. \A e \in Actors : AsleepOK(e, req[e], asleep'[e], members')
    BY <2>1, <2>4, SleepersStay
  <2> QED BY <2>1, <2>4, <2>5, <2>6, <2>7, NotRebound, OthersInv
<1>3. CASE Disconnect(d)
  <2>1. UNCHANGED <<rabbit, provisioned, members, bound, queued, rows, pushed, req, audience,
                    asleep, trouble>>
    BY <1>3 DEF Disconnect, past
  <2>2. online' = online \ {d}
    BY <1>3 DEF Disconnect
  <2>3. TypeOK'
    BY <2>1, <2>2 DEF TypeOK, Rabbit!TypeOK, rabbit
  <2>4. \A e \in Actors : Busy(e) => \A u \in asleep'[e] : ~Online(u)'
    BY <2>1, <2>2 DEF RoutesInv, Online
  <2>5. \A e \in Actors : AsleepOK(e, req[e], asleep'[e], members')
    BY <2>1, SleepersStay
  <2> QED BY <2>1, <2>3, <2>4, <2>5, NotRebound, OthersInv
<1> QED BY <1>1, <1>2, <1>3

LEMMA MembersInv ==
    ASSUME NEW g \in Groups, NEW u \in Users, TypeOK, RoutesInv, Join(g, u) \/ Leave(g, u)
    PROVE  TypeOK' /\ RoutesInv'
<1>1. CASE Join(g, u)
  <2>1. UNCHANGED <<rabbit, online, provisioned, bound, queued, rows, pushed, req, audience,
                    asleep, trouble>>
    BY <1>1 DEF Join, past
  <2>2. members' \in [Groups -> SUBSET Users] /\ \A h \in Groups : members[h] \subseteq members'[h]
    BY <1>1 DEF Join, TypeOK
  <2>3. TypeOK'
    BY <2>1, <2>2 DEF TypeOK, Rabbit!TypeOK, rabbit
  <2>4. \A e \in Actors : Busy(e) => \A v \in asleep'[e] : ~Online(v)'
    BY <2>1 DEF RoutesInv, Online
  <2>5. \A e \in Actors : AsleepOK(e, req[e], asleep'[e], members')
    BY <2>1, <2>2, SleepersStay
  <2> QED BY <2>1, <2>3, <2>4, <2>5, NotRebound, OthersInv
<1>2. CASE Leave(g, u)
  <2>1. UNCHANGED <<rabbit, online, provisioned, bound, queued, rows, pushed, req, audience, trouble>>
    BY <1>2 DEF Leave
  <2>2. /\ members' \in [Groups -> SUBSET Users]
        /\ \A h \in Groups : members'[h] = IF h = g THEN members[h] \ {u} ELSE members[h]
    BY <1>2 DEF Leave, TypeOK
  <2>3. asleep' = [s \in Actors |-> IF About(s, g) THEN asleep[s] \ {u} ELSE asleep[s]]
    BY <1>2 DEF Leave
  <2>4. asleep' \in [Actors -> SUBSET Users] /\ \A e \in Actors : asleep'[e] \subseteq asleep[e]
    BY <2>3 DEF TypeOK
  <2>5. TypeOK'
    BY <2>1, <2>2, <2>4 DEF TypeOK, Rabbit!TypeOK, rabbit
  <2>6. \A e \in Actors : Busy(e) => \A v \in asleep'[e] : ~Online(v)'
    BY <2>1, <2>4 DEF RoutesInv, Online
  <2>7. ASSUME NEW e \in Actors
        PROVE  AsleepOK(e, req[e], asleep'[e], members')
    <3>1. AsleepOK(e, req[e], asleep[e], members) /\ KindOK(e, req[e], trouble[e])
      BY DEF RoutesInv
    <3>2. CASE About(e, g)
      BY <2>2, <2>3, <3>1, <3>2 DEF AsleepOK, KindOK, About
    <3>3. CASE ~About(e, g)
      BY <2>2, <2>3, <3>1, <3>3 DEF AsleepOK, KindOK, About, Busy
    <3> QED BY <3>2, <3>3
  <2> QED BY <2>1, <2>4, <2>5, <2>6, <2>7, NotRebound, OthersInv
<1> QED BY <1>1, <1>2

LEMMA BindingsInv ==
    ASSUME NEW g \in Groups, NEW d \in Devices, TypeOK, RoutesInv, Bind(g, d) \/ Unbind(g, d)
    PROVE  TypeOK' /\ RoutesInv'
<1>1. UNCHANGED <<rabbit, online, provisioned, members, queued, rows, pushed, req, asleep, trouble>>
      /\ Rebound
  BY DEF Bind, Unbind, Rebound
<1>2. bound' \in [Groups -> SUBSET provisioned']
  <2>1. CASE Bind(g, d)
    BY <1>1, <2>1 DEF Bind, TypeOK
  <2>2. CASE Unbind(g, d)
    BY <1>1, <2>2 DEF Unbind, TypeOK
  <2> QED BY <2>1, <2>2
<1>3. /\ audience' \in [Actors -> AudienceType]
      /\ \A e \in Actors : Fades(audience[e], audience'[e])
      /\ \A e \in Actors : AudienceOK(req[e], audience'[e], Queues(OwnerOf[e])',
                                     Reached(req[e].kind, req[e].to)')
  BY <1>1, <1>2, ReboundStep DEF TypeOK
<1>4. TypeOK'
  BY <1>1, <1>2, <1>3 DEF TypeOK, Rabbit!TypeOK, rabbit, AudienceType
<1>5. \A e \in Actors : Busy(e) => \A u \in asleep'[e] : ~Online(u)'
  BY <1>1 DEF RoutesInv, Online
<1>6. \A e \in Actors : AsleepOK(e, req[e], asleep'[e], members')
  BY <1>1, SleepersStay
<1> QED BY <1>1, <1>3, <1>4, <1>5, <1>6, OthersInv

LEMMA ConnectionInv ==
    ASSUME TypeOK, RoutesInv, RabbitInv, Rabbit!Next, Routing
    PROVE  TypeOK' /\ RoutesInv'
<1>1. Rabbit!TypeOK' /\ dialled <= dialled'
  BY RabbitStep DEF TypeOK
<1>2. UNCHANGED <<online, provisioned, members, bound, queued, rows, pushed, req, audience,
                  asleep, trouble>>
  BY DEF Routing, sessions, past
<1>3. req' \in [Actors -> Requests(dialled')]
  <2>1. dialled \in Nat /\ dialled' \in Nat
    BY <1>1, SMT DEF TypeOK, Rabbit!TypeOK
  <2>2. 0..dialled \subseteq 0..dialled'
    BY <1>1, <2>1, SMT
  <2>3. Requests(dialled) \subseteq Requests(dialled')
    BY <2>2, Zenon DEF Requests
  <2> QED BY <1>2, <2>3, Typed
<1>4. TypeOK'
  BY <1>1, <1>2, <1>3 DEF TypeOK, Requests, Pcs
<1>5. \A e \in Actors : Busy(e) => \A u \in asleep'[e] : ~Online(u)'
  BY <1>2 DEF RoutesInv, Online
<1>6. \A e \in Actors : AsleepOK(e, req[e], asleep'[e], members')
  BY <1>2, SleepersStay
<1> QED BY <1>2, <1>4, <1>5, <1>6, NotRebound, OthersInv

Inv == TypeOK /\ RoutesInv /\ RabbitInv

LEMMA InitInv ==
    ASSUME Init
    PROVE  Inv
<1>1. Rabbit!TypeOK /\ RabbitInv /\ dialled \in Nat
  BY RabbitInit DEF Init, Rabbit!Init
<1>2. Idle \in Requests(dialled)
  BY <1>1, SMT DEF Requests, Pcs, Idle, Request
<1>3. req \in [Actors -> Requests(dialled)] /\ \A d \in Actors : req[d] = Idle
  BY <1>2 DEF Init
<1>4. TypeOK
  <2>1. members \in [Groups -> SUBSET Users] /\ bound \in [Groups -> SUBSET provisioned]
    BY RoutingAssumption DEF RoutingAssumption, Init
  <2>2. Audience({}, {}) \in AudienceType
    BY AudienceTyped
  <2>3. audience \in [Actors -> AudienceType]
    BY <2>2 DEF Init
  <2> QED BY <1>1, <1>3, <2>1, <2>3 DEF TypeOK, Init, Requests, Pcs, AudienceType
<1>5. Idle.pc = "idle" /\ Idle.kind = "none"
  BY DEF Idle, Request
<1>6. \A d \in Actors : KindOK(d, req[d], trouble[d])
  BY <1>3, <1>5 DEF Init, KindOK, Kinds
<1>7. \A d \in Actors : AsleepOK(d, req[d], asleep[d], members)
  BY <1>3, <1>5 DEF Init, AsleepOK
<1>8. \A d \in Senders : AwakeOK(d, req[d], trouble[d], asleep[d], pushed[d])
  BY <1>3, <1>5 DEF AwakeOK, Actors
<1>9. \A d \in Actors : /\ CopyOK(d, req[d], trouble[d], audience[d], ShownTo(d))
                        /\ EchoOK(d, req[d], trouble[d], audience[d], ShownTo(d))
                        /\ SavedOK(d, req[d], trouble[d], rows)
  BY <1>3, <1>5 DEF CopyOK, EchoOK, SavedOK
<1>10. \A d \in Actors : AudienceOK(req[d], audience[d], Queues(OwnerOf[d]),
                                   Reached(req[d].kind, req[d].to))
  BY <1>3, <1>5 DEF Init, AudienceOK, Audience
<1>11. RoutesInv
  BY <1>6, <1>7, <1>8, <1>9, <1>10 DEF RoutesInv, Init
<1> QED BY <1>1, <1>4, <1>11 DEF Inv

LEMMA NextInv ==
    ASSUME Inv, [Next]_vars
    PROVE  Inv'
<1> USE DEF Inv
<1>1. ASSUME NEW d \in Actors, Handles(d)
      PROVE  Inv'
  <2>1. TypeOK' /\ RoutesInv' /\ Alone(d)
    BY <1>1, HandlesTyped, HandlesInv
  <2> QED BY <2>1 DEF Alone, rabbit, RabbitInv
<1>2. ASSUME NEW d \in Devices, Provision(d) \/ Connect(d) \/ Disconnect(d)
      PROVE  Inv'
  <2>1. UNCHANGED rabbit
    BY <1>2 DEF Provision, Connect, Disconnect
  <2> QED BY <1>2, <2>1, SessionsInv DEF rabbit, RabbitInv
<1>5. ASSUME NEW g \in Groups, NEW u \in Users, Join(g, u) \/ Leave(g, u)
      PROVE  Inv'
  <2>1. UNCHANGED rabbit
    BY <1>5 DEF Join, Leave
  <2> QED BY <1>5, <2>1, MembersInv DEF rabbit, RabbitInv
<1>6. ASSUME NEW g \in Groups, NEW d \in Devices, Bind(g, d) \/ Unbind(g, d)
      PROVE  Inv'
  <2>1. UNCHANGED rabbit
    BY <1>6 DEF Bind, Unbind
  <2> QED BY <1>6, <2>1, BindingsInv DEF rabbit, RabbitInv
<1>3. CASE Rabbit!Next /\ Routing
  BY <1>3, ConnectionInv, RabbitStep DEF TypeOK
<1>4. CASE UNCHANGED vars
  <2>1. UNCHANGED <<rabbit, online, provisioned, members, bound, queued, rows, pushed, req,
                    audience, asleep, trouble>>
    BY <1>4 DEF vars, sessions, past
  <2>2. TypeOK' /\ RabbitInv'
    BY <2>1 DEF rabbit, TypeOK, Rabbit!TypeOK, RabbitInv
  <2>3. \A e \in Actors : Busy(e) => \A u \in asleep'[e] : ~Online(u)'
    BY <2>1 DEF RoutesInv, Online
  <2>4. \A e \in Actors : AsleepOK(e, req[e], asleep'[e], members')
    BY <2>1, SleepersStay
  <2> QED BY <2>1, <2>2, <2>3, <2>4, NotRebound, OthersInv
<1> QED BY <1>1, <1>2, <1>3, <1>4, <1>5, <1>6 DEF Next

-----------------------------------------------------------------------------
LEMMA Reachable == Spec => []Inv
BY InitInv, NextInv, PTL DEF Spec

\* The variables keep their types, those of the connection among them: the
\* broker is dialled MaxConns + 2 times at most, once after the bound and once
\* after Close.
THEOREM RoutingTypeCorrect == Spec => []TypeOK
<1>1. Inv => TypeOK
  BY DEF Inv
<1> QED BY <1>1, Reachable, PTL

\* No connection to the broker is left open that neither c.conn nor the
\* goroutine that reconnects refers to, and only one that Close could not know
\* of outlives the client (client.go).
THEOREM OneConnection == Spec => []NoStrayConnection
<1>1. Inv => NoStrayConnection
  BY NoStray DEF Inv, TypeOK
<1> QED BY <1>1, Reachable, PTL

\* A frame is shown to the devices of its sender and through queues that were
\* bound for it while it was handled, and nowhere else; to nobody when it was
\* refused; and not to the device that sent it (publishToUser, publishToGroup
\* and the consumer's source header).
THEOREM ShownOnlyToAddressees == Spec => []ShownToNobodyElse
<1>1. Inv => ShownToNobodyElse
  <2> SUFFICES ASSUME Inv, NEW d \in Senders, NEW q \in ShownTo(d)
               PROVE  /\ Fine(d, {"refused"})
                      /\ q \in audience[d].ever \cup DevicesOf(OwnerOf[d])
                      /\ q = d => req[d].kind # "group" /\ req[d].to = OwnerOf[d]
    BY DEF ShownToNobodyElse
  <2>1. PICK f \in queued[q] : f.msg = d /\ f.src # q
    BY DEF ShownTo
  <2>2. FrameOK(q, f, req[d], trouble[d], audience[d])
    BY <2>1 DEF Inv, RoutesInv, ShownTo
  <2> QED BY <2>1, <2>2 DEF FrameOK, Fine
<1> QED BY <1>1, Reachable, PTL

\* Every user that had no session, and did not leave the group, while a frame
\* for it was handled is woken up on all its devices, unless the list of them
\* could not be read (handleDirectPayload, wakeUpOfflineGroupMembers).
THEOREM OfflineUsersPushed == Spec => []SleepersWoken
<1>1. Inv => SleepersWoken
  <2> SUFFICES ASSUME Inv, NEW d \in Senders, Sent(d, {"direct", "group"}),
                      Fine(d, {"refused", "noList"}), req[d].kind = "group" => ~req[d].err,
                      NEW u \in asleep[d]
               PROVE  DevicesOf(u) \cap HasToken \subseteq pushed[d]
    BY DEF SleepersWoken
  <2>1. AwakeOK(d, req[d], trouble[d], asleep[d], pushed[d])
    BY DEF Inv, RoutesInv
  <2> QED BY <2>1 DEF AwakeOK, Sent, Fine
<1> QED BY <1>1, Reachable, PTL

\* A frame handled without trouble is shown through every queue that stayed
\* bound for it, whoever joined or left meanwhile, and by every other device of
\* the sender that had a queue when it was read; and a direct frame that could
\* not be published is in the table, unless that failed too (publishToUser,
\* publishToGroup and the fallback of handleDirectPayload).
THEOREM FramesArrive == Spec => []CopiesArrive
<1>1. Inv => CopiesArrive
  <2> SUFFICES ASSUME Inv, NEW d \in Senders, Sent(d, {"direct", "group", "receipt"}),
                      Fine(d, {"refused"})
               PROVE  /\ Fine(d, {"copy", "lostCopy"})
                            => audience[d].always \ {d} \subseteq ShownTo(d)
                      /\ Fine(d, {"echo", "lostEcho"}) /\ (req[d].kind = "group" => ~req[d].err)
                            => audience[d].own \ {d} \subseteq ShownTo(d)
                      /\ req[d].kind = "direct" /\ ~Fine(d, {"copy"})
                            => d \in rows \/ ~Fine(d, {"unsaved"})
    BY DEF CopiesArrive
  <2>1. /\ CopyOK(d, req[d], trouble[d], audience[d], ShownTo(d))
        /\ EchoOK(d, req[d], trouble[d], audience[d], ShownTo(d))
        /\ SavedOK(d, req[d], trouble[d], rows)
    BY DEF Inv, RoutesInv, Actors
  <2> QED BY <2>1 DEF CopyOK, EchoOK, SavedOK, Sent, Fine
<1> QED BY <1>1, Reachable, PTL
=============================================================================
