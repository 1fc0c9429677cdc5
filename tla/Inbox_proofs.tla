---------------------------- MODULE Inbox_proofs ----------------------------
(***************************************************************************)
(* Proofs about Inbox.                                                     *)
(*                                                                         *)
(* A frame that was taken from the queue is where the step of its request  *)
(* says it is: in hand, then in hand and in the response, then only in the *)
(* response (HandOK).  Every turn of the loop that did not add to the      *)
(* response dropped a frame that cannot be read, which arrived (CountOK).  *)
(***************************************************************************)
EXTENDS Inbox, TLAPS

-----------------------------------------------------------------------------
Pcs == {"idle", "replay", "get", "got", "ack", "peeked"}
Requests ==
    [pc : Pcs, todo : SUBSET Keys, taken : 0..Limit, count : 0..Limit,
     items : SUBSET Frames, held : Frames \cup {NoFrame},
     open : BOOLEAN, dry : BOOLEAN]

\* d: drain[r].
HandOK(d) ==
    /\ d.held # NoFrame <=> d.pc \in {"got", "ack", "peeked"}
    /\ d.pc = "ack" => d.held \in d.items
    /\ d.pc = "idle" => d.items = {}

Readable == \A m \in arrived : ~Broken(m)

CountOK(d, readable) ==
    /\ d.pc \in {"idle", "replay"} => d.taken = 0 /\ d.count = 0
    /\ d.pc = "got" => d.count < d.taken
    /\ d.pc # "got" => d.count <= d.taken
    /\ readable => d.taken = IF d.pc = "got" THEN d.count + 1 ELSE d.count

\* e: a frame in the queue or in hand.
Known(e) == e \in Msgs => e \in arrived

DrainInv ==
    /\ \A i \in DOMAIN queue : Known(queue[i])
    /\ \A r \in Drains : Known(drain[r].held)
    /\ \A r \in Drains : HandOK(drain[r])
    /\ \A r \in Drains : CountOK(drain[r], Readable)

Inv == TypeOK /\ DrainInv /\ NoMoreMeansEmpty

-----------------------------------------------------------------------------
(* Queues.                                                                 *)

Has(q, f) == \E i \in DOMAIN q : q[i] = f

LEMMA HasAppend ==
    ASSUME NEW S, NEW q \in Seq(S), NEW e \in S
    PROVE  /\ Append(q, e) \in Seq(S)
           /\ \A f : Has(Append(q, e), f) <=> Has(q, f) \/ f = e
<1>1. /\ Append(q, e) \in Seq(S) /\ Len(Append(q, e)) = Len(q) + 1
      /\ \A i \in 1 .. Len(q) : Append(q, e)[i] = q[i]
      /\ Append(q, e)[Len(q) + 1] = e
  OBVIOUS
<1>2. DOMAIN q = 1 .. Len(q) /\ DOMAIN Append(q, e) = 1 .. Len(q) + 1 /\ Len(q) \in Nat
  BY <1>1
<1>3. ASSUME NEW f, Has(Append(q, e), f) PROVE Has(q, f) \/ f = e
  <2>1. PICK i \in 1 .. Len(q) + 1 : Append(q, e)[i] = f
    BY <1>2, <1>3 DEF Has
  <2>2. i \in 1 .. Len(q) \/ i = Len(q) + 1
    BY <1>2, SMT
  <2> QED BY <1>1, <1>2, <2>1, <2>2 DEF Has
<1>4. ASSUME NEW f, Has(q, f) \/ f = e PROVE Has(Append(q, e), f)
  <2>1. 1 .. Len(q) \subseteq 1 .. Len(q) + 1 /\ Len(q) + 1 \in 1 .. Len(q) + 1
    BY <1>2, SMT
  <2> QED BY <1>1, <1>2, <1>4, <2>1 DEF Has
<1> QED BY <1>1, <1>3, <1>4

LEMMA HasTail ==
    ASSUME NEW S, NEW q \in Seq(S), q # <<>>
    PROVE  /\ Head(q) \in S /\ Tail(q) \in Seq(S)
           /\ \A f : Has(q, f) <=> Has(Tail(q), f) \/ f = Head(q)
<1>1. /\ Head(q) = q[1] /\ Head(q) \in S /\ Tail(q) \in Seq(S) /\ Len(q) \in Nat \ {0}
      /\ Len(Tail(q)) = Len(q) - 1
      /\ \A i \in 1 .. Len(q) - 1 : Tail(q)[i] = q[i + 1]
  OBVIOUS
<1>2. DOMAIN q = 1 .. Len(q) /\ DOMAIN Tail(q) = 1 .. Len(q) - 1
  BY <1>1
<1>3. ASSUME NEW f, Has(q, f) PROVE Has(Tail(q), f) \/ f = Head(q)
  <2>1. PICK i \in 1 .. Len(q) : q[i] = f
    BY <1>2, <1>3 DEF Has
  <2>2. CASE i = 1
    BY <1>1, <2>1, <2>2
  <2>3. CASE i # 1
    <3>1. i - 1 \in 1 .. Len(q) - 1 /\ (i - 1) + 1 = i
      BY <1>1, <2>3, SMT
    <3>2. Tail(q)[i - 1] = f
      BY <1>1, <2>1, <3>1
    <3> QED BY <1>2, <3>1, <3>2 DEF Has
  <2> QED BY <2>2, <2>3
<1>4. ASSUME NEW f, Has(Tail(q), f) PROVE Has(q, f)
  <2>1. PICK i \in 1 .. Len(q) - 1 : Tail(q)[i] = f
    BY <1>2, <1>4 DEF Has
  <2>2. i + 1 \in 1 .. Len(q)
    BY <1>1, SMT
  <2> QED BY <1>1, <1>2, <2>1, <2>2 DEF Has
<1>5. Has(q, Head(q))
  <2>1. 1 \in 1 .. Len(q)
    BY <1>1, SMT
  <2> QED BY <1>1, <1>2, <2>1 DEF Has
<1> QED BY <1>1, <1>3, <1>4, <1>5

LEMMA HasPutBack ==
    ASSUME NEW S, NEW q \in Seq(S), NEW e \in S
    PROVE  /\ <<e>> \o q \in Seq(S)
           /\ \A f : Has(<<e>> \o q, f) <=> Has(q, f) \/ f = e
<1>1. /\ <<e>> \o q \in Seq(S) /\ <<e>> \o q # <<>>
      /\ Head(<<e>> \o q) = e /\ Tail(<<e>> \o q) = q
  OBVIOUS
<1> QED BY <1>1, HasTail

-----------------------------------------------------------------------------
(* The requests.                                                           *)

\* The step of r leaves the other requests alone.
Turns(r) ==
    /\ drain' \in [Drains -> Requests]
    /\ \A e \in Drains \ {r} : drain'[e] = drain[e]

LEMMA Typed ==
    ASSUME TypeOK
    PROVE  drain \in [Drains -> Requests] /\ queue \in Seq(Frames)
BY DEF TypeOK, Requests, Pcs

LEMMA Becomes ==
    ASSUME NEW r \in Drains, NEW s \in Requests, TypeOK, Become(r, s)
    PROVE  Turns(r) /\ drain'[r] = s
BY Typed, SMT DEF Become, Turns

LEMMA LimitPositive == Limit \in Nat /\ Limit >= 1 /\ NoFrame \notin Frames
BY InboxAssumption DEF InboxAssumption, Frames

LEMMA Begins ==
    ASSUME NEW todo \in SUBSET Keys, NEW pc \in Pcs
    PROVE  /\ Request(pc, todo) \in Requests /\ [Request(pc, todo) EXCEPT !.dry = TRUE] \in Requests
           /\ HandOK(Request("idle", todo)) /\ HandOK([Request("idle", todo) EXCEPT !.dry = TRUE])
           /\ HandOK(Request("replay", todo))
<1>1. 0 \in 0..Limit
  BY LimitPositive, SMT
<1>2. Request(pc, todo) \in Requests
  BY <1>1, Zenon DEF Requests, Request
<1>3. [Request(pc, todo) EXCEPT !.dry = TRUE] \in Requests
  BY <1>2, Zenon DEF Requests
<1> QED BY <1>2, <1>3 DEF Request, HandOK

\* What the step of r has to show.
LEMMA Turned ==
    ASSUME NEW r \in Drains, Inv, Turns(r),
           HandOK(drain'[r]), CountOK(drain'[r], Readable), Known(drain'[r].held),
           ~more'[r] /\ drain'[r].pc = "idle" /\ Readable => drain'[r].dry,
           \A e \in Drains \ {r} : more'[e] = more[e], more' \in [Drains -> BOOLEAN],
           queue' \in Seq(Frames), \A f : Has(queue', f) => Known(f),
           declared' \in BOOLEAN, returned' \subseteq Frames, receipted' \subseteq arrived,
           UNCHANGED <<arrived, keys>>, faults' \in 0..MaxFaults
    PROVE  Inv'
<1> USE DEF Inv, keys
<1>1. UNCHANGED <<arrived, forwarded, sent, stored>> /\ Readable' = Readable
  BY DEF Readable
<1>2. \A f : Known(f)' <=> Known(f)
  BY DEF Known
<1>3. \A e \in Drains : HandOK(drain'[e]) /\ Known(drain'[e].held)
  BY DEF DrainInv, Turns
<1>4. \A e \in Drains : CountOK(drain'[e], Readable)
  BY DEF DrainInv, Turns
<1>5. \A e \in Drains : drain'[e].count <= drain'[e].taken
  <2> SUFFICES ASSUME NEW e \in Drains
               PROVE  drain'[e].count <= drain'[e].taken
    OBVIOUS
  <2>1. drain'[e] \in Requests /\ CountOK(drain'[e], Readable)
    BY <1>4 DEF Turns
  <2>2. drain'[e].count \in Nat /\ drain'[e].taken \in Nat
    BY <2>1, LimitPositive, SMT DEF Requests
  <2> QED BY <2>1, <2>2, SMT DEF CountOK
<1>7. \A i \in DOMAIN queue' : Known(queue'[i])
  BY DEF Has
<1>8. DrainInv'
  BY <1>1, <1>2, <1>3, <1>4, <1>7 DEF DrainInv
<1>9. TypeOK'
  BY <1>1, <1>5 DEF TypeOK, Turns, Requests, Pcs
<1>10. NoMoreMeansEmpty'
  <2> SUFFICES ASSUME NEW e \in Drains, ~more'[e], drain'[e].pc = "idle",
                      \A m \in arrived' : ~Broken(m)
               PROVE  drain'[e].dry
    BY DEF NoMoreMeansEmpty
  <2>1. Readable
    BY <1>1 DEF Readable
  <2>2. CASE e = r
    BY <2>1, <2>2
  <2>3. CASE e # r
    BY <1>1, <2>3 DEF NoMoreMeansEmpty, Turns
  <2> QED BY <2>2, <2>3
<1> QED BY <1>8, <1>9, <1>10

\* The request answers, or fails, and the goroutine ends.
LEMMA Ended ==
    ASSUME NEW r \in Drains, Inv, drain[r].pc # "idle",
           Become(r, Idle) \/ Become(r, [Idle EXCEPT !.dry = TRUE]),
           Become(r, Idle) => more'[r] \/ ~Readable,
           \A e \in Drains \ {r} : more'[e] = more[e], more' \in [Drains -> BOOLEAN],
           queue' \in Seq(Frames), \A f : Has(queue', f) => Known(f),
           returned' \subseteq Frames,
           UNCHANGED <<declared, receipted, arrived, keys, faults>>
    PROVE  Inv'
<1>1. {} \in SUBSET Keys /\ "idle" \in Pcs
  BY DEF Pcs
<1>2. /\ Idle \in Requests /\ [Idle EXCEPT !.dry = TRUE] \in Requests
      /\ HandOK(Idle) /\ HandOK([Idle EXCEPT !.dry = TRUE])
  BY <1>1, Begins DEF Idle
<1>3. Turns(r) /\ drain'[r] \in {Idle, [Idle EXCEPT !.dry = TRUE]}
  BY <1>2, Becomes DEF Inv
<1>4. HandOK(drain'[r]) /\ drain'[r].held = NoFrame /\ drain'[r].open /\ drain'[r].pc = "idle"
  <2>1. CASE drain'[r] = Idle
    BY <1>2, <2>1 DEF Idle, Request
  <2>2. CASE drain'[r] = [Idle EXCEPT !.dry = TRUE]
    BY <1>2, <2>2 DEF Idle, Request
  <2> QED BY <1>3, <2>1, <2>2
<1>5. CountOK(drain'[r], Readable)
  BY <1>3 DEF CountOK, Idle, Request
<1>6. Known(NoFrame)
  BY LimitPositive DEF Known, Frames
<1>7. ~more'[r] /\ Readable => drain'[r].dry
  <2>1. CASE Become(r, Idle)
    BY <2>1
  <2>2. CASE Become(r, [Idle EXCEPT !.dry = TRUE])
    <3>1. drain'[r] = [Idle EXCEPT !.dry = TRUE]
      BY <1>2, <2>2, Becomes DEF Inv
    <3> QED BY <3>1 DEF Idle, Request
  <2> QED BY <2>1, <2>2
<1>8. /\ declared' \in BOOLEAN /\ receipted' \subseteq arrived /\ faults' \in 0..MaxFaults
      /\ UNCHANGED <<arrived, keys>> /\ faults' = faults
  BY DEF Inv, TypeOK
<1> QED BY <1>3, <1>4, <1>5, <1>6, <1>7, <1>8, Turned

LEMMA QueueKnown ==
    ASSUME DrainInv
    PROVE  \A f : Has(queue, f) => Known(f)
BY DEF DrainInv, Has

LEMMA GoesInv ==
    ASSUME NEW r \in Drains, Inv, Goes(r)
    PROVE  Inv'
<1> USE DEF Inv
<1>0. /\ drain[r] \in Requests /\ queue \in Seq(Frames) /\ more \in [Drains -> BOOLEAN]
      /\ HandOK(drain[r]) /\ CountOK(drain[r], Readable) /\ Known(drain[r].held)
      /\ \A f : Has(queue, f) => Known(f)
      /\ declared \in BOOLEAN /\ returned \subseteq Frames /\ receipted \subseteq arrived
      /\ faults \in 0..MaxFaults
  BY Typed, QueueKnown DEF DrainInv, TypeOK
<1>n. /\ drain[r].taken \in Nat /\ drain[r].count \in Nat
      /\ drain[r].taken <= Limit /\ drain[r].count <= Limit /\ Limit \in Nat
  BY <1>0, LimitPositive, SMT DEF Requests
<1>1. CASE Replay(r)
  <2>1. /\ drain[r].pc = "replay"
        /\ UNCHANGED <<declared, arrived, keys, more, receipted, returned, faults>>
    BY <1>1 DEF Replay
  <2>2. CASE drain[r].todo = {}
    <3>1. Become(r, [drain[r] EXCEPT !.pc = "get"]) /\ queue' = queue
      BY <1>1, <2>2 DEF Replay, Become
    <3>2. [drain[r] EXCEPT !.pc = "get"] \in Requests
      BY <1>0, Zenon DEF Requests, Pcs
    <3>3. Turns(r) /\ drain'[r] = [drain[r] EXCEPT !.pc = "get"]
      BY <3>1, <3>2, Becomes
    <3>4. /\ drain'[r].pc = "get" /\ drain'[r].held = drain[r].held
          /\ drain'[r].taken = drain[r].taken /\ drain'[r].count = drain[r].count
          /\ drain'[r].open = drain[r].open
      BY <1>0, <3>3 DEF Requests
    <3>5. HandOK(drain'[r])
      BY <1>0, <2>1, <3>4 DEF HandOK
    <3>6. CountOK(drain'[r], Readable)
      BY <1>0, <1>n, <2>1, <3>4 DEF CountOK
    <3> QED BY <1>0, <2>1, <3>1, <3>3, <3>4, <3>5, <3>6, Turned
  <2>3. ASSUME NEW k \in drain[r].todo,
               Become(r, [drain[r] EXCEPT !.todo = @ \ {k}]),
               queue' = IF drain[r].open THEN Append(queue, k) ELSE queue
        PROVE  Inv'
    <3>1. [drain[r] EXCEPT !.todo = @ \ {k}] \in Requests
      BY <1>0, Zenon DEF Requests
    <3>2. Turns(r) /\ drain'[r] = [drain[r] EXCEPT !.todo = @ \ {k}]
      BY <2>3, <3>1, Becomes
    <3>3. /\ drain'[r].pc = "replay" /\ drain'[r].held = drain[r].held
          /\ drain'[r].taken = drain[r].taken /\ drain'[r].count = drain[r].count
          /\ drain'[r].open = drain[r].open
      BY <1>0, <2>1, <3>2 DEF Requests
    <3>4. HandOK(drain'[r])
      BY <1>0, <2>1, <3>3 DEF HandOK
    <3>5. CountOK(drain'[r], Readable)
      BY <1>0, <1>n, <2>1, <3>3 DEF CountOK
    <3>6. k \in Keys /\ k \in Frames /\ Known(k)
      BY <1>0, InboxAssumption DEF InboxAssumption, Requests, Frames, Known
    <3>7. queue' \in Seq(Frames) /\ \A f : Has(queue', f) => Known(f)
      BY <1>0, <2>3, <3>6, HasAppend
    <3> QED BY <1>0, <2>1, <3>2, <3>3, <3>4, <3>5, <3>7, Turned
  <2> QED BY <1>1, <2>2, <2>3 DEF Replay, Become
<1>2. CASE Get(r)
  <2> DEFINE s == [drain[r] EXCEPT !.pc = "got", !.held = Head(queue), !.taken = @ + 1]
  <2>1. /\ drain[r].pc = "get" /\ drain[r].taken < Limit /\ queue # <<>>
        /\ queue' = Tail(queue) /\ Become(r, s)
        /\ UNCHANGED <<declared, arrived, keys, more, receipted, returned, faults>>
    BY <1>2 DEF Get
  <2>2. /\ Head(queue) \in Frames /\ Known(Head(queue))
        /\ queue' \in Seq(Frames) /\ \A f : Has(queue', f) => Known(f)
    BY <1>0, <2>1, HasTail
  <2>3. drain[r].taken + 1 \in 0..Limit
    BY <1>n, <2>1, SMT
  <2>4. s \in Requests
    BY <1>0, <2>2, <2>3, Zenon DEF Requests, Pcs
  <2>5. Turns(r) /\ drain'[r] = s
    BY <2>1, <2>4, Becomes
  <2>6. /\ drain'[r].pc = "got" /\ drain'[r].held = Head(queue)
        /\ drain'[r].taken = drain[r].taken + 1 /\ drain'[r].count = drain[r].count
        /\ drain'[r].open = drain[r].open
    BY <1>0, <2>5 DEF Requests
  <2>7. HandOK(drain'[r])
    BY <2>2, <2>6, LimitPositive DEF HandOK
  <2>8. CountOK(drain'[r], Readable)
    BY <1>0, <1>n, <2>1, <2>6 DEF CountOK
  <2> QED BY <1>0, <2>1, <2>2, <2>5, <2>6, <2>7, <2>8, Turned
<1>3. CASE DropBroken(r)
  <2> DEFINE s == [drain[r] EXCEPT !.pc = "get", !.held = NoFrame]
  <2>1. /\ drain[r].pc = "got" /\ Broken(drain[r].held) /\ Become(r, s)
        /\ UNCHANGED <<declared, queue, arrived, keys, more, receipted, returned, faults>>
    BY <1>3 DEF DropBroken, broker
  <2>2. s \in Requests
    BY <1>0, Zenon DEF Requests, Pcs
  <2>3. Turns(r) /\ drain'[r] = s
    BY <2>1, <2>2, Becomes
  <2>4. /\ drain'[r].pc = "get" /\ drain'[r].held = NoFrame
        /\ drain'[r].taken = drain[r].taken /\ drain'[r].count = drain[r].count
        /\ drain'[r].open = drain[r].open
    BY <1>0, <2>3 DEF Requests
  <2>5. HandOK(drain'[r]) /\ Known(NoFrame)
    BY <2>4, LimitPositive DEF HandOK, Known, Frames
  <2>6. ~Readable
    BY <1>0, <2>1 DEF Readable, Known, Broken
  <2>7. CountOK(drain'[r], Readable)
    BY <1>0, <1>n, <2>1, <2>4, <2>6 DEF CountOK
  <2> QED BY <1>0, <2>1, <2>3, <2>4, <2>5, <2>7, Turned
<1>4. CASE Include(r)
  <2> DEFINE s == [drain[r] EXCEPT !.pc = "ack", !.count = @ + 1, !.items = @ \cup {drain[r].held}]
  <2>1. /\ drain[r].pc = "got" /\ Become(r, s)
        /\ receipted' \subseteq receipted \cup ({drain[r].held} \cap Msgs)
        /\ UNCHANGED <<declared, queue, arrived, keys, more, returned, faults>>
    BY <1>4 DEF Include, broker, Payload
  <2>2. drain[r].held \in Frames
    BY <1>0, <2>1 DEF HandOK, Requests
  <2>3. drain[r].count + 1 \in 0..Limit
    BY <1>0, <1>n, <2>1, SMT DEF CountOK
  <2>4. s \in Requests
    BY <1>0, <2>2, <2>3, Zenon DEF Requests, Pcs
  <2>5. Turns(r) /\ drain'[r] = s
    BY <2>1, <2>4, Becomes
  <2>6. /\ drain'[r].pc = "ack" /\ drain'[r].held = drain[r].held
        /\ drain'[r].items = drain[r].items \cup {drain[r].held}
        /\ drain'[r].taken = drain[r].taken /\ drain'[r].count = drain[r].count + 1
        /\ drain'[r].open = drain[r].open
    BY <1>0, <2>5 DEF Requests
  <2>7. HandOK(drain'[r])
    BY <2>2, <2>6, LimitPositive DEF HandOK
  <2>8. CountOK(drain'[r], Readable)
    BY <1>0, <1>n, <2>1, <2>6 DEF CountOK
  <2>9. receipted' \subseteq arrived
    BY <1>0, <2>1 DEF Known
  <2> QED BY <1>0, <2>1, <2>5, <2>6, <2>7, <2>8, <2>9, Turned
<1>5. CASE AckFrame(r)
  <2> DEFINE s == [drain[r] EXCEPT !.pc = "get", !.held = NoFrame]
  <2>1. /\ drain[r].pc = "ack" /\ Become(r, s)
        /\ UNCHANGED <<declared, queue, arrived, keys, more, receipted, returned, faults>>
    BY <1>5 DEF AckFrame, broker
  <2>2. s \in Requests
    BY <1>0, Zenon DEF Requests, Pcs
  <2>3. Turns(r) /\ drain'[r] = s
    BY <2>1, <2>2, Becomes
  <2>4. /\ drain'[r].pc = "get" /\ drain'[r].held = NoFrame
        /\ drain'[r].taken = drain[r].taken /\ drain'[r].count = drain[r].count
        /\ drain'[r].open = drain[r].open
    BY <1>0, <2>3 DEF Requests
  <2>5. HandOK(drain'[r]) /\ Known(NoFrame)
    BY <2>4, LimitPositive DEF HandOK, Known, Frames
  <2>6. CountOK(drain'[r], Readable)
    BY <1>0, <1>n, <2>1, <2>4 DEF CountOK
  <2> QED BY <1>0, <2>1, <2>3, <2>4, <2>5, <2>6, Turned
<1>a. ASSUME NEW b \in BOOLEAN, Answer(r, b)
      PROVE  /\ more' \in [Drains -> BOOLEAN] /\ more'[r] = b
             /\ \A e \in Drains \ {r} : more'[e] = more[e]
             /\ returned' \subseteq Frames
  BY <1>0, <1>a DEF Answer, Requests
<1>6. CASE FoundDry(r)
  <2>1. /\ drain[r].pc = "get" /\ Answer(r, FALSE) /\ Become(r, [Idle EXCEPT !.dry = TRUE])
        /\ UNCHANGED <<declared, queue, arrived, keys, receipted, faults>>
    BY <1>6 DEF FoundDry, broker
  <2>2. ~Become(r, Idle)
    BY <2>1, <1>0, Typed DEF Become, Idle, Request
  <2> QED BY <1>0, <1>a, <2>1, <2>2, Ended
<1>7. CASE FullButBroken(r)
  <2>1. /\ drain[r].pc = "get" /\ drain[r].taken = Limit /\ drain[r].count < Limit
        /\ Answer(r, FALSE) /\ Become(r, Idle)
        /\ UNCHANGED <<declared, queue, arrived, keys, receipted, faults>>
    BY <1>7 DEF FullButBroken, broker
  <2>2. ~Readable
    BY <1>0, <1>n, <2>1 DEF CountOK
  <2> QED BY <1>0, <1>a, <2>1, <2>2, Ended
<1>8. CASE Peek(r)
  <2>1. drain[r].pc = "get" /\ UNCHANGED <<declared, arrived, keys, receipted, faults>>
    BY <1>8 DEF Peek
  <2>2. CASE queue = <<>>
    <3>1. Answer(r, FALSE) /\ Become(r, [Idle EXCEPT !.dry = TRUE]) /\ queue' = queue
      BY <1>8, <2>2 DEF Peek
    <3>2. ~Become(r, Idle)
      BY <3>1, <1>0, Typed DEF Become, Idle, Request
    <3> QED BY <1>0, <1>a, <2>1, <3>1, <3>2, Ended
  <2>3. CASE queue # <<>>
    <3> DEFINE s == [drain[r] EXCEPT !.pc = "peeked", !.held = Head(queue)]
    <3>1. Become(r, s) /\ queue' = Tail(queue) /\ UNCHANGED <<more, returned>>
      BY <1>8, <2>3 DEF Peek
    <3>2. /\ Head(queue) \in Frames /\ Known(Head(queue))
          /\ queue' \in Seq(Frames) /\ \A f : Has(queue', f) => Known(f)
      BY <1>0, <2>3, <3>1, HasTail
    <3>3. s \in Requests
      BY <1>0, <3>2, Zenon DEF Requests, Pcs
    <3>4. Turns(r) /\ drain'[r] = s
      BY <3>1, <3>3, Becomes
    <3>5. /\ drain'[r].pc = "peeked" /\ drain'[r].held = Head(queue)
          /\ drain'[r].taken = drain[r].taken /\ drain'[r].count = drain[r].count
          /\ drain'[r].open = drain[r].open
      BY <1>0, <3>4 DEF Requests
    <3>6. HandOK(drain'[r])
      BY <3>2, <3>5, LimitPositive DEF HandOK
    <3>7. CountOK(drain'[r], Readable)
      BY <1>0, <1>n, <2>1, <3>5 DEF CountOK
    <3> QED BY <1>0, <2>1, <3>1, <3>2, <3>4, <3>5, <3>6, <3>7, Turned
  <2> QED BY <2>2, <2>3
<1>9. CASE PutBack(r)
  <2>1. /\ drain[r].pc = "peeked" /\ Answer(r, TRUE) /\ Become(r, Idle)
        /\ queue' = IF drain[r].open THEN <<drain[r].held>> \o queue ELSE queue
        /\ UNCHANGED <<declared, arrived, keys, receipted, faults>>
    BY <1>9 DEF PutBack
  <2>2. drain[r].held \in Frames
    BY <1>0, <2>1 DEF HandOK, Requests
  <2>3. queue' \in Seq(Frames) /\ \A f : Has(queue', f) => Known(f)
    BY <1>0, <2>1, <2>2, HasPutBack
  <2> QED BY <1>0, <1>a, <2>1, <2>3, Ended
<1>10. CASE GetFails(r)
  <2>1. /\ drain[r].pc = "get" /\ Become(r, Idle) /\ more' = [more EXCEPT ![r] = TRUE]
        /\ UNCHANGED <<declared, queue, arrived, keys, receipted, returned, faults>>
    BY <1>10 DEF GetFails, broker
  <2>2. more' \in [Drains -> BOOLEAN] /\ more'[r] /\ \A e \in Drains \ {r} : more'[e] = more[e]
    BY <1>0, <2>1
  <2> QED BY <1>0, <2>1, <2>2, Ended
<1> QED
  BY <1>1, <1>2, <1>3, <1>4, <1>5, <1>6, <1>7, <1>8, <1>9, <1>10 DEF Goes

LEMMA StartInv ==
    ASSUME NEW r \in Drains, Inv, Start(r) \/ StartUnlisted(r)
    PROVE  Inv'
<1>1. PICK rows \in SUBSET Keys :
         /\ Become(r, Request("replay", rows)) /\ declared' = TRUE
         /\ UNCHANGED <<queue, arrived, keys, more, receipted, returned>>
         /\ faults' \in 0..MaxFaults
  <2>1. stored \in SUBSET Keys /\ faults \in 0..MaxFaults /\ MaxFaults \in Nat
    BY InboxAssumption DEF InboxAssumption, Inv, TypeOK
  <2>2. CASE Start(r)
    BY <2>1, <2>2 DEF Start
  <2>3. CASE StartUnlisted(r)
    <3>1. faults < MaxFaults /\ faults' = faults + 1
      BY <2>3 DEF StartUnlisted
    <3>2. faults' \in 0..MaxFaults
      BY <2>1, <3>1, SMT
    <3> QED BY <2>3, <3>2 DEF StartUnlisted
  <2> QED BY <2>2, <2>3
<1> DEFINE s == Request("replay", rows)
<1>2. "replay" \in Pcs
  BY DEF Pcs
<1>3. s \in Requests /\ HandOK(s)
  BY <1>2, Begins
<1>4. Turns(r) /\ drain'[r] = s
  BY <1>1, <1>3, Becomes DEF Inv
<1>5. s.pc = "replay" /\ s.held = NoFrame
  BY DEF Request
<1>6. CountOK(s, Readable) /\ Known(NoFrame)
  BY LimitPositive DEF CountOK, Request, Known, Frames
<1>7. /\ queue \in Seq(Frames) /\ \A f : Has(queue, f) => Known(f)
      /\ more \in [Drains -> BOOLEAN] /\ returned \subseteq Frames /\ receipted \subseteq arrived
  BY QueueKnown DEF Inv, TypeOK
<1> HIDE DEF s
<1> QED BY <1>1, <1>3, <1>4, <1>5, <1>6, <1>7, Turned

LEMMA BreaksInv ==
    ASSUME NEW r \in Drains, Inv, ChannelBreaks(r)
    PROVE  Inv'
<1>0. /\ drain[r] \in Requests /\ queue \in Seq(Frames) /\ more \in [Drains -> BOOLEAN]
      /\ HandOK(drain[r]) /\ CountOK(drain[r], Readable) /\ Known(drain[r].held)
      /\ \A f : Has(queue, f) => Known(f)
      /\ declared \in BOOLEAN /\ returned \subseteq Frames /\ receipted \subseteq arrived
      /\ faults \in 0..MaxFaults /\ MaxFaults \in Nat
  BY Typed, QueueKnown, InboxAssumption DEF InboxAssumption, Inv, DrainInv, TypeOK
<1>1. /\ faults < MaxFaults /\ drain[r].pc # "idle" /\ faults' = faults + 1
      /\ queue' = IF drain[r].held # NoFrame THEN <<drain[r].held>> \o queue ELSE queue
      /\ Become(r, [drain[r] EXCEPT !.open = FALSE])
      /\ UNCHANGED <<declared, arrived, keys, more, receipted, returned>>
  BY DEF ChannelBreaks, Become
<1>2. faults' \in 0..MaxFaults /\ faults' # 0
  BY <1>0, <1>1, SMT
<1>3. [drain[r] EXCEPT !.open = FALSE] \in Requests
  BY <1>0, Zenon DEF Requests
<1>4. Turns(r) /\ drain'[r] = [drain[r] EXCEPT !.open = FALSE]
  BY <1>1, <1>3, Becomes DEF Inv
<1>5. /\ drain'[r].pc = drain[r].pc /\ drain'[r].held = drain[r].held
      /\ drain'[r].items = drain[r].items
      /\ drain'[r].taken = drain[r].taken /\ drain'[r].count = drain[r].count
  BY <1>0, <1>4 DEF Requests
<1>6. HandOK(drain'[r]) /\ CountOK(drain'[r], Readable)
  BY <1>0, <1>5 DEF HandOK, CountOK
<1>7. queue' \in Seq(Frames) /\ \A f : Has(queue', f) => Known(f)
  <2>1. CASE drain[r].held # NoFrame
    <3>1. drain[r].held \in Frames
      BY <1>0, <2>1 DEF Requests
    <3> QED BY <1>0, <1>1, <2>1, <3>1, HasPutBack
  <2>2. CASE drain[r].held = NoFrame
    BY <1>0, <1>1, <2>2
  <2> QED BY <2>1, <2>2
<1> QED BY <1>0, <1>1, <1>2, <1>4, <1>5, <1>6, <1>7, Turned

\* Steps of those that publish to the device.
LEMMA PublishedInv ==
    ASSUME Inv, UNCHANGED <<declared, drain, more, receipted, returned>>,
           arrived \subseteq arrived', arrived' \subseteq Msgs,
           queue' \in Seq(Frames), \A f : Has(queue', f) => Has(queue, f) \/ f \in arrived' \cup Keys,
           forwarded' \subseteq sent', stored' \subseteq sent', sent' \subseteq Keys,
           faults' \in 0..MaxFaults
    PROVE  Inv'
<1> USE DEF Inv
<1>1. Readable' => Readable
  BY DEF Readable
<1>2. \A f : Known(f) => Known(f)'
  BY DEF Known
<1>3. \A e \in Drains : CountOK(drain[e], Readable')
  BY <1>1 DEF DrainInv, CountOK
<1>4. \A i \in DOMAIN queue' : queue'[i] \in Msgs => queue'[i] \in arrived'
  <2> SUFFICES ASSUME NEW i \in DOMAIN queue', queue'[i] \in Msgs
               PROVE  queue'[i] \in arrived'
    OBVIOUS
  <2>1. Has(queue, queue'[i]) \/ queue'[i] \in arrived' \cup Keys
    BY DEF Has
  <2>2. CASE Has(queue, queue'[i])
    BY <2>2, QueueKnown DEF Known
  <2>3. CASE queue'[i] \in arrived' \cup Keys
    BY <2>3, InboxAssumption DEF InboxAssumption
  <2> QED BY <2>1, <2>2, <2>3
<1>5. DrainInv'
  BY <1>2, <1>3, <1>4 DEF DrainInv, Known
<1>6. TypeOK'
  BY DEF TypeOK
<1>7. NoMoreMeansEmpty'
  BY <1>1 DEF NoMoreMeansEmpty, Readable
<1> QED BY <1>5, <1>6, <1>7

LEMMA PublishersInv ==
    ASSUME Inv,
           \/ \E m \in Msgs : Arrive(m)
           \/ \E k \in Keys : ForwardKey(k) \/ StoreKey(k) \/ StoreKeyFails(k)
           \/ Expire
    PROVE  Inv'
<1>0. /\ queue \in Seq(Frames) /\ arrived \subseteq Msgs
      /\ forwarded \subseteq sent /\ stored \subseteq sent /\ sent \subseteq Keys
      /\ faults \in 0..MaxFaults /\ MaxFaults \in Nat
  BY InboxAssumption DEF InboxAssumption, Inv, TypeOK
<1>1. ASSUME NEW m \in Msgs, Arrive(m)
      PROVE  Inv'
  <2>1. /\ arrived' = arrived \cup {m} /\ queue' = IF declared THEN Append(queue, m) ELSE queue
        /\ UNCHANGED <<declared, forwarded, sent, stored, drain, more, receipted, returned, faults>>
    BY <1>1 DEF Arrive, keys
  <2>2. m \in Frames
    BY DEF Frames
  <2>3. queue' \in Seq(Frames) /\ \A f : Has(queue', f) => Has(queue, f) \/ f \in arrived' \cup Keys
    BY <1>0, <2>1, <2>2, HasAppend
  <2> QED BY <1>0, <2>1, <2>3, PublishedInv
<1>2. ASSUME NEW k \in Keys, ForwardKey(k)
      PROVE  Inv'
  <2>1. /\ sent' = sent \cup {k} /\ forwarded' = forwarded \cup {k}
        /\ queue' = IF declared THEN Append(queue, k) ELSE queue
        /\ UNCHANGED <<declared, arrived, stored, drain, more, receipted, returned, faults>>
    BY <1>2 DEF ForwardKey
  <2>2. k \in Frames
    BY DEF Frames
  <2>3. queue' \in Seq(Frames) /\ \A f : Has(queue', f) => Has(queue, f) \/ f \in arrived' \cup Keys
    BY <1>0, <2>1, <2>2, HasAppend
  <2> QED BY <1>0, <2>1, <2>3, PublishedInv
<1>3. ASSUME NEW k \in Keys, StoreKey(k)
      PROVE  Inv'
  <2>1. /\ k \in forwarded /\ forwarded' = forwarded \ {k} /\ stored' = stored \cup {k}
        /\ UNCHANGED <<declared, queue, arrived, sent, drain, more, receipted, returned, faults>>
    BY <1>3 DEF StoreKey, broker
  <2> QED BY <1>0, <2>1, PublishedInv
<1>4. ASSUME NEW k \in Keys, StoreKeyFails(k)
      PROVE  Inv'
  <2>1. /\ forwarded' = forwarded \ {k} /\ faults < MaxFaults /\ faults' = faults + 1
        /\ UNCHANGED <<declared, queue, arrived, sent, stored, drain, more, receipted, returned>>
    BY <1>4 DEF StoreKeyFails, broker
  <2>2. faults' \in 0..MaxFaults /\ faults' # 0
    BY <1>0, <2>1, SMT
  <2> QED BY <1>0, <2>1, <2>2, PublishedInv
<1>5. CASE Expire
  <2>1. /\ queue # <<>> /\ queue' = Tail(queue)
        /\ UNCHANGED <<declared, arrived, forwarded, sent, stored, drain, more, receipted, returned,
                       faults>>
    BY <1>5 DEF Expire, keys
  <2>2. queue' \in Seq(Frames) /\ \A f : Has(queue', f) => Has(queue, f)
    BY <1>0, <2>1, HasTail
  <2> QED BY <1>0, <2>1, <2>2, PublishedInv
<1> QED BY <1>1, <1>2, <1>3, <1>4, <1>5

LEMMA InitInv ==
    ASSUME Init
    PROVE  Inv
<1>1. {} \in SUBSET Keys /\ "idle" \in Pcs
  BY DEF Pcs
<1>2. Idle \in Requests /\ HandOK(Idle)
  BY <1>1, Begins DEF Idle
<1>3. /\ Idle.taken = 0 /\ Idle.count = 0 /\ Idle.held = NoFrame /\ Idle.open
      /\ Idle.pc = "idle"
  BY DEF Idle, Request
<1>4. \A r \in Drains : drain[r] = Idle
  BY DEF Init
<1>5. \A r \in Drains : CountOK(drain[r], Readable) /\ drain[r].count <= drain[r].taken
  BY <1>3, <1>4 DEF CountOK
<1>6. Known(NoFrame)
  BY LimitPositive DEF Known, Frames
<1>7. DrainInv
  BY <1>2, <1>3, <1>4, <1>5, <1>6 DEF DrainInv, Init
<1>8. 0 \in 0..MaxFaults
  BY InboxAssumption, SMT DEF InboxAssumption
<1>9. TypeOK
  <2>1. drain \in [Drains -> Requests]
    BY <1>2 DEF Init
  <2>2. more \in [Drains -> BOOLEAN] /\ queue \in Seq(Frames)
    BY DEF Init
  <2> QED BY <1>5, <1>8, <2>1, <2>2, Zenon DEF TypeOK, Init, Requests, Pcs
<1>10. NoMoreMeansEmpty
  BY DEF NoMoreMeansEmpty, Init
<1> QED BY <1>7, <1>9, <1>10 DEF Inv

LEMMA NextInv ==
    ASSUME Inv, [Next]_vars
    PROVE  Inv'
<1>1. CASE UNCHANGED vars
  BY <1>1 DEF vars, broker, keys, Inv, TypeOK, DrainInv, NoMoreMeansEmpty, Readable, Known
<1> QED BY <1>1, GoesInv, StartInv, BreaksInv, PublishersInv DEF Next

LEMMA Reachable == Spec => []Inv
BY InitInv, NextInv, PTL DEF Spec

-----------------------------------------------------------------------------
(* Where a frame goes.                                                     *)

\* Nothing is taken out of the queue, of a hand or of an answer.
Keeps ==
    /\ \A f \in Frames : Has(queue, f) => Has(queue', f)
    /\ UNCHANGED <<drain, returned>>

LEMMA KeepsKept ==
    ASSUME Keeps
    PROVE  \A f \in Frames : Kept(f) => Kept(f)'
BY DEF Keeps, Kept, InQueue, Has, Held, Listed

\* f: a frame that is not lost when it was with r.
LEMMA TurnKept ==
    ASSUME NEW r \in Drains, NEW f \in Frames, Turns(r), Kept(f), returned \subseteq returned',
           \/ ~Has(queue, f) \/ Has(queue', f)
           \/ Hand(drain'[r], f) \/ f \in drain'[r].items \/ f \in returned',
           \/ ~Hand(drain[r], f) \/ Has(queue', f)
           \/ Hand(drain'[r], f) \/ f \in drain'[r].items \/ f \in returned',
           \/ f \notin drain[r].items \/ f \in drain'[r].items \/ f \in returned'
    PROVE  Kept(f)'
<1>1. CASE Has(queue', f) \/ Hand(drain'[r], f) \/ f \in drain'[r].items \/ f \in returned'
  BY <1>1 DEF Kept, InQueue, Has, Held, Listed
<1>2. CASE ~Has(queue, f) /\ ~Hand(drain[r], f) /\ f \notin drain[r].items /\ f \notin returned
  <2>1. PICK e \in Drains : Hand(drain[e], f) \/ f \in drain[e].items
    BY <1>2 DEF Kept, InQueue, Has, Held, Listed
  <2>2. drain'[e] = drain[e]
    BY <1>2, <2>1 DEF Turns
  <2> QED BY <2>1, <2>2 DEF Kept, Held, Listed
<1> QED BY <1>1, <1>2

\* What an answer holds has been returned; nothing was in hand.
LEMMA AnswerKept ==
    ASSUME NEW r \in Drains, NEW f \in Frames, Inv, Kept(f),
           Become(r, Idle) \/ Become(r, [Idle EXCEPT !.dry = TRUE]),
           returned' = returned \cup drain[r].items,
           Has(queue, f) \/ Hand(drain[r], f) => Has(queue', f)
    PROVE  Kept(f)'
<1>1. {} \in SUBSET Keys /\ "idle" \in Pcs
  BY DEF Pcs
<1>2. Idle \in Requests /\ [Idle EXCEPT !.dry = TRUE] \in Requests
  BY <1>1, Begins DEF Idle
<1>3. Turns(r)
  BY <1>2, Becomes DEF Inv
<1> QED BY <1>3, TurnKept

LEMMA GoesKept ==
    ASSUME NEW r \in Drains, NEW f \in Frames, Inv, Goes(r), Kept(f), ~Broken(f)
    PROVE  Kept(f)' \/ FailsWith(f)
<1> USE DEF Inv
<1>0. /\ drain[r] \in Requests /\ queue \in Seq(Frames) /\ HandOK(drain[r])
      /\ f # NoFrame
  BY Typed, LimitPositive DEF DrainInv
<1> USE DEF Hand
<1>1. CASE Replay(r)
  <2>1. Has(queue, f) => Has(queue', f)
    <3>1. CASE drain[r].todo = {}
      BY <1>1, <3>1 DEF Replay
    <3>2. CASE drain[r].todo # {}
      <4>1. PICK k \in drain[r].todo : queue' = IF drain[r].open THEN Append(queue, k) ELSE queue
        BY <1>0, <1>1, <3>2 DEF Replay
      <4>2. k \in Frames
        BY <1>0 DEF Requests, Frames
      <4> QED BY <1>0, <4>1, <4>2, HasAppend
    <3> QED BY <3>1, <3>2
  <2>2. /\ drain' \in [Drains -> Requests] /\ \A e \in Drains \ {r} : drain'[e] = drain[e]
        /\ drain'[r].held = drain[r].held /\ drain'[r].items = drain[r].items
        /\ drain'[r].open = drain[r].open
    <3>1. ASSUME NEW s \in Requests, Become(r, s), s.held = drain[r].held,
                 s.items = drain[r].items, s.open = drain[r].open
          PROVE  /\ Turns(r)
                 /\ drain'[r].held = drain[r].held /\ drain'[r].items = drain[r].items
                 /\ drain'[r].open = drain[r].open
      BY <3>1, Becomes
    <3>2. CASE drain[r].todo = {}
      <4> DEFINE s == [drain[r] EXCEPT !.pc = "get"]
      <4>1. Become(r, s)
        BY <1>1, <3>2 DEF Replay, Become
      <4>2. s \in Requests
        BY <1>0, Zenon DEF Requests, Pcs
      <4>3. s.held = drain[r].held /\ s.items = drain[r].items /\ s.open = drain[r].open
        BY <1>0 DEF Requests
      <4> QED BY <3>1, <4>1, <4>2, <4>3 DEF Turns
    <3>3. CASE drain[r].todo # {}
      <4>1. PICK k \in drain[r].todo : Become(r, [drain[r] EXCEPT !.todo = @ \ {k}])
        BY <1>1, <3>3 DEF Replay, Become
      <4> DEFINE s == [drain[r] EXCEPT !.todo = @ \ {k}]
      <4>2. s \in Requests
        BY <1>0, Zenon DEF Requests
      <4>3. s.held = drain[r].held /\ s.items = drain[r].items /\ s.open = drain[r].open
        BY <1>0 DEF Requests
      <4> QED BY <3>1, <4>1, <4>2, <4>3 DEF Turns
    <3> QED BY <3>2, <3>3
  <2>3. returned' = returned
    BY <1>1 DEF Replay
  <2> QED BY <2>1, <2>2, <2>3, TurnKept DEF Turns
<1>2. ASSUME drain[r].pc = "get", drain[r].open, queue # <<>>, queue' = Tail(queue),
             returned' = returned,
             NEW s \in Requests, Become(r, s), s.held = Head(queue), s.items = drain[r].items,
             s.open = drain[r].open
      PROVE  Kept(f)'
  <2>1. Turns(r) /\ drain'[r] = s
    BY <1>2, Becomes
  <2>2. drain[r].held = NoFrame
    BY <1>0, <1>2 DEF HandOK
  <2>3. Has(queue, f) => Has(queue', f) \/ f = Head(queue)
    BY <1>0, <1>2, HasTail
  <2> QED BY <1>0, <1>2, <2>1, <2>2, <2>3, TurnKept
<1>3. CASE Get(r)
  <2> DEFINE s == [drain[r] EXCEPT !.pc = "got", !.held = Head(queue), !.taken = @ + 1]
  <2>1. /\ drain[r].pc = "get" /\ drain[r].open /\ drain[r].taken < Limit /\ queue # <<>>
        /\ queue' = Tail(queue) /\ Become(r, s) /\ returned' = returned
    BY <1>3 DEF Get
  <2>2. Head(queue) \in Frames
    BY <1>0, <2>1, HasTail
  <2>3. drain[r].taken + 1 \in 0..Limit
    BY <1>0, <2>1, LimitPositive, SMT DEF Requests
  <2>4. s \in Requests
    BY <1>0, <2>2, <2>3, Zenon DEF Requests, Pcs
  <2>5. s.held = Head(queue) /\ s.items = drain[r].items /\ s.open = drain[r].open
    BY <1>0 DEF Requests
  <2> QED BY <1>0, <1>2, <2>1, <2>4, <2>5
<1>4. ASSUME NEW s \in Requests, Become(r, s), queue' = queue, returned' = returned,
             drain[r].items \subseteq s.items,
             drain[r].held = f => f \in s.items
      PROVE  Kept(f)'
  BY <1>4, Becomes, TurnKept
<1>5. CASE DropBroken(r)
  <2> DEFINE s == [drain[r] EXCEPT !.pc = "get", !.held = NoFrame]
  <2>1. Become(r, s) /\ queue' = queue /\ returned' = returned /\ drain[r].held # f
    BY <1>5 DEF DropBroken, broker
  <2>2. s \in Requests
    BY <1>0, Zenon DEF Requests, Pcs
  <2>3. s.items = drain[r].items
    BY <1>0 DEF Requests
  <2> QED BY <1>4, <2>1, <2>2, <2>3
<1>6. CASE Include(r)
  <2> DEFINE s == [drain[r] EXCEPT !.pc = "ack", !.count = @ + 1, !.items = @ \cup {drain[r].held}]
  <2>1. drain[r].pc = "got" /\ Become(r, s) /\ queue' = queue /\ returned' = returned
    BY <1>6 DEF Include, broker
  <2>2. drain[r].held \in Frames
    BY <1>0, <2>1 DEF HandOK, Requests
  <2>3. drain[r].count + 1 \in 0..Limit
    BY <1>0, <2>1, LimitPositive, SMT DEF CountOK, Requests, DrainInv
  <2>4. s \in Requests
    BY <1>0, <2>2, <2>3, Zenon DEF Requests, Pcs
  <2>5. s.items = drain[r].items \cup {drain[r].held}
    BY <1>0 DEF Requests
  <2> QED BY <1>4, <2>1, <2>4, <2>5
<1>7. CASE AckFrame(r)
  <2> DEFINE s == [drain[r] EXCEPT !.pc = "get", !.held = NoFrame]
  <2>1. drain[r].pc = "ack" /\ Become(r, s) /\ queue' = queue /\ returned' = returned
    BY <1>7 DEF AckFrame, broker
  <2>2. s \in Requests
    BY <1>0, Zenon DEF Requests, Pcs
  <2>3. s.items = drain[r].items
    BY <1>0 DEF Requests
  <2>4. drain[r].held \in drain[r].items
    BY <1>0, <2>1 DEF HandOK
  <2> QED BY <1>4, <2>1, <2>2, <2>3, <2>4
<1>8. CASE FoundDry(r) \/ FullButBroken(r)
  <2>1. drain[r].pc = "get" /\ queue' = queue /\ returned' = returned \cup drain[r].items
        /\ (Become(r, Idle) \/ Become(r, [Idle EXCEPT !.dry = TRUE]))
    BY <1>8 DEF FoundDry, FullButBroken, broker, Answer
  <2>2. drain[r].held # f
    BY <1>0, <2>1 DEF HandOK
  <2> QED BY <2>1, <2>2, AnswerKept
<1>9. CASE Peek(r)
  <2>1. drain[r].pc = "get" /\ drain[r].open
    BY <1>9 DEF Peek
  <2>2. CASE queue = <<>>
    <3>1. /\ queue' = queue /\ returned' = returned \cup drain[r].items
          /\ Become(r, [Idle EXCEPT !.dry = TRUE])
      BY <1>9, <2>2 DEF Peek, Answer
    <3>2. drain[r].held # f
      BY <1>0, <2>1 DEF HandOK
    <3> QED BY <3>1, <3>2, AnswerKept
  <2>3. CASE queue # <<>>
    <3> DEFINE s == [drain[r] EXCEPT !.pc = "peeked", !.held = Head(queue)]
    <3>1. Become(r, s) /\ queue' = Tail(queue) /\ returned' = returned
      BY <1>9, <2>3 DEF Peek
    <3>2. Head(queue) \in Frames
      BY <1>0, <2>3, HasTail
    <3>3. s \in Requests
      BY <1>0, <3>2, Zenon DEF Requests, Pcs
    <3>4. s.held = Head(queue) /\ s.items = drain[r].items /\ s.open = drain[r].open
      BY <1>0 DEF Requests
    <3> QED BY <1>0, <1>2, <2>1, <2>3, <3>1, <3>3, <3>4
  <2> QED BY <2>2, <2>3
<1>10. CASE PutBack(r)
  <2>1. /\ drain[r].pc = "peeked" /\ returned' = returned \cup drain[r].items /\ Become(r, Idle)
        /\ queue' = IF drain[r].open THEN <<drain[r].held>> \o queue ELSE queue
    BY <1>0, <1>10 DEF PutBack, Answer
  <2>2. drain[r].held \in Frames
    BY <1>0, <2>1 DEF HandOK, Requests
  <2>3. Has(queue, f) \/ Hand(drain[r], f) => Has(queue', f)
    BY <1>0, <2>1, <2>2, HasPutBack
  <2> QED BY <2>1, <2>3, AnswerKept
\* What was in the response of this request is lost, and nothing else.
<1>11. CASE GetFails(r)
  <2>1. /\ drain[r].pc = "get" /\ ~drain[r].open /\ Become(r, Idle)
        /\ queue' = queue /\ returned' = returned
    BY <1>11 DEF GetFails, broker
  <2>2. {} \in SUBSET Keys /\ "idle" \in Pcs
    BY DEF Pcs
  <2>3. Turns(r) /\ drain'[r] = Idle
    BY <2>1, <2>2, Begins, Becomes DEF Idle
  <2>4. CASE f \in drain[r].items
    BY <2>1, <2>3, <2>4 DEF FailsWith, Idle, Request
  <2>5. CASE f \notin drain[r].items
    BY <2>1, <2>3, <2>5, TurnKept
  <2> QED BY <2>4, <2>5
<1> QED
  BY <1>1, <1>3, <1>5, <1>6, <1>7, <1>8, <1>9, <1>10, <1>11 DEF Goes

\* A broken channel gives back what was in the hand of its request.
LEMMA BreaksKept ==
    ASSUME NEW r \in Drains, NEW f \in Frames, Inv, ChannelBreaks(r), Kept(f)
    PROVE  Kept(f)'
<1>0. drain[r] \in Requests /\ queue \in Seq(Frames) /\ f # NoFrame
  BY Typed, LimitPositive DEF Inv
<1>1. /\ queue' = IF drain[r].held # NoFrame THEN <<drain[r].held>> \o queue ELSE queue
      /\ Become(r, [drain[r] EXCEPT !.open = FALSE]) /\ returned' = returned
  BY DEF ChannelBreaks, Become
<1>2. [drain[r] EXCEPT !.open = FALSE] \in Requests
  BY <1>0, Zenon DEF Requests
<1>3. Turns(r) /\ drain'[r].items = drain[r].items
  BY <1>0, <1>1, <1>2, Becomes DEF Inv, Requests
<1>4. Has(queue, f) \/ drain[r].held = f => Has(queue', f)
  <2>1. CASE drain[r].held # NoFrame
    <3>1. drain[r].held \in Frames
      BY <1>0, <2>1 DEF Requests
    <3> QED BY <1>0, <1>1, <2>1, <3>1, HasPutBack
  <2>2. CASE drain[r].held = NoFrame
    BY <1>0, <1>1, <2>2
  <2> QED BY <2>1, <2>2
<1> QED BY <1>1, <1>3, <1>4, TurnKept DEF Hand

LEMMA NextKept ==
    ASSUME Inv, [Next]_vars, NEW f \in Frames, Kept(f), ~Broken(f)
    PROVE  Kept(f)' \/ FailsWith(f) \/ (Expire /\ f = Head(queue))
<1>0. queue \in Seq(Frames)
  BY DEF Inv, TypeOK
<1>1. ASSUME NEW r \in Drains, Goes(r)
      PROVE  Kept(f)' \/ FailsWith(f)
  BY <1>1, GoesKept
<1>2. ASSUME NEW r \in Drains, Start(r) \/ StartUnlisted(r)
      PROVE  Kept(f)'
  <2>1. {} \in SUBSET Keys /\ stored \in SUBSET Keys /\ "replay" \in Pcs
    BY DEF Inv, TypeOK, Pcs
  <2>2. Turns(r)
    BY <1>2, <2>1, Begins, Becomes DEF Start, StartUnlisted, Inv
  <2>3. drain[r].items = {} /\ drain[r].held = NoFrame
    BY <1>2 DEF Start, StartUnlisted, Inv, DrainInv, HandOK
  <2>4. queue' = queue /\ returned' = returned
    BY <1>2 DEF Start, StartUnlisted
  <2> QED BY <2>2, <2>3, <2>4, LimitPositive, TurnKept DEF Hand
<1>3. ASSUME NEW r \in Drains, ChannelBreaks(r)
      PROVE  Kept(f)'
  BY <1>3, BreaksKept
<1>8. CASE Expire
  <2>1. queue # <<>> /\ queue' = Tail(queue) /\ UNCHANGED <<drain, returned>>
    BY <1>8 DEF Expire
  <2>2. f # Head(queue) => (Has(queue, f) => Has(queue', f))
    BY <1>0, <2>1, HasTail
  <2> QED BY <1>8, <2>1, <2>2 DEF Kept, InQueue, Has, Held, Listed
<1>4. ASSUME NEW m \in Msgs, Arrive(m)
      PROVE  Kept(f)'
  <2>1. m \in Frames
    BY DEF Frames
  <2>2. Keeps
    BY <1>0, <1>4, <2>1, HasAppend DEF Arrive, Keeps
  <2> QED BY <2>2, KeepsKept
<1>5. ASSUME NEW k \in Keys, ForwardKey(k)
      PROVE  Kept(f)'
  <2>1. k \in Frames
    BY DEF Frames
  <2>2. Keeps
    BY <1>0, <1>5, <2>1, HasAppend DEF ForwardKey, Keeps
  <2> QED BY <2>2, KeepsKept
<1>6. ASSUME NEW k \in Keys, StoreKey(k) \/ StoreKeyFails(k)
      PROVE  Kept(f)'
  <2>1. Keeps
    BY <1>6 DEF StoreKey, StoreKeyFails, broker, Keeps
  <2> QED BY <2>1, KeepsKept
<1>7. CASE UNCHANGED vars
  <2>1. Keeps
    BY <1>7 DEF vars, broker, Keeps
  <2> QED BY <2>1, KeepsKept
<1> QED BY <1>1, <1>2, <1>3, <1>4, <1>5, <1>6, <1>7, <1>8 DEF Next

-----------------------------------------------------------------------------
\* The variables keep their types: a request never takes more than its limit,
\* and a message is reported DELIVERED only when it arrived (DrainInbox).
THEOREM InboxTypeCorrect == Spec => []TypeOK
<1>1. Inv => TypeOK
  BY DEF Inv
<1> QED BY <1>1, Reachable, PTL

\* has_more = false, when every frame can be read, is the answer of a request
\* that found the queue empty.
THEOREM EmptyWhenNoMore == Spec => []NoMoreMeansEmpty
<1>1. Inv => NoMoreMeansEmpty
  BY DEF Inv
<1> QED BY <1>1, Reachable, PTL

\* However requests for the inbox overlap and channels break, a frame that can
\* be read stays in the queue, in the hand of a request or in a response, until
\* its time in the queue ends or a request fails after it has acked it.
THEOREM FramesNotDropped == Spec => NothingDropped
<1>1. Inv /\ [Next]_vars =>
        [\A f \in Frames : Kept(f) /\ ~Broken(f) =>
            Kept(f)' \/ FailsWith(f) \/ (Expire /\ f = Head(queue))]_vars
  BY NextKept
<1> QED BY <1>1, Reachable, PTL DEF Spec, NothingDropped
=============================================================================
