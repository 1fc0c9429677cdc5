------------------------------- MODULE Inbox -------------------------------
(***************************************************************************)
(* The REST inbox of one device (message_service.go, DrainInbox) and the   *)
(* sender keys of groups it replays (handleGroupKeyDistribution and the    *)
(* table of sender_key_distribution_repository.go).                        *)
(*                                                                         *)
(* The device's queue is a sequence of frames: a message of Msgs or the    *)
(* stored key of a row of Keys.  The broker is external: one call is one   *)
(* step, a frame given back returns to the head of the queue, what is      *)
(* published to a queue that does not exist is gone, and a frame at the    *)
(* head may reach the end of the queue's time to live.                     *)
(***************************************************************************)
EXTENDS Naturals, Sequences, FiniteSets

CONSTANTS Msgs, Kind,   \* Kind[m]: "payload", "other" or "broken"
          Keys,         \* (sender user, sender device, group) of the user's keys
          Drains,       \* goroutines of GET /inbox requests of the device
          Asking,       \* those whose client asks again, sooner or later
          NoFrame,
          Limit,        \* limit of a request
          Perishable,   \* bound: frames whose time to live may end
          MaxFaults     \* bound: channels the broker breaks and statements on
                        \* the key table that fail

ASSUME InboxAssumption ==
    /\ Kind \in [Msgs -> {"payload", "other", "broken"}]
    /\ Msgs \cap Keys = {} /\ NoFrame \notin Msgs \cup Keys
    /\ Asking \subseteq Drains /\ Perishable \subseteq Msgs \cup Keys
    /\ Limit \in Nat \ {0} /\ MaxFaults \in Nat

Frames == Msgs \cup Keys
Broken(f) == f \in Msgs /\ Kind[f] = "broken"
Payload(f) == f \in Msgs /\ Kind[f] = "payload"

VARIABLES
    declared,   \* the device's queue exists
    queue,      \* what waits in it
    arrived,    \* messages that were published
    forwarded,  \* keys published and not yet stored: handleGroupKeyDistribution
    sent,       \* keys that were sent
    stored,     \* rows of the key table
    drain,      \* what each request does
    more,       \* more[r]: the last answer of r does not say it is the last
    receipted,  \* messages whose sender was told they are delivered
    returned,   \* frames that were in an answer (history)
    faults

broker == <<declared, queue, arrived>>
keys == <<forwarded, sent, stored>>
vars == <<broker, keys, drain, more, receipted, returned, faults>>

\* todo: rows to replay; taken: the loop's i; count, items: the response so
\* far; held: the delivery in hand; open: the channel works; dry: the queue
\* was found empty.
Request(pc, todo) ==
    [pc |-> pc, todo |-> todo, taken |-> 0, count |-> 0, items |-> {},
     held |-> NoFrame, open |-> TRUE, dry |-> FALSE]
Idle == Request("idle", {})

Become(r, new) == drain' = [drain EXCEPT ![r] = new]
InQueue(f) == \E i \in DOMAIN queue : queue[i] = f

-----------------------------------------------------------------------------
(* What others publish to the user.                                        *)

Arrive(m) ==
    /\ m \notin arrived
    /\ arrived' = arrived \cup {m}
    /\ queue' = IF declared THEN Append(queue, m) ELSE queue
    /\ UNCHANGED <<declared, keys, drain, more, receipted, returned, faults>>

\* handleGroupKeyDistribution publishes the key to the user's queues ...
ForwardKey(k) ==
    /\ k \notin sent
    /\ sent' = sent \cup {k} /\ forwarded' = forwarded \cup {k}
    /\ queue' = IF declared THEN Append(queue, k) ELSE queue
    /\ UNCHANGED <<declared, arrived, stored, drain, more, receipted, returned, faults>>

\* ... and then stores it.
StoreKey(k) ==
    /\ k \in forwarded
    /\ forwarded' = forwarded \ {k}
    /\ stored' = stored \cup {k}
    /\ UNCHANGED <<broker, sent, drain, more, receipted, returned, faults>>

\* x-message-ttl (topology.go:74): the broker drops the oldest frame.
Expire ==
    /\ queue # <<>> /\ Head(queue) \in Perishable
    /\ queue' = Tail(queue)
    /\ UNCHANGED <<declared, arrived, keys, drain, more, receipted, returned, faults>>

\* A failed Upsert is logged.
StoreKeyFails(k) ==
    /\ faults < MaxFaults /\ k \in forwarded
    /\ forwarded' = forwarded \ {k} /\ faults' = faults + 1
    /\ UNCHANGED <<broker, sent, stored, drain, more, receipted, returned>>

-----------------------------------------------------------------------------
(* DrainInbox.                                                             *)

\* (mutant) the stored keys are replayed when the queue is new, and not later
StartReplaysOnce(r) ==
    /\ drain[r].pc = "idle"
    /\ declared' = TRUE
    /\ Become(r, Request("replay", IF declared THEN {} ELSE stored))
    /\ UNCHANGED <<queue, arrived, keys, more, receipted, returned, faults>>

\* ProvisionDeviceQueue, the channel, and the rows of the user.
Start(r) ==
    /\ drain[r].pc = "idle"
    /\ declared' = TRUE
    /\ Become(r, Request("replay", stored))
    /\ UNCHANGED <<queue, arrived, keys, more, receipted, returned, faults>>

\* The rows cannot be listed, which is logged: nothing is replayed.
StartUnlisted(r) ==
    /\ faults < MaxFaults /\ drain[r].pc = "idle"
    /\ faults' = faults + 1 /\ declared' = TRUE
    /\ Become(r, Request("replay", {}))
    /\ UNCHANGED <<queue, arrived, keys, more, receipted, returned>>

\* republishStoredSKDMs, one row after the other; a failure is logged.
Replay(r) ==
    /\ drain[r].pc = "replay"
    /\ IF drain[r].todo = {}
       THEN /\ drain' = [drain EXCEPT ![r].pc = "get"]
            /\ UNCHANGED queue
       ELSE \E k \in drain[r].todo :
            /\ drain' = [drain EXCEPT ![r].todo = @ \ {k}]
            /\ queue' = IF drain[r].open THEN Append(queue, k) ELSE queue
    /\ UNCHANGED <<declared, arrived, keys, more, receipted, returned, faults>>

\* (mutant) the loop takes one frame too many
GetOneMore(r) ==
    LET d == drain[r] IN
    /\ d.pc = "get" /\ d.open /\ d.taken <= Limit /\ queue # <<>>
    /\ queue' = Tail(queue)
    /\ Become(r, [d EXCEPT !.pc = "got", !.held = Head(queue), !.taken = @ + 1])
    /\ UNCHANGED <<declared, arrived, keys, more, receipted, returned, faults>>

\* The turn of the loop that takes a frame.
Get(r) ==
    LET d == drain[r] IN
    /\ d.pc = "get" /\ d.open /\ d.taken < Limit /\ queue # <<>>
    /\ queue' = Tail(queue)
    /\ Become(r, [d EXCEPT !.pc = "got", !.held = Head(queue), !.taken = @ + 1])
    /\ UNCHANGED <<declared, arrived, keys, more, receipted, returned, faults>>

\* A frame that cannot be read is refused for good.
DropBroken(r) ==
    LET d == drain[r] IN
    /\ d.pc = "got" /\ Broken(d.held)
    /\ Become(r, [d EXCEPT !.pc = "get", !.held = NoFrame])
    /\ UNCHANGED <<broker, keys, more, receipted, returned, faults>>

\* The frame joins the response; of a payload the sender is told, unless the
\* publish fails, which is logged.
Include(r) ==
    LET d == drain[r]
        f == d.held
        told == Payload(f) /\ d.open
    IN
    /\ d.pc = "got" /\ ~Broken(f)
    /\ Become(r, [d EXCEPT !.pc = "ack", !.count = @ + 1, !.items = @ \cup {f}])
    /\ receipted' = IF told THEN receipted \cup {f} ELSE receipted
    /\ UNCHANGED <<broker, keys, more, returned, faults>>

\* On a broken channel the ack reaches nobody; the error is not looked at.
\* The frame went back when the channel broke.
AckFrame(r) ==
    /\ drain[r].pc = "ack"
    /\ Become(r, [drain[r] EXCEPT !.pc = "get", !.held = NoFrame])
    /\ UNCHANGED <<broker, keys, more, receipted, returned, faults>>

Answer(r, hasMore) ==
    /\ more' = [more EXCEPT ![r] = hasMore]
    /\ returned' = returned \cup drain[r].items

\* (mutant) has_more is true unless the peek says otherwise
FoundDryUnsure(r) ==
    LET d == drain[r] IN
    /\ d.pc = "get" /\ d.open /\ d.taken < Limit /\ queue = <<>>
    /\ Answer(r, TRUE)
    /\ Become(r, [Idle EXCEPT !.dry = TRUE])
    /\ UNCHANGED <<broker, keys, receipted, faults>>

\* The queue is empty: the loop ends with fewer frames than asked for.
FoundDry(r) ==
    LET d == drain[r] IN
    /\ d.pc = "get" /\ d.open /\ d.taken < Limit /\ queue = <<>>
    /\ Answer(r, FALSE)
    /\ Become(r, [Idle EXCEPT !.dry = TRUE])
    /\ UNCHANGED <<broker, keys, receipted, faults>>

\* Some of the frames taken were dropped: has_more is not looked into.
FullButBroken(r) ==
    LET d == drain[r] IN
    /\ d.pc = "get" /\ d.taken = Limit /\ d.count < Limit
    /\ Answer(r, FALSE)
    /\ Become(r, Idle)
    /\ UNCHANGED <<broker, keys, receipted, faults>>

\* (mutant) the peek asks whether something is left and stops there
PeekUnasked(r) ==
    LET d == drain[r] IN
    /\ d.pc = "get" /\ d.open /\ d.count = Limit
    /\ Answer(r, FALSE)
    /\ Become(r, Idle)
    /\ UNCHANGED <<broker, keys, receipted, faults>>

\* A full response: one more frame is taken to see whether there is one.
Peek(r) ==
    LET d == drain[r] IN
    /\ d.pc = "get" /\ d.open /\ d.count = Limit
    /\ IF queue = <<>>
       THEN /\ Answer(r, FALSE)
            /\ Become(r, [Idle EXCEPT !.dry = TRUE])
            /\ UNCHANGED queue
       ELSE /\ Become(r, [d EXCEPT !.pc = "peeked", !.held = Head(queue)])
            /\ queue' = Tail(queue)
            /\ UNCHANGED <<more, returned>>
    /\ UNCHANGED <<declared, arrived, keys, receipted, faults>>

\* (mutant) the frame that was looked at is refused for good
PutBackDrops(r) ==
    /\ drain[r].pc = "peeked"
    /\ Answer(r, TRUE)
    /\ Become(r, Idle)
    /\ UNCHANGED <<broker, keys, receipted, faults>>

\* The frame goes back to where it was; on a broken channel it already has.
PutBack(r) ==
    /\ drain[r].pc = "peeked"
    /\ queue' = IF drain[r].open THEN <<drain[r].held>> \o queue ELSE queue
    /\ Answer(r, TRUE)
    /\ Become(r, Idle)
    /\ UNCHANGED <<declared, arrived, keys, receipted, faults>>

\* The channel breaks: the broker takes back what was not acknowledged.
ChannelBreaks(r) ==
    LET d == drain[r]
        unacked == d.held # NoFrame
    IN
    /\ faults < MaxFaults /\ d.pc # "idle" /\ d.open
    /\ faults' = faults + 1
    /\ queue' = IF unacked THEN <<d.held>> \o queue ELSE queue
    /\ drain' = [drain EXCEPT ![r].open = FALSE]
    /\ UNCHANGED <<declared, arrived, keys, more, receipted, returned>>

\* Get fails on it: the request answers with an error and the response so
\* far is dropped.
GetFails(r) ==
    LET d == drain[r] IN
    /\ d.pc = "get" /\ ~d.open /\ (d.taken < Limit \/ d.count = Limit)
    /\ Become(r, Idle)
    /\ more' = [more EXCEPT ![r] = TRUE]
    /\ UNCHANGED <<broker, keys, receipted, returned, faults>>

-----------------------------------------------------------------------------
Init ==
    /\ declared = FALSE /\ queue = <<>> /\ arrived = {}
    /\ forwarded = {} /\ sent = {} /\ stored = {}
    /\ drain = [r \in Drains |-> Idle]
    /\ more = [r \in Drains |-> TRUE]
    /\ receipted = {} /\ returned = {}
    /\ faults = 0

Goes(r) ==
    \/ Replay(r) \/ Get(r) \/ DropBroken(r) \/ Include(r) \/ AckFrame(r)
    \/ FoundDry(r) \/ FullButBroken(r) \/ Peek(r) \/ PutBack(r) \/ GetFails(r)

Next ==
    \/ \E m \in Msgs : Arrive(m)
    \/ \E k \in Keys : ForwardKey(k) \/ StoreKey(k) \/ StoreKeyFails(k)
    \/ Expire
    \/ \E r \in Drains : Start(r) \/ StartUnlisted(r) \/ Goes(r) \/ ChannelBreaks(r)

Spec == Init /\ [][Next]_vars

\* A request that has begun goes on: its goroutine is scheduled and its calls
\* have deadlines.  A client of Asking asks again, sooner or later, and is
\* answered by a database that works: what may fail is bounded by MaxFaults.
FairSpec ==
    /\ Spec
    /\ \A r \in Drains : WF_vars(Goes(r))
    /\ \A r \in Asking : WF_vars(Start(r))

-----------------------------------------------------------------------------
TypeOK ==
    /\ declared \in BOOLEAN
    /\ queue \in Seq(Frames)
    /\ arrived \subseteq Msgs /\ receipted \subseteq arrived
    /\ forwarded \subseteq sent /\ stored \subseteq sent /\ sent \subseteq Keys
    /\ drain \in [Drains ->
         [pc : {"idle", "replay", "get", "got", "ack", "peeked"},
          todo : SUBSET Keys, taken : 0..Limit, count : 0..Limit,
          items : SUBSET Frames, held : Frames \cup {NoFrame},
          open : BOOLEAN, dry : BOOLEAN]]
    /\ \A r \in Drains : drain[r].count <= drain[r].taken
    /\ more \in [Drains -> BOOLEAN]
    /\ returned \subseteq Frames
    /\ faults \in 0..MaxFaults

\* In the hand of a request whose channel works: a broken one gave it back.
Hand(d, f) == d.open /\ d.held = f
Held(f) == \E r \in Drains : Hand(drain[r], f)
Listed(f) == \E r \in Drains : f \in drain[r].items
Kept(f) == InQueue(f) \/ Held(f) \/ Listed(f) \/ f \in returned

\* The channel of the request that has f in its response is broken, and the
\* request ends with an error.
FailsWith(f) ==
    \E r \in Drains :
        f \in drain[r].items /\ ~drain[r].open /\ drain'[r].pc = "idle"

\* A frame that can be read is not lost: from the queue it goes to a request and
\* from there back or into an answer, however requests overlap and channels
\* break.  There are two ways out: the queue's time to live, while it waits, and
\* the error answer of a request whose own channel broke after it had taken the
\* frame into its response (message_service.go:97).
NothingDropped ==
    [][\A f \in Frames : Kept(f) /\ ~Broken(f) =>
          Kept(f)' \/ FailsWith(f) \/ (Expire /\ f = Head(queue))]_vars

\* has_more = false says that the inbox was empty when the request ended and
\* the client may stop asking, as long as every frame can be read.
NoMoreMeansEmpty ==
    \A r \in Drains :
        (~more[r] /\ drain[r].pc = "idle" /\ \A m \in arrived : ~Broken(m))
            => drain[r].dry

\* A device that asks until it is told there is no more comes to that end:
\* replaying the stored keys, fewer than a request may take, does not keep the
\* inbox from running empty, unless other requests go on replaying them too.
DrainEnds ==
    \A r \in Asking :
        \/ []<>(\E q \in Drains \ {r} : drain[q].pc # "idle")
        \/ (drain[r].pc # "idle") ~> (drain[r].pc = "idle" /\ ~more[r])

\* A key that is stored reaches the device, also when its queue was created
\* after the key was sent or a drain could not list the rows.
StoredKeyArrives == \A k \in Keys : (k \in stored) ~> (k \in returned)
=============================================================================
