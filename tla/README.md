# Shade backend: TLA+ models, checks and proofs

Shade is the server of an end-to-end encrypted messenger: it authenticates
users by challenge and signature, carries opaque payloads from device to device
through one durable RabbitMQ queue per device, keeps groups, pairs web clients
with a phone and relays the phone's history to them. It cannot read what it
carries; what it can do wrong is lose, keep, repeat or misdirect it. These
modules model the parts of the server where that depends on the order of things.

Paths below are relative to `src/`; `connection_manager.go`, `sync_manager.go`
are in `internal/websocket/`, services in `internal/services/`.

## 1. Inventory

| Component | Code | State | Operations |
|---|---|---|---|
| Device delivery | `connection_manager.go`, `handlers/websocket_handler.go` | `m.clients` (session key to `userState`), per `userState`: connections, AMQP channel, consumer, `pendingAcks` with timers | `Register`, consumer, `handleDelivery`, ack timer, `ReadPump`/`handleReceipt`, `Unregister`, `cleanupUserState` |
| Message routing | `connection_manager.go` | none of its own; publishes, `encrypted_messages` table on failure | `handleDirectPayload`, `handleGroupPayload` and their fan-outs, `handleReceipt`, `handleGroupKeyDistribution`, wake-up push |
| REST inbox | `message_service.go`, `sender_key_distribution_repository.go` | device queue, stored sender keys | `DrainInbox`, `SendReceipts` |
| Groups | `group_service.go`, `group_binding_service.go`, `group_repository.go` | groups, members, invites (database); bindings (broker) | create, add, remove, delete, invite, redeem, `ProvisionDeviceQueue`, membership events (`group_event_publisher.go`) |
| Sync relay | `sync_manager.go`, `handlers/sync_handler.go` | table of `syncSession`: two slots, frame buffer, forwarder | `Register`, `ReadPump`, `Unregister`, `runForwarder` |
| Web pairing | `web_session_service.go`, `web_session_repository.go` | `web_sessions` row, `notifyCh` map | `CreateSession`, `PollSession`, `AuthorizeSession` |
| Login | `auth_service.go` | `challengeCache`, cleanup worker; users, devices | `Register`, `LoginInit`, `LoginVerify`, eviction |
| Rate limiter | `internal/middleware/rate_limiter.go` | `sync.Map` of `windowEntry` | `record`, `Middleware`, `cleanupWorker` |
| RabbitMQ client | `internal/rabbitmq/` | connection, `closed` | connect, reconnect loop, channels, topology |
| The rest | users, keys, media, audit, push, validation, configuration | rows or nothing | single reads and writes |

How they meet. A WebSocket is one goroutine: `Register`, `ReadPump`,
`Unregister`. The first connection of a device opens a channel and starts the
consumer of `user.queue.<user>.<device>`; the last one cleans up. A payload that
was written to a socket waits in `pendingAcks` for a DELIVERED receipt, which
arrives in another goroutine, or for its 30 s timer, a third one. The same queue
is drained by `GET /inbox` when the device has no socket. Queues are bound to
groups by group requests and, at every connect and every drain, by
`ProvisionDeviceQueue`. Login and web pairing create the devices that
have queues. The broker and the database are shared by all; no transaction spans
two of them.

What is hard, and what makes each part correct:

* **Delivery.** Five kinds of goroutine (consumer, reader, timer, cleanup,
  registration) under four locks that are released between steps. A delivery
  must be settled at most once, and one that was handed out leave the queue only
  when it was shown and confirmed; none may be forgotten; a connection that is
  registered must have a live consumer; no channel may leak; channel loss and
  crash must give the messages back. The queue's time to live, seven days, drops
  what waits for longer.
* **Groups.** Membership (database) and bindings (broker) are updated call by
  call. A member's device must be bound however requests overlap; a removed one
  must not stay bound; an invite must not be overused.
* **Sync relay.** Register works in two critical sections, Unregister looks the
  session up again, the forwarder may have timed out. Frames must be in order, a
  registered web client served, no session or goroutine leaked.
* **Web pairing.** Poll and authorisation meet through a row and a channel that
  are not read together. Answers must agree, channels be closed once, polls end.
* **Inbox.** The server takes frames, acks and receipts them one by one, and
  answers at the end. What was receipted must not be lost, `has_more` must be
  right, the replay of stored keys must end.
* **Login.** A challenge may be answered once, until it is replaced or expires.
* **Routing.** One frame becomes several publishes, each on a channel of its own
  over a connection that may break before, during and after it, and a push that
  is decided by who has a session at that moment. Every device it is for must
  get the frame, nobody else, not even the device it came from; whoever had no
  session throughout must be woken up.
* **Broker connection.** One goroutine dials again and again while `Close` may
  come at any moment; it must not give up, nor leave a connection behind.
* **Limiter.** The entry is found and locked in two steps; the cleanup comes in between.

## 2. Modules

| Module | Models | Runs |
|---|---|---|
| `DeviceQueue` | abstract specification: what is promised about one device's queue | refined in `delivery` |
| `DeviceDelivery` | the connection manager for one session key | `delivery`, `live`, `panic` |
| `GroupMembership` | one group: its rows, its bindings and the events its devices hear | `group`, `cutoff` |
| `RelayChannel` | abstract specification: what is promised about one session's relay | refined in `sync` |
| `SyncManager` | one session id of the relay | `sync` |
| `SyncRelay` | `SyncManager` with the refinement mapping to `RelayChannel` | `sync` |
| `WebSession` | one web session | `web` |
| `Inbox` | `DrainInbox` of one device and the sender keys it replays | `inbox` |
| `LoginChallenge` | `Register`, `LoginInit`, `LoginVerify`, the challenge cache | `login` |
| `RateLimiter` | one client address | `limiter` |
| `RabbitClient` | the broker connection, the goroutine that replaces it, `Close` | composed in `routing`, `receipts` |
| `MessageRouting` | one frame: copies, echo, push, database fallback, REST receipts | `routing`, `receipts` |
| `DeviceDelivery_proofs`, `GroupMembership_proofs`, `SyncManager_proofs`, `WebSession_proofs`, `Inbox_proofs`, `LoginChallenge_proofs`, `MessageRouting_proofs`, `RateLimiter_proofs` | theorems (section 5) | |

`MC*` modules give constants their values. A definition marked `(mutant)` is a
broken variant of the operator that follows it; no next-state relation uses one.

### DeviceDelivery

State by state: `clients` is `m.clients[key]`, `mu` is held by a `Register`
that has created a `userState` and not yet joined it, `conns[u]` is `us.conns`,
`cancelled`, `mapNil`, `ch` are the context, `pendingAcks == nil` and `us.ch`;
`pending[u][id]` is the tag of the entry of `pendingAcks`; `armed`, `fired`,
`nacking` are the stages of the function of `time.AfterFunc`; `work[u]` is where
the consumer is in `handleDelivery`; `rd[c]` is where the connection's goroutine
is. Every stretch between two lock operations or external calls is one action:
the consumer copies the connections and writes without `connsMu`
(`DeliveryStart`, `WriteOk`, `WriteFail`), a receipt removes its entry and acks
without `pendingMu` (`ReceiptTake`, `ReceiptAck`), cleanup cancels, drops the map
and closes the channel in three steps. The broker is external: tags count the
deliveries of a channel, an unacknowledged delivery waits again when its channel
closes, and the order of waiting messages is left open. A message that waits,
from the start or because it was given back, may `Expire` (`x-message-ttl`,
`topology.go:76`); which of them may is the constant `Perishable`. The faults are
the loss of the broker connection (`BrokerLoss`), the close of one channel by the
broker, which keeps the connection (`ChannelClosed`, such as after a delivery was
unacknowledged for too long), a `Consume` that is refused, with or without the
loss of its channel (`ConsumeFails`), and the end of the process (`Crash`).

`DeviceQueue` says what this has to amount to: a message is waiting, in flight
or gone. From a consumer's hand it goes only if it cannot be read, is the device's
own echo, or was shown and, being a payload, confirmed; otherwise it waits again.
A message that waits may be gone unseen when its time to live ends: this the
server does not prevent, and a sender does not learn of it. `ImplementsDeviceQueue` maps
`inflight` to the unacknowledged deliveries of all channels.

### GroupMembership

`group`, `members`, `devices`, `invited`, `uses` are rows, `bound` the broker's
bindings; `req[r]` is a request before its next call, so that a step is one call
to the database or the broker. `missed` and `kept` remember the devices for
which the last bind or unbind failed: the code logs these errors and goes on, so
the properties excuse them. `believed` remembers, for every device, whom the
events it was bound for tell it to be a member, `untold` the exits whose publish
failed; both are followed until requests overlap, which `overlapped` remembers.
A redemption is an addition that begins with the count of its use.

### MessageRouting and RabbitClient

`RabbitClient` has `c.conn`, `c.closed`, the connections that are `open`, where
`handleReconnect` is (`loop`), and the connection `Close` has read and not yet
closed. `MessageRouting` shares these variables with its instance `Rabbit` and
adds what the publishes do: `req[d]` goes from the copy (`copy`) to the echo
(`echo`), the group's members (`group`), the users without a session (`wake`,
`list`) and the row (`save`), in the order of `handleDirectPayload` and
`handleGroupPayload`; a receipt frame has a copy and an echo only, one that is
posted over REST begins with `lookup`. A publish is two steps, the write to the connection of the moment and
the routing by the broker: if the connection breaks between them the publish
returns no error and the frame is gone (`Lost`). `queued` is what was put into
each device's queue. While a frame is handled, sessions come and go (`Connect`,
`Disconnect`), queues are provisioned, and requests about its group change the
rows (`Join`, `Leave`) and the bindings (`Bind`, `Unbind`) of `Movers`, in any
order: which orders there are is `GroupMembership`'s. The sender's membership is
read once (`CheckMember`), the bindings when the broker routes (`Routed`), the
members to wake after that (`GetGroup`), so the three may disagree. The history
`audience` follows which queues the frame's routing key has led to all the time
(`always`) or at some time (`ever`) since it was read, `asleep` who has had no
session, and has been in the group, all that time; `trouble` records what failed.

### SyncManager, WebSession, Inbox, LoginChallenge, RateLimiter

* `SyncManager`: `current` is the table's entry, `slot`, `ready`, `done`,
  `frames` the fields of a `syncSession`, `forwarder` and `conn` the goroutines.
  `GetExisting`/`CreateSession` and `TakeSlot` are the two halves of `Register`.
  `late` remembers connections that took a slot when the session had ended or
  the forwarder had timed out.
* `WebSession`: `status`, `webDevice`, `expired` are the row, `notifyCh` the map
  entry, channels are numbered as they are made. A poll reads the row and looks
  at the channel in two steps; an authorisation is five steps, each of which may
  fail. `Dies` keeps the row and loses the channels.
* `Inbox`: `queue` is the device's queue, `stored` the table of keys, `drain[r]`
  the request: rows left to replay, frames taken and answered, the frame in
  hand, the channel. The rows may not be listed (`StartUnlisted`), which the code
  logs before it goes on; the frame at the head may `Expire`.
* `LoginChallenge`: `challengeCache` per user, `req[r]` a verification after
  `consumeChallenge`; `accepted`, `void`, `minted`, `tokens` are histories.
* `RateLimiter`: `entry` is the address's place in the `sync.Map`, `timestamps`
  what the objects it may lead to have, as sets of numbered times, `req[r]` a request in `record`, `sweep` the worker.
  The history `admitted` ends when the clock or the worker interrupts a request.

`RelayChannel` says what a sync session has to amount to: a bounded channel that
may lose frames, but does not reorder or repeat them, nor keep them from a web
client that waits. `SyncRelay` maps the frame in the forwarder's hand and the buffer to
`pending`, for the session `relayed`, a constant that may be any session: the run
gives it one, which is enough because sessions are interchangeable, and the
theorem about it holds for every one. `ImplementsRelay` has two halves,
`RelaysInOrder`, the steps, and `Drains`, the liveness, a leads-to and not a
fairness condition, because it is checked under the mapping.

## 3. Runs

Runs with `expect: pass` finish without error; each property was also seen to
fail for a variant of the code with one plausible mistake (the mutants).

| Run | Question | Bounds and why they are enough |
|---|---|---|
| `delivery` | `RegisteredIsServed`, `OnlineIsConsumed`, `NoLeakedState`, `ImplementsDeviceQueue` | Two connections: one leaves while the other registers, receives or confirms. Two userStates: one cleaned up while its successor works. A payload, delivered and redelivered, and an own echo; either may expire whenever it waits. One fault of the four, at any moment: the connection stays alive after two of them, so that a device goes on, leaves and comes back with another userState. |
| `live` | `SettledOnce`, `NothingForgotten`, `UnackedResolves` | Four messages: two copies of one payload with one `message_id` (the shared entry), a payload with its own, a frame of another type. Two connections, which may send receipts at once; two deliveries on the channel: both copies, or a copy and another, or a redelivery. The frame of another type may expire. No faults: they end what is unacknowledged. |
| `group` | `MembersBound`, `OnlyMembersBound`, `ExitIsHeard`, `InviteWithinLimit` | Two overlapping requests of any kind (a third can run when one ends), any call or publish fails, one creator and one user with two devices, an invite for one use. |
| `sync` | `NoLeakedSession`, `ReaderIsRegistered`, `WebIsServed`, `ImplementsRelay`, `ForwarderStops` | One Android connection with three frames against a buffer of two, two web connections that replace each other, two session objects. |
| `web` | `PollsAgree`, `PairedIsProvisioned`, `NoDoubleClose`, `PollEnds` | Two polls, two authorisations, one restart. |
| `inbox` | `NothingDropped`, `NoMoreMeansEmpty`, `DrainEnds`, `StoredKeyArrives` | Two overlapping requests of limit two, a readable frame, which may expire, and an unreadable one, one stored key, one fault: a channel that breaks, a list or a row of the key table that fails. |
| `login` | `SingleUse`, `VoidIsRefused`, `UnusedIsCached`, `TokenNamesOwnDevice` | Two users that register, two challenges, two overlapping verifications, one device more than users. |
| `limiter` | `WithinLimit`, `QuietIsForgiven` | Limit two, window of three ticks, clock to six: more than one window, and a sweep in each. Two requests, four entries: one in the map, one for each request, one for the worker. |
| `routing` | `CopiesArrive`, `ShownToNobodyElse`, `SleepersWoken`, `NoStrayConnection`, `Reconnects` | A sender with a second device, which has a token; another user, who may post a receipt; a group of both and one the sender is not in; any devices provisioned and online at first, sessions that come and go meanwhile; the other user's row and bindings, which may change at each step of a group frame; two connections that may break, a third and a fourth to come back to. Frames share no state, so one suffices. |

Bounds named in the modules (`MaxDeliveries`, `MaxFaults`, `MaxFrames`,
`MaxCrashes`, `MaxTime`, `MaxKept`, `MaxConns`, `Perishable`, `Movers`) are guards of the actions they bound; a
delivery, fault, frame or expiry beyond the bound does not happen in the model. Instances
that run out of messages, connections or time stop; their configurations do not
check deadlock. `group` does.

Symmetry is used in safety runs only.

### What the code does that a comment says it does not

| Run | Property | What happens |
|---|---|---|
| `panic` | `NoPanic` (`cmd/api/main.go:49`) | The last connection unregisters while the consumer is writing; `cleanupUserState` sets `pendingAcks` to nil (`connection_manager.go:819`) and the consumer assigns into it (`:371`). The process ends. |
| `cutoff` | `RemovedCutOff` (`group_service.go:260`) | Another request binds the removed user's device after the unbinding and before the row is deleted; the device goes on receiving the group's messages. |
| `receipts` | `ReceiptForwarded` (`message_handler.go:52`, `message_service.go:29`) | The sender of a message is looked up in `encrypted_messages` (`message_service.go:174`), where only the fallback of a failed publish writes (`connection_manager.go:484`): the REST receipt of a message that went through the broker is skipped (`message_service.go:192`) and answered with 200. |

### Known limits: conditions the properties carry

Where the code falls short without a promise of the repository against it, or
where the promise is kept under a condition, the property states the condition:

* Two deliveries with one `message_id` are unacknowledged at once (the group
  fan-out and the echo send a sender's other device the same identifier): the
  second entry of `pendingAcks` replaces the first, whose delivery stays
  unacknowledged until the channel closes. `NothingForgotten` and
  `UnackedResolves` speak of payloads whose identifier no other payload carries
  (`Alone`); without that condition they do not hold.
* Every device queue is declared with an `x-message-ttl` of seven days
  (`topology.go:17`, `:76`): a message that waits for longer is dropped, whether it
  was never handed out or given back unconfirmed, and its sender is not told. The
  promise of `DeviceQueue` is about messages that were handed out; `Expire` is its
  one other way out, and one of the two of `NothingDropped`.
* A `userState` may lose its consumer under a connected device: its `Consume` is
  refused and the goroutine returns (`connection_manager.go:261`), the broker
  closes its channel, or the broker connection is lost. Nothing starts another
  consumer: new connections join the state as it is (`:140`), and the device
  hears nothing until its last connection leaves. `OnlineIsConsumed` names these
  states, and says that there is no other way into one, in particular none by an
  interleaving of `Register`, `Unregister` and cleanup; `NoLeakedState` that the
  last `Unregister` cleans such a state up, so that the next `Register` begins
  with a channel and a consumer of its own.
* A sender that is removed from the group after `CheckMember` has its frame
  published (`connection_manager.go:506`, `:518`), and a member that is removed
  meanwhile is shown it when its queue was still bound. `ShownToNobodyElse` is
  about queues bound at some time while the frame was handled, `CopiesArrive`
  about those bound all that time.
* `use_count` is read and incremented by two calls: `n` overlapping redemptions
  may exceed the limit by `n - 1`, which is what `InviteWithinLimit` bounds.
* A web client that joins a sync session after its forwarder timed out, or
  between the end of the session and `Register`'s second half, is registered
  where nothing is forwarded; `WebIsServed` excuses these (`late`).
* Two overlapping authorisations both return success; the update of the second
  changes no row and its device stays behind. The answers to polls agree all the
  same (`PollsAgree`).
* A poll for an id without a row dereferences a nil session
  (`web_session_service.go:101`): `PollUnknown` ends the process.
* With as many stored keys as the limit of an inbox request, every drain fills
  itself with replayed keys and `has_more` stays true; the run has fewer keys
  than the limit, and `DrainEnds` excuses the case that other requests keep
  replaying.
* A drain acks and receipts frames one by one and answers at the end; when its
  channel breaks in between, what was acked is nowhere (`message_service.go:97`).
  `NothingDropped` names this case, the frames in the answer of a request whose
  own channel broke, and covers all others: what was in hand or was looked at
  goes back, and no other request loses a frame by it.
* Rejected requests are recorded too, so `Retry-After`, computed from the oldest
  entry, is too early once more than one request was rejected
  (`rate_limiter.go:159`). `QuietIsForgiven` is about a client that waits a window.
* Nothing confirms a publish: a frame written to a connection that breaks under
  it is lost without an error, and the fallback does not run
  (`connection_manager.go:689`). `CopiesArrive` shows it is the only silent way.
  A frame that went to the fallback is in a table from which nothing is
  delivered, and a group frame that could not be published is only logged
  (`connection_manager.go:522`).
* One session of a user is enough for no push on any other device of the user
  (`connection_manager.go:452`); `SleepersWoken` is about users without any.
* `connect` does not look at `closed`: a loss just before `Close` leaves a
  connection open that is made after it (`client.go:91`), which
  `NoStrayConnection` excuses (`late`).
* An exit whose publish failed is told to nobody, and a device that was bound
  again by a reconnect has missed what was announced before; when requests
  overlap, events may arrive in the other order than the rows were written.
  `ExitIsHeard` excuses all three.
* The cleanup of the limiter may delete an entry between its lookup and its
  lock; what is counted there is not seen again. `WithinLimit` ends there.

## 4. Fairness

* `DeviceDelivery`: consumers, timer functions and a connection goroutine that
  has begun to register, handle a receipt or unregister are scheduled; writes
  have a deadline (`userWriteTimeout`). Peers need not connect, confirm or leave, and
  the broker need not deliver.
* `SyncManager`: the forwarder takes a step when it can (`SyncWriteTimeout`
  bounds its writes). Clients and the timer owe nothing.
* `WebSession`: a poll that has begun goes on; its timer (`LongPollMax`) fires.
* `Inbox`: a request that has begun goes on; a client of `Asking` asks again, and
  `MaxFaults` bounds how often its keys cannot be listed: a key arrives if the
  database answers at some time.
* `MessageRouting`: the goroutine of `handleReconnect` is scheduled and the broker
  accepts a dial at some time. Clients, requests and `Close` owe nothing.

All fairness is weak, per goroutine.

## 5. Proofs

Every safety invariant and action property of a passing run is also a theorem,
for all values of the constants; so is the refinement of `DeviceQueue`, and the
safety half of that of `RelayChannel`. Sets
of connections, requests, users and so on may be infinite where no finiteness is
assumed below. The assumptions on the constants are the `ASSUME` of each module:
special values are not elements of the sets, functions have the right domain and
range, bounds are naturals. Only these say more:

| Assumption | What it asks | Why the code has it |
|---|---|---|
| `MembershipAssumption` | finitely many requests | a server has; the bound on an invite counts them |
| `SyncAssumption` | a buffer for one frame at least | the constant of `sync_manager.go` is positive |
| `InboxAssumption` | a limit of one at least | `DrainInbox` replaces others by a default |
| `LimiterAssumption` | a limit and a window of one at least | both are constants of `rate_limiter.go` |
| `RoutingAssumption` | one connection at least | the server does not start without one |

Each preservation lemma has one step per action, and the theorem's last step is
the temporal one. What follows is, for each module, why the property is not
inductive as it stands and what the invariant adds.

### Delivery

`DeviceDelivery_proofs`:

* `TypeCorrect` (`TypeOK`). A timer looks up the message of its tag, so tags must
  be indices of deliveries made, and a goroutine that handles a receipt or
  cleans up must have a userState: `TypeInv` adds this (`WellFormed`).
* `DeliverySettledOnce` (`SettledOnce`). `SettleInv` says who owns a tag: the
  consumer's hand, the map entry of the message's own identifier, a timer that
  has removed it, a receipt that has removed it; that owners exclude one another;
  that owned tags of an open channel are unacknowledged; that deliveries not yet
  taken are owned by nobody; and that a userState not yet in use owns nothing.
  Each action moves a tag from one owner to the next or settles it. The
  overwritten entry of a repeated `message_id` is lost and not settled twice.
* `StatesNotLeaked`, `OnlineConsumed`, `RegisteredServed`, with every fault at any
  moment. `LifeInv` follows a
  userState from creation to cleanup: the one in `m.clients` is untouched by any
  cleanup and is used by a connection or by the `Register` that holds `mu`
  (`ServingOK`, `MuOK`); one that is cleaned up has left `m.clients`
  (`CleaningOK`), so that a cleanup that outlives its connection cannot take
  anything from the successor; and that a consumer stops only because it was
  cancelled, refused or its channel closed (`UpOK`).
* `ImplementsQueue` (`ImplementsDeviceQueue`): initial states map to initial
  states, and each step, the faults and the end of a time to live included, to a
  step of `DeviceQueue` or a stutter. A step may settle a message that was handed
  out only when it was shown and confirmed, so the invariant carries
  this from where it happens to where it is used: an entry of `pendingAcks`, and
  the tag a receipt took from it, belong to a payload that was shown
  (`EntryOK`), and the identifier a receipt is about was confirmed (`ReceiptOK`).
  `Exclusive` says that a message waits, is gone, or has one tag.
* `DeliveriesNotForgotten` (`NothingForgotten`), from `OwnedInv`: a tag that the
  consumer took and nobody owns is settled, its channel or map is gone, or its
  identifier is not its own. `EntriesOK` gives every entry its timer.

### Groups

`GroupMembership_proofs`. Types first (`TypeInvariant`): which steps each
operation has and what it carries from one to the next (`Fits`).

* `NoMemberLeftOut` (`MembersBound`), for requests that overlap in any way:
  `Cover` says that every listed device of a member is bound, known to have
  missed its binding, or is going to be bound by a request under way, unless one
  is going to delete the member's row. An unbinding is covered by the deletion
  that follows it; the insertion of a row by the bindings that follow it.
* `NobodyStaysBound` (`OnlyMembersBound`) and `ExitsAreHeard` (`ExitIsHeard`),
  while requests do not overlap: what the one request has done by each of its
  steps (`AddingOK`, `RemovingOK`, `DeletingOK`) and that whoever is taken for a
  member by a device concerned is one (`ToldMembers`). The latter needs that a
  device which knows of its own user's membership is bound (`ToldOwnBound`): this
  is why the exit reaches the devices of the one who leaves.
* `InviteLimited` (`InviteWithinLimit`): the uses and the requests about to count
  one together do not exceed the limit (`Counted`).

### Sync relay

`SyncManager_proofs`:

* `SessionsNotLeaked`, `WebServed`: `TableInv` says that only the session of the
  table lives (`OnlyOneLives`), that it has a client or a connection between the
  two halves of `Register` (`Owned`), and whose a slot is (`SlotsOK`).
* `ReadersRegistered` is inductive together with the types.
* `RelayedInOrder`: every step is one of `RelayChannel` or a stutter, for
  every session. The abstract channel takes only frames that overtake nothing;
  `NumbersOK` knows that every frame on its way or received was numbered before
  the one its sender is about to put into the buffer. `ReceivedOK` and
  `WritingOK` keep a frame written after its client left the session out of
  another session's channel.
* `SyncTypeCorrect`.

### Web pairing, login, inbox

* `WebSession_proofs`: `PairedPollsAgree`, `PairedDeviceIsProvisioned`,
  `ChannelsClosedOnce`, `PairingTypeCorrect`. `PairingInv` says what each step of
  an authorisation may rely on (`AuthOK`), that the row changes at most once and
  then names a provisioned device (`RowOK`), and that `notifyCh` never leads to a
  closed channel (`ChannelsOK`), although two authorisations may both reach the
  notification.
* `LoginChallenge_proofs`: `ChallengeSingleUse`, `ChallengeVoidIsRefused`,
  `ChallengeUnusedIsCached`, `TokensNameOwnDevices`, `LoginTypeCorrect`.
  `ChallengeInv` adds that the challenge in a user's map entry was issued to that
  user, was never accepted and is void exactly when the entry has expired
  (`CacheOK`); that only issued challenges have a history (`DrawnOK`); that a
  request that passed `consumeChallenge` is the only one with its challenge, for
  which no token was given yet (`RequestOK`, `MintedOK`); and that a request about
  to make its token holds a device of its user (`DeviceOK`).
* `Inbox_proofs`: `EmptyWhenNoMore` (`NoMoreMeansEmpty`), from `CountOK`: a turn
  of the loop that added nothing to the answer dropped an unreadable frame, so
  without such frames what was taken and what is counted agree. `FramesNotDropped`
  (`NothingDropped`), an action property, from `HandOK`: at each step, whether there
  is a frame in hand and whether it is in the answer already. What the hand of a
  request held when its channel broke counts as in the queue from that step on. `InboxTypeCorrect`.

### Limiter

`RateLimiter_proofs`. An entry's timestamps are a set of numbered times in the
model, so that a list is counted by `Cardinality`, about which the library has
theorems, and not by a recursion; only `Retry-After`, which is not modelled,
depends on the list's order.

* `AdmittedWithinLimit` (`WithinLimit`). The limit holds of what the entry has
  after filtering, the property is about what was admitted in any window. What
  joins them is that an admitted request is in the entry the map leads to for as
  long as it is recent (`Counted`), because until the history ends nobody holds
  another entry and the worker looks at this one, at the time of now (`Serial`).
* `EachIsCounted`, an action property: the timestamp that is added is none of
  those there (`NumberedOK`), nor of any admitted request.
* `QuietAreServed` (`QuietIsForgiven`), an action property, without the condition
  that nothing interrupts `record`. `LimiterTypeCorrect`.

### Routing and the broker connection

`MessageRouting_proofs`:

* `ShownOnlyToAddressees` (`ShownToNobodyElse`), from what may lie in a queue:
  the owner is an addressee or the sender, frames that go to a group or to the
  sender's own devices carry their source, and nothing of a refused frame is
  there (`FrameOK`).
* `FramesArrive` (`CopiesArrive`): what is promised when the handling is done is
  stated for every step after the publish it is due to (`CopyOK`, `EchoOK`), and
  `SavedOK` keeps the error of a failed copy until the row is written. `AudienceOK`
  ties the history to the bindings of the moment: who is in `always` is bound when
  the broker routes the frame, and who is bound then is in `ever`.
* `OfflineUsersPushed` (`SleepersWoken`): a user in `asleep` is woken or still in
  the list of those to look at (`AwakeOK`), because who comes online or leaves the
  group is taken out of `asleep` in the same step.
* `OneConnection` (`NoStrayConnection`), about `RabbitClient`: only the connection
  dialled last can be open, and it is the client's outside a dial (`RabbitInv`).
* `RoutingTypeCorrect`: the number of connections dialled is bounded by
  `RabbitInv` and not by its type alone.

### What stays with TLC

* Liveness, which needs `ENABLED`: `UnackedResolves`, `ForwarderStops`, `Drains`
  in `ImplementsRelay`, `PollEnds`, `DrainEnds`, `StoredKeyArrives`, `Reconnects`.
* The runs with `expect: violation`, which show an execution.
* What no theorem is about: which histories and bounds make the interesting cases
  happen; the mutants show it for the instances of section 3.

## 6. Not modelled

The list with reasons is `components` in `PROJECT.json`. In short:

* everything that is one read or write of one row or object: users, keys, media,
  audit, profiles, the list of groups; DTOs, validation, configuration, start-up,
  generated code, and the client under `tools/`;
* in the modelled parts: the authorisation checks of group requests (a caller
  who may call exists), invites without a group and the expiry of invites, which
  no code sets; `MarkAsDelivered`, which changes rows of a table that nothing
  writes; `Client.Publish`, which has no caller; the declaration of the exchanges
  at start; the call to Firebase, of which only the target matters;
* cryptography is opaque to the server; a signature is good or not. Time is a
  flag that is raised once (expiry) or ticks (limiter).

## 7. Plan

1. Done: device delivery with its abstract queue and its first theorems; groups
   with their events; the sync relay with its abstract channel; web pairing;
   inbox; login and its theorems; limiter; routing over the broker connection.
2. Done: the theorems of section 5.
3. Next: facts that several proofs repeat about stepwise updated functions, as
   shared lemmas; the safety part of what the liveness properties say, such as
   that a poll that waits has a timer or a channel that will wake it.
4. Left open: one composed module of the places where devices are created and
   provisioned (`AuthorizeSession`, `resolveDevice`, group requests), which meet in
   two rows; `GroupMembership` has them as `CreateDevice` and `Provision` already,
   with any other request in between.
