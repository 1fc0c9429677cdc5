----------------------------- MODULE WebSession -----------------------------
(***************************************************************************)
(* Pairing of a web client with an Android device: web_session_service.go  *)
(* and web_session_repository.go.  The web client creates a session, shows *)
(* its id and long-polls; the Android device that scans the id authorises  *)
(* the session, which creates a web device; the poll then answers with a   *)
(* token for that device.  Sessions do not interact: the model has one.    *)
(*                                                                         *)
(* Every database or broker call is a step of its own, and so is every     *)
(* stretch under the mutex of notifyCh.  Polls and Authorisers name the    *)
(* goroutines of requests; an authoriser also names the web device it      *)
(* creates (device ids are fresh UUIDs).                                   *)
(***************************************************************************)
EXTENDS Naturals

CONSTANTS Polls, Authorisers, NoDevice,
          MaxCrashes    \* bound: how often the process dies

ASSUME PairingAssumption ==
    /\ Polls \cap Authorisers = {}
    /\ NoDevice \notin Authorisers
    /\ MaxCrashes \in Nat

VARIABLES
    status,       \* of the row: "none", "pending", "authorized"
    webDevice,    \* web_device_id of the row
    expired,      \* ExpiresAt has passed
    devices,      \* rows of user_devices the pairing created
    provisioned,  \* devices that have their queue
    notifyCh,     \* the channel under the session's id
    closed,       \* channels that were closed
    made,         \* how many channels were made; each is known by its number
    cleaner,      \* the goroutine that deletes the entry runs
    poll,         \* what each poll does, and its answer
    auth,         \* what each authorisation does
    panic,        \* why the process died, if it panicked
    crashes

row == <<status, webDevice, expired>>
stores == <<devices, provisioned>>
channels == <<notifyCh, closed, made>>
NoChan == 0
vars == <<row, stores, channels, cleaner, poll, auth, panic, crashes>>

\* pc: the next step; chan: the channel waited on; answer, device: the reply.
Poll(pc, chan, answer, device) ==
    [pc |-> pc, chan |-> chan, answer |-> answer, device |-> device]
Unasked == Poll("idle", NoChan, "none", NoDevice)

Answers(p, answer, device) ==
    poll' = [poll EXCEPT ![p] = Poll("idle", NoChan, answer, device)]
AuthGoes(a, pc) == auth' = [auth EXCEPT ![a] = pc]

\* The process dies: requests and channels are gone, the database stays.
Dies ==
    /\ crashes < MaxCrashes
    /\ crashes' = crashes + 1
    /\ notifyCh' = NoChan
    /\ cleaner' = FALSE
    /\ poll' = [p \in Polls |-> IF poll[p].pc = "idle" THEN poll[p] ELSE Unasked]
    /\ auth' = [a \in Authorisers |->
                  IF auth[a] \in {"idle", "ok", "refused"} THEN auth[a] ELSE "lost"]
    /\ UNCHANGED <<row, stores, closed, made>>

-----------------------------------------------------------------------------
(* CreateSession.  Nobody knows the id before it has returned.             *)

\* A new channel is stored under the session's id.
MakeChan ==
    /\ made' = made + 1
    /\ notifyCh' = made'

CreateSession ==
    /\ status = "none"
    /\ status' = "pending"
    /\ MakeChan
    /\ cleaner' = TRUE
    /\ UNCHANGED <<webDevice, expired, stores, closed, poll, auth, panic, crashes>>

\* A second after the session has expired.
CleanNotify ==
    /\ cleaner /\ expired
    /\ cleaner' = FALSE
    /\ notifyCh' = NoChan
    /\ UNCHANGED <<row, stores, closed, made, poll, auth, panic, crashes>>

Expire ==
    /\ status # "none" /\ ~expired
    /\ expired' = TRUE
    /\ UNCHANGED <<status, webDevice, stores, channels, cleaner, poll, auth, panic, crashes>>

-----------------------------------------------------------------------------
(* PollSession.                                                            *)

\* GetByID answers nil without an error when there is no row, and PollSession
\* reads through it; no handler recovers.
PollUnknown(p) ==
    /\ poll[p].pc = "idle" /\ status = "none"
    /\ panic' = "nilSession"
    /\ Dies

\* A token for the web device; without one when its user cannot be read.
BuildAnswer(p) ==
    \/ Answers(p, "paired", webDevice)
    \/ Answers(p, "tokenless", NoDevice)

PollRead(p) ==
    /\ poll[p].pc = "idle" /\ status # "none"
    /\ \/ Answers(p, "unknown", NoDevice)
       \/ expired /\ Answers(p, "expired", NoDevice)
       \/ ~expired /\ status = "authorized" /\ BuildAnswer(p)
       \/ /\ ~expired /\ status = "pending"
          /\ poll' = [poll EXCEPT ![p] = Poll("looking", NoChan, "none", NoDevice)]
    /\ UNCHANGED <<row, stores, channels, cleaner, auth, panic, crashes>>

PollJoin(p) ==
    /\ poll[p].pc = "looking" /\ notifyCh # NoChan
    /\ poll' = [poll EXCEPT ![p] = Poll("waiting", notifyCh, "none", NoDevice)]
    /\ UNCHANGED <<row, stores, channels, cleaner, auth, panic, crashes>>

PollMakeChan(p) ==
    /\ poll[p].pc = "looking" /\ notifyCh = NoChan
    /\ MakeChan
    /\ poll' = [poll EXCEPT ![p] = Poll("waiting", made', "none", NoDevice)]
    /\ UNCHANGED <<row, stores, closed, cleaner, auth, panic, crashes>>

\* The channel was closed: the row is read again.
PollWoken(p) ==
    /\ poll[p].pc = "waiting" /\ poll[p].chan \in closed
    /\ \/ Answers(p, "unknown", NoDevice)
       \/ BuildAnswer(p)
    /\ UNCHANGED <<row, stores, channels, cleaner, auth, panic, crashes>>

\* (mutant) the poll waits for the channel alone
PollTimeOutNever(p) == FALSE /\ UNCHANGED vars

\* LongPollMax has passed.
PollTimeOut(p) ==
    /\ poll[p].pc = "waiting"
    /\ Answers(p, "pending", NoDevice)
    /\ UNCHANGED <<row, stores, channels, cleaner, auth, panic, crashes>>

-----------------------------------------------------------------------------
(* AuthorizeSession.                                                       *)

\* The row cannot be read, there is none, it has expired or is authorised; or
\* the session is there to be authorised.
AuthRead(a) ==
    /\ auth[a] = "idle"
    /\ \/ AuthGoes(a, "refused")
       \/ /\ status = "pending" /\ ~expired
          /\ AuthGoes(a, "device")
    /\ UNCHANGED <<row, stores, channels, cleaner, poll, panic, crashes>>

AuthCreateDevice(a) ==
    /\ auth[a] = "device"
    /\ devices' = devices \cup {a}
    /\ AuthGoes(a, "provision")
    /\ UNCHANGED <<row, provisioned, channels, cleaner, poll, panic, crashes>>

\* (mutant) the error of ProvisionDeviceQueue is not looked at
AuthProvisionUnchecked(a) ==
    /\ auth[a] = "provision"
    /\ provisioned' \in {provisioned, provisioned \cup {a}}
    /\ AuthGoes(a, "write")
    /\ UNCHANGED <<row, devices, channels, cleaner, poll, panic, crashes>>

AuthProvision(a) ==
    /\ auth[a] = "provision"
    /\ provisioned' = provisioned \cup {a}
    /\ AuthGoes(a, "write")
    /\ UNCHANGED <<row, devices, channels, cleaner, poll, panic, crashes>>

\* A call fails: what was done before stays.
AuthFails(a) ==
    /\ auth[a] \in {"device", "provision", "write"}
    /\ AuthGoes(a, "refused")
    /\ UNCHANGED <<row, stores, channels, cleaner, poll, panic, crashes>>

\* (mutant) the update does not ask for a pending row
AuthWriteAny(a) ==
    /\ auth[a] = "write"
    /\ status' = "authorized" /\ webDevice' = a
    /\ AuthGoes(a, "notify")
    /\ UNCHANGED <<expired, stores, channels, cleaner, poll, panic, crashes>>

\* UPDATE ... WHERE status = 'pending'; whether it changed a row is not asked.
AuthWrite(a) ==
    /\ auth[a] = "write"
    /\ IF status = "pending"
       THEN status' = "authorized" /\ webDevice' = a
       ELSE UNCHANGED <<status, webDevice>>
    /\ AuthGoes(a, "notify")
    /\ UNCHANGED <<expired, stores, channels, cleaner, poll, panic, crashes>>

\* (mutant) the closed channel stays in the map
AuthNotifyKeeps(a) ==
    /\ auth[a] = "notify"
    /\ IF notifyCh \in closed
       THEN panic' = "closedTwice" /\ Dies
       ELSE /\ closed' = closed \cup ({notifyCh} \ {NoChan})
            /\ AuthGoes(a, "ok")
            /\ UNCHANGED <<row, stores, notifyCh, made, cleaner, poll, panic, crashes>>

\* Closing a channel a second time would panic.
AuthNotify(a) ==
    /\ auth[a] = "notify"
    /\ IF notifyCh \in closed
       THEN panic' = "closedTwice" /\ Dies
       ELSE /\ closed' = closed \cup ({notifyCh} \ {NoChan})
            /\ notifyCh' = NoChan
            /\ AuthGoes(a, "ok")
            /\ UNCHANGED <<row, stores, made, cleaner, poll, panic, crashes>>

Crash == Dies /\ UNCHANGED panic

-----------------------------------------------------------------------------
Init ==
    /\ status = "none" /\ webDevice = NoDevice /\ expired = FALSE
    /\ devices = {} /\ provisioned = {}
    /\ notifyCh = NoChan /\ closed = {} /\ made = 0
    /\ cleaner = FALSE
    /\ poll = [p \in Polls |-> Unasked]
    /\ auth = [a \in Authorisers |-> "idle"]
    /\ panic = "none" /\ crashes = 0

PollStep(p) ==
    \/ PollJoin(p) \/ PollMakeChan(p)
    \/ PollWoken(p) \/ PollTimeOut(p)

Next ==
    \/ CreateSession \/ CleanNotify \/ Expire \/ Crash
    \/ \E p \in Polls : PollUnknown(p) \/ PollRead(p) \/ PollStep(p)
    \/ \E a \in Authorisers :
          \/ AuthRead(a) \/ AuthCreateDevice(a) \/ AuthProvision(a)
          \/ AuthFails(a) \/ AuthWrite(a) \/ AuthNotify(a)

Spec == Init /\ [][Next]_vars

\* A poll that has begun goes on: its goroutine is scheduled and its timer
\* fires.  Nobody has to poll or to authorise.
FairSpec == Spec /\ \A p \in Polls : WF_vars(PollStep(p))

-----------------------------------------------------------------------------
TypeOK ==
    /\ status \in {"none", "pending", "authorized"}
    /\ webDevice \in Authorisers \cup {NoDevice}
    /\ expired \in BOOLEAN /\ cleaner \in BOOLEAN
    /\ devices \subseteq Authorisers /\ provisioned \subseteq Authorisers
    /\ made \in Nat /\ notifyCh \in 0..made /\ closed \subseteq 1..made
    /\ poll \in [Polls -> [pc : {"idle", "looking", "waiting"},
                           chan : 0..made,
                           answer : {"none", "unknown", "expired", "pending",
                                     "paired", "tokenless"},
                           device : Authorisers \cup {NoDevice}]]
    /\ \A p \in Polls : poll[p].pc = "waiting" => poll[p].chan # NoChan
    /\ auth \in [Authorisers -> {"idle", "device", "provision", "write", "notify",
                                 "ok", "refused", "lost"}]
    /\ panic \in {"none", "nilSession", "closedTwice"}
    /\ crashes \in 0..MaxCrashes

\* Every poll that is told the session is paired gets a token for the same
\* device, the one of the row, whatever authorisations run side by side and
\* however often the process restarts.
PollsAgree ==
    \A p \in Polls : poll[p].answer = "paired" => poll[p].device = webDevice

\* The device of the token exists and has the queue its socket will consume
\* from: the session is authorised only after both succeeded.
PairedIsProvisioned ==
    \A p \in Polls : poll[p].answer = "paired"
        => poll[p].device \in devices \cap provisioned

\* notifyCh never leads an authorisation to a channel that is already closed:
\* closing it again would end the process.  Two authorisations get as far as
\* the notification when they overlap.
NoDoubleClose == panic # "closedTwice"

\* Every poll that waits is answered in the end, also one that joined too late
\* to be woken.
PollEnds == \A p \in Polls : (poll[p].pc # "idle") ~> (poll[p].pc = "idle")
=============================================================================
