-------------------------- MODULE WebSession_proofs --------------------------
(***************************************************************************)
(* Polls agree on the paired device, which exists and has its queue, and   *)
(* no channel is closed twice.  For any number of polls and authorisations *)
(* and however often the process dies.                                     *)
(***************************************************************************)
EXTENDS WebSession, TLAPS

USE PairingAssumption DEF PairingAssumption

\* How far an authorisation has come says what is stored: its session exists,
\* the web device is stored before its queue is declared, and both are done
\* before the row is written; from then on the row is authorised.
AuthOK(a) ==
    /\ auth[a] \in {"device", "provision", "write", "notify"} => status # "none"
    /\ auth[a] \in {"provision", "write"} => a \in devices
    /\ auth[a] = "write" => a \in provisioned
    /\ auth[a] = "notify" => status = "authorized"

\* The authorised row names a device that is ready to be used.
RowOK ==
    status = "authorized" => webDevice \in devices \cap provisioned

\* Channels are closed by authorisations only, and the map leads to an open one.
ChannelsOK ==
    /\ closed # {} => status = "authorized"
    /\ notifyCh \notin closed

AnswerOK(p) ==
    poll[p].answer = "paired" => status = "authorized" /\ poll[p].device = webDevice

PairingInv ==
    /\ \A a \in Authorisers : AuthOK(a)
    /\ RowOK /\ ChannelsOK
    /\ \A p \in Polls : AnswerOK(p)
    /\ NoDoubleClose

-----------------------------------------------------------------------------
\* The types in three parts: the polls, the flags, and everything else.
PollType == [pc : {"idle", "looking", "waiting"},
             chan : 0..made,
             answer : {"none", "unknown", "expired", "pending", "paired", "tokenless"},
             device : Authorisers \cup {NoDevice}]

PollsTyped ==
    /\ poll \in [Polls -> PollType]
    /\ \A p \in Polls : poll[p].pc = "waiting" => poll[p].chan # NoChan

FlagsTyped == expired \in BOOLEAN /\ cleaner \in BOOLEAN

RestTyped ==
    /\ status \in {"none", "pending", "authorized"}
    /\ webDevice \in Authorisers \cup {NoDevice}
    /\ devices \subseteq Authorisers /\ provisioned \subseteq Authorisers
    /\ made \in Nat /\ notifyCh \in 0..made /\ closed \subseteq 1..made
    /\ auth \in [Authorisers -> {"idle", "device", "provision", "write", "notify",
                                 "ok", "refused", "lost"}]
    /\ panic \in {"none", "nilSession", "closedTwice"}
    /\ crashes \in 0..MaxCrashes

LEMMA TypeParts == TypeOK <=> PollsTyped /\ FlagsTyped /\ RestTyped
  BY DEF TypeOK, PollsTyped, PollType, FlagsTyped, RestTyped

\* What a step of one poll may leave behind.
LEMMA PollTyped ==
  ASSUME PollsTyped, RestTyped, NEW p \in Polls, NEW q \in PollType,
         q.pc = "waiting" => q.chan # NoChan,
         poll' = [poll EXCEPT ![p] = q], UNCHANGED made
  PROVE  PollsTyped'
<1>1. PollType' = PollType
  BY DEF PollType
<1>2. poll' \in [Polls -> PollType]
  BY DEF PollsTyped
<1>. QED
  BY <1>1, <1>2 DEF PollsTyped

LEMMA AnswerTyped ==
  ASSUME PollsTyped, RestTyped, NEW p \in Polls, UNCHANGED made,
         NEW answer \in {"unknown", "expired", "pending", "paired", "tokenless"},
         NEW device \in Authorisers \cup {NoDevice}, Answers(p, answer, device)
  PROVE  PollsTyped'
<1>1. Poll("idle", NoChan, answer, device) \in PollType
  BY DEF PollType, Poll, NoChan, RestTyped
<1>. QED
  BY <1>1, PollTyped DEF Answers, Poll

LEMMA PairingTypeInit == Init => TypeOK
<1> SUFFICES ASSUME Init PROVE PollsTyped /\ FlagsTyped /\ RestTyped
  BY TypeParts
<1>1. PollsTyped
  BY DEF Init, PollsTyped, PollType, Unasked, Poll, NoChan
<1>2. RestTyped
  BY DEF Init, RestTyped, NoChan
<1>3. FlagsTyped
  BY DEF Init, FlagsTyped
<1>. QED
  BY <1>1, <1>2, <1>3

LEMMA FlagsNext == FlagsTyped /\ [Next]_vars => FlagsTyped'
  BY DEF FlagsTyped, vars, row, stores, channels, Next, CreateSession, MakeChan, CleanNotify, Expire,
         Crash, Dies, PollUnknown, PollRead, PollStep, PollJoin, PollMakeChan, PollWoken, PollTimeOut,
         AuthRead, AuthCreateDevice, AuthProvision, AuthFails, AuthWrite, AuthNotify

LEMMA PairingTypeNext == TypeOK /\ [Next]_vars => TypeOK'
<1> SUFFICES ASSUME PollsTyped, FlagsTyped, RestTyped, [Next]_vars
             PROVE  PollsTyped' /\ RestTyped'
  BY FlagsNext DEF TypeOK, PollsTyped, PollType, FlagsTyped, RestTyped
<1> USE DEF row, stores, channels
<1>p. ASSUME UNCHANGED <<poll, made>> PROVE PollsTyped'
  BY <1>p DEF PollsTyped, PollType
<1>n. ASSUME made' = made + 1, UNCHANGED poll PROVE PollsTyped'
  <2>1. PollType \subseteq PollType'
    BY <1>n DEF PollType, RestTyped
  <2>. QED
    BY <1>n, <2>1 DEF PollsTyped
<1>1. CASE CreateSession
  BY <1>1, <1>n DEF CreateSession, MakeChan, RestTyped
<1>2. CASE CleanNotify \/ Expire
  <2>1. /\ notifyCh' \in {notifyCh, 0}
        /\ UNCHANGED <<status, webDevice, stores, closed, made, poll, auth, panic, crashes>>
    BY <1>2 DEF CleanNotify, Expire, NoChan
  <2>. QED
    BY <2>1, <1>p DEF RestTyped
<1>3. ASSUME Dies, panic' \in {"none", "nilSession", "closedTwice"}
      PROVE  PollsTyped' /\ RestTyped'
  <2>1. PollType' = PollType /\ Unasked \in PollType /\ Unasked.pc = "idle"
    BY <1>3 DEF Dies, PollType, Unasked, Poll, NoChan, RestTyped
  <2>2. PollsTyped'
    BY <1>3, <2>1 DEF Dies, PollsTyped
  <2>3. RestTyped'
    BY <1>3 DEF Dies, RestTyped, NoChan
  <2>. QED
    BY <2>2, <2>3
<1>4. ASSUME NEW p \in Polls, PollRead(p) PROVE PollsTyped' /\ RestTyped'
  <2>1. RestTyped'
    BY <1>4 DEF PollRead, RestTyped
  <2>2. Poll("looking", NoChan, "none", NoDevice) \in PollType
    BY DEF PollType, Poll, NoChan, RestTyped
  <2>3. CASE poll' = [poll EXCEPT ![p] = Poll("looking", NoChan, "none", NoDevice)]
    BY <1>4, <2>1, <2>2, <2>3, PollTyped DEF PollRead, Poll
  <2>4. webDevice \in Authorisers \cup {NoDevice}
    BY DEF RestTyped
  <2>. QED
    BY <1>4, <2>1, <2>3, <2>4, AnswerTyped DEF PollRead, BuildAnswer
<1>5. ASSUME NEW p \in Polls, PollStep(p) PROVE PollsTyped' /\ RestTyped'
  <2>1. CASE PollJoin(p)
    <3>1. Poll("waiting", notifyCh, "none", NoDevice) \in PollType
      BY DEF PollType, Poll, RestTyped
    <3>. QED
      BY <2>1, <3>1, PollTyped DEF PollJoin, Poll, RestTyped
  <2>2. CASE PollMakeChan(p)
    <3>1. made' = made + 1 /\ poll' = [poll EXCEPT ![p] = Poll("waiting", made', "none", NoDevice)]
      BY <2>2 DEF PollMakeChan, MakeChan
    <3>2. PollType \subseteq PollType' /\ Poll("waiting", made', "none", NoDevice) \in PollType'
      BY <3>1 DEF PollType, Poll, RestTyped
    <3>3. made' # NoChan
      BY <3>1 DEF NoChan, RestTyped
    <3>4. PollsTyped'
      BY <3>1, <3>2, <3>3 DEF PollsTyped, Poll
    <3>. QED
      BY <2>2, <3>4 DEF PollMakeChan, MakeChan, RestTyped
  <2>3. CASE PollWoken(p)
    BY <2>3, AnswerTyped DEF PollWoken, BuildAnswer, RestTyped
  <2>4. CASE PollTimeOut(p)
    BY <2>4, AnswerTyped DEF PollTimeOut, RestTyped
  <2>. QED
    BY <1>5, <2>1, <2>2, <2>3, <2>4 DEF PollStep
<1>6. ASSUME NEW a \in Authorisers,
             AuthRead(a) \/ AuthCreateDevice(a) \/ AuthProvision(a) \/ AuthFails(a) \/ AuthWrite(a)
      PROVE  PollsTyped' /\ RestTyped'
  BY <1>6, <1>p
  DEF AuthRead, AuthCreateDevice, AuthProvision, AuthFails, AuthWrite, AuthGoes, RestTyped
<1>7. ASSUME NEW a \in Authorisers, AuthNotify(a) PROVE PollsTyped' /\ RestTyped'
  <2>1. CASE notifyCh \in closed
    BY <1>3, <1>7, <2>1 DEF AuthNotify
  <2>2. CASE notifyCh \notin closed
    <3>1. /\ closed' \subseteq closed \cup {notifyCh} /\ 0 \notin closed'
          /\ notifyCh' = 0 /\ auth' = [auth EXCEPT ![a] = "ok"]
          /\ UNCHANGED <<row, stores, made, poll, panic, crashes>>
      BY <1>7, <2>2 DEF AuthNotify, AuthGoes, NoChan, RestTyped
    <3>. QED
      BY <3>1, <1>p DEF RestTyped
  <2>. QED
    BY <2>1, <2>2
<1>8. CASE UNCHANGED vars
  BY <1>8, <1>p DEF vars, RestTyped
<1>. QED
  BY <1>1, <1>2, <1>3, <1>4, <1>5, <1>6, <1>7, <1>8 DEF Next, Crash, PollUnknown, RestTyped

\* Every variable keeps its type: a channel is known by the number under which
\* it was made, and a poll that waits has one.
THEOREM PairingTypeCorrect == Spec => []TypeOK
  BY PairingTypeInit, PairingTypeNext, PTL DEF Spec

-----------------------------------------------------------------------------
LEMMA PairingInit == Init => PairingInv
  BY DEF Init, PairingInv, AuthOK, RowOK, ChannelsOK, AnswerOK, NoDoubleClose, Unasked, Poll, NoChan

LEMMA PairingNext == TypeOK /\ PairingInv /\ [Next]_vars => PairingInv'
<1> SUFFICES ASSUME PollsTyped, RestTyped, PairingInv, [Next]_vars PROVE PairingInv'
  BY TypeParts
<1> USE DEF PairingInv, AuthOK, RowOK, ChannelsOK, AnswerOK, NoDoubleClose, row, stores, channels
<1>p. poll \in [Polls -> PollType]
  BY DEF PollsTyped
\* A poll is told "paired" only when the row is authorised.
<1>a. ASSUME NEW p \in Polls, NEW q, poll' = [poll EXCEPT ![p] = q],
             q.answer = "paired" => status = "authorized" /\ q.device = webDevice,
             UNCHANGED <<status, webDevice>>
      PROVE  \A r \in Polls : AnswerOK(r)'
  BY <1>p, <1>a
<1>1. CASE CreateSession
  BY <1>1 DEF CreateSession, MakeChan, RestTyped
<1>2. CASE CleanNotify \/ Expire
  BY <1>2 DEF CleanNotify, Expire, RestTyped, NoChan
\* The database and the answers outlive the process.
<1>3. ASSUME Dies, panic' # "closedTwice" PROVE PairingInv'
  <2>1. \A p \in Polls : poll'[p] = poll[p] \/ poll'[p].answer = "none"
    BY <1>3 DEF Dies, Unasked, Poll
  <2>. QED
    BY <1>3, <2>1 DEF Dies, RestTyped, NoChan
<1>4. ASSUME NEW p \in Polls, PollRead(p) PROVE PairingInv'
  <2>1. \A r \in Polls : AnswerOK(r)'
    BY <1>4, <1>a DEF PollRead, BuildAnswer, Answers, Poll
  <2>. QED
    BY <1>4, <2>1 DEF PollRead
<1>5. ASSUME NEW p \in Polls, PollStep(p) PROVE PairingInv'
  <2>1. \A r \in Polls : AnswerOK(r)'
    BY <1>5, <1>a DEF PollStep, PollJoin, PollMakeChan, PollWoken, PollTimeOut,
                      BuildAnswer, Answers, Poll
  <2>2. CASE PollJoin(p) \/ PollWoken(p) \/ PollTimeOut(p)
    BY <2>1, <2>2 DEF PollJoin, PollWoken, PollTimeOut
  <2>3. CASE PollMakeChan(p)
    BY <2>1, <2>3 DEF PollMakeChan, MakeChan, RestTyped
  <2>. QED
    BY <1>5, <2>2, <2>3 DEF PollStep
<1>6. ASSUME NEW a \in Authorisers, AuthRead(a) \/ AuthFails(a) PROVE PairingInv'
  BY <1>6 DEF AuthRead, AuthFails, AuthGoes, RestTyped
<1>7. ASSUME NEW a \in Authorisers, AuthCreateDevice(a) \/ AuthProvision(a) PROVE PairingInv'
  BY <1>7 DEF AuthCreateDevice, AuthProvision, AuthGoes, RestTyped
\* The first of two overlapping authorisations writes the row.
<1>8. ASSUME NEW a \in Authorisers, AuthWrite(a) PROVE PairingInv'
  BY <1>8 DEF AuthWrite, AuthGoes, RestTyped
<1>9. ASSUME NEW a \in Authorisers, AuthNotify(a) PROVE PairingInv'
  BY <1>9 DEF AuthNotify, AuthGoes, RestTyped, NoChan
<1>10. CASE UNCHANGED vars
  BY <1>10 DEF vars
<1>. QED
  BY <1>1, <1>2, <1>3, <1>4, <1>5, <1>6, <1>7, <1>8, <1>9, <1>10 DEF Next, Crash, PollUnknown

LEMMA PairingAlways == Spec => [](TypeOK /\ PairingInv)
  BY PairingTypeInit, PairingTypeNext, PairingInit, PairingNext, PTL DEF Spec

\* Two devices may authorise a session at once, and the process may die between
\* any two steps: the row is written once, and every poll that is told "paired"
\* was answered from it.
THEOREM PairedPollsAgree == Spec => []PollsAgree
<1>1. PairingInv => PollsAgree
  BY DEF PairingInv, AnswerOK, PollsAgree
<1>. QED
  BY <1>1, PairingAlways, PTL

\* The device a poll gets a token for is stored and has its queue, although each
\* call of an authorisation may fail: the row is written after both.
THEOREM PairedDeviceIsProvisioned == Spec => []PairedIsProvisioned
<1>1. PairingInv => PairedIsProvisioned
  BY DEF PairingInv, AnswerOK, RowOK, PairedIsProvisioned
<1>. QED
  BY <1>1, PairingAlways, PTL

\* However many authorisations come to the notification and whatever channels
\* polls make in between: the mutex makes one step of the look-up, the close and
\* the deletion.
THEOREM ChannelsClosedOnce == Spec => []NoDoubleClose
<1>1. PairingInv => NoDoubleClose
  BY DEF PairingInv
<1>. QED
  BY <1>1, PairingAlways, PTL
=============================================================================
