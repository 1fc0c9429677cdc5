--------------------------- MODULE LoginChallenge ---------------------------
(***************************************************************************)
(* Login by challenge and signature: auth_service.go.  LoginInit puts a    *)
(* challenge for the user in a map under a mutex; LoginVerify takes it out *)
(* again, whatever comes of it, and goes on without the mutex: the user,   *)
(* the signature, the device, the token.  A worker evicts what expired.    *)
(* The map lives in memory; users and devices live in the database.        *)
(*                                                                         *)
(* Expiry is a flag that time raises; a signature is good or not.          *)
(***************************************************************************)
EXTENDS Naturals

CONSTANTS Users,
          Challenges,    \* values of generateCryptoChallenge, each drawn once
          Devices,       \* device ids, each drawn once
          Reqs,          \* goroutines of login/verify requests
          NoChallenge, NoDevice, NoUser

ASSUME LoginAssumption ==
    /\ NoChallenge \notin Challenges /\ NoDevice \notin Devices
    /\ NoUser \notin Users

VARIABLES
    challengeCache,   \* per user
    worker,           \* the cleanup goroutine runs
    issuedTo,         \* issuedTo[ch]: the user a challenge was drawn for
    deviceOf,         \* rows of user_devices: the user of a device
    req,              \* what each login/verify does
    minted,           \* minted[ch]: tokens given for a challenge (history)
    tokens,           \* (user, device) pairs of the tokens (history)
    accepted,         \* challenges that passed consumeChallenge (history)
    void              \* challenges replaced, expired, spent or lost (history)

history == <<minted, tokens, accepted, void>>
vars == <<challengeCache, worker, issuedTo, deviceOf, req, history>>

Entry(value, expired) == [value |-> value, expired |-> expired]
Empty == Entry(NoChallenge, FALSE)
Cached(u) == {challengeCache[u].value} \ {NoChallenge}

Request(pc, u, ch, good, d) ==
    [pc |-> pc, user |-> u, challenge |-> ch, good |-> good, device |-> d]
Idle == Request("idle", NoUser, NoChallenge, FALSE, NoDevice)

Ends(r) == req' = [req EXCEPT ![r] = Idle]

-----------------------------------------------------------------------------
Registered(u) == \E d \in Devices : deviceOf[d] = u

\* One transaction stores the user with the keys and a first device; a
\* registration that fails afterwards leaves them.
Register(u, d) ==
    /\ ~Registered(u) /\ deviceOf[d] = NoUser
    /\ deviceOf' = [deviceOf EXCEPT ![d] = u]
    /\ UNCHANGED <<challengeCache, worker, issuedTo, req, history>>

LoginInit(u, ch) ==
    /\ Registered(u) /\ issuedTo[ch] = NoUser
    /\ issuedTo' = [issuedTo EXCEPT ![ch] = u]
    /\ challengeCache' = [challengeCache EXCEPT ![u] = Entry(ch, FALSE)]
    /\ void' = void \cup Cached(u)
    /\ UNCHANGED <<worker, deviceOf, req, minted, tokens, accepted>>

\* challengeTTL has passed.
Expire(u) ==
    /\ challengeCache[u].value # NoChallenge /\ ~challengeCache[u].expired
    /\ challengeCache' = [challengeCache EXCEPT ![u].expired = TRUE]
    /\ void' = void \cup Cached(u)
    /\ UNCHANGED <<worker, issuedTo, deviceOf, req, minted, tokens, accepted>>

\* (mutant) the worker evicts whatever it finds
EvictAll ==
    /\ worker
    /\ challengeCache' = [u \in Users |-> Empty]
    /\ UNCHANGED <<worker, issuedTo, deviceOf, req, history>>

evictExpiredChallenges ==
    /\ worker
    /\ challengeCache' = [u \in Users |->
         IF challengeCache[u].expired THEN Empty ELSE challengeCache[u]]
    /\ UNCHANGED <<worker, issuedTo, deviceOf, req, history>>

Shutdown ==
    /\ worker /\ worker' = FALSE
    /\ UNCHANGED <<challengeCache, issuedTo, deviceOf, req, history>>

-----------------------------------------------------------------------------
(* LoginVerify, with the challenge, the signature and the device the       *)
(* client sends.                                                           *)

\* consumeChallenge accepts ch.
Accepts(u, ch) ==
    challengeCache[u].value = ch /\ ch # NoChallenge /\ ~challengeCache[u].expired

\* (mutant) only an accepted challenge is deleted
ConsumeAccepted(r, u, ch, good, d) ==
    /\ req[r].pc = "idle"
    /\ IF Accepts(u, ch)
       THEN /\ req' = [req EXCEPT ![r] = Request("consumed", u, ch, good, d)]
            /\ challengeCache' = [challengeCache EXCEPT ![u] = Empty]
            /\ accepted' = accepted \cup {ch}
            /\ UNCHANGED void
       ELSE /\ void' = void \cup Cached(u)
            /\ UNCHANGED <<req, accepted, challengeCache>>
    /\ UNCHANGED <<worker, issuedTo, deviceOf, minted, tokens>>

\* (mutant) an accepted challenge stays
ConsumeKeeps(r, u, ch, good, d) ==
    /\ req[r].pc = "idle"
    /\ IF Accepts(u, ch)
       THEN /\ req' = [req EXCEPT ![r] = Request("consumed", u, ch, good, d)]
            /\ accepted' = accepted \cup {ch}
            /\ UNCHANGED <<void, challengeCache>>
       ELSE /\ void' = void \cup Cached(u)
            /\ challengeCache' = [challengeCache EXCEPT ![u] = Empty]
            /\ UNCHANGED <<req, accepted>>
    /\ UNCHANGED <<worker, issuedTo, deviceOf, minted, tokens>>

consumeChallenge(r, u, ch, good, d) ==
    /\ req[r].pc = "idle"
    /\ challengeCache' = [challengeCache EXCEPT ![u] = Empty]
    /\ IF Accepts(u, ch)
       THEN /\ req' = [req EXCEPT ![r] = Request("consumed", u, ch, good, d)]
            /\ accepted' = accepted \cup {ch}
            /\ UNCHANGED void
       ELSE /\ void' = void \cup Cached(u)
            /\ UNCHANGED <<req, accepted>>
    /\ UNCHANGED <<worker, issuedTo, deviceOf, minted, tokens>>

\* The user is read and the signature verified with the user's key.
CheckSignature(r) ==
    /\ req[r].pc = "consumed"
    /\ IF req[r].good
       THEN req' = [req EXCEPT ![r].pc = "device"]
       ELSE Ends(r)
    /\ UNCHANGED <<challengeCache, worker, issuedTo, deviceOf, history>>

\* (mutant) the device is looked up by its id alone
UpdateAnyDevice(r) ==
    LET d == req[r].device IN
    /\ req[r].pc = "device" /\ d # NoDevice
    /\ IF deviceOf[d] # NoUser
       THEN req' = [req EXCEPT ![r].pc = "token"]
       ELSE Ends(r)
    /\ UNCHANGED <<challengeCache, worker, issuedTo, deviceOf, history>>

\* resolveDevice: a device the client names has to be one of the user's.
UpdateDevice(r) ==
    LET d == req[r].device IN
    /\ req[r].pc = "device" /\ d # NoDevice
    /\ IF deviceOf[d] = req[r].user
       THEN req' = [req EXCEPT ![r].pc = "token"]
       ELSE Ends(r)
    /\ UNCHANGED <<challengeCache, worker, issuedTo, deviceOf, history>>

\* resolveDevice: without one a new device is stored.
CreateDevice(r, d) ==
    /\ req[r].pc = "device" /\ req[r].device = NoDevice
    /\ deviceOf[d] = NoUser
    /\ deviceOf' = [deviceOf EXCEPT ![d] = req[r].user]
    /\ req' = [req EXCEPT ![r].pc = "token", ![r].device = d]
    /\ UNCHANGED <<challengeCache, worker, issuedTo, history>>

Mint(r) ==
    /\ req[r].pc = "token"
    /\ minted' = [minted EXCEPT ![req[r].challenge] = @ + 1]
    /\ tokens' = tokens \cup {[user |-> req[r].user, device |-> req[r].device]}
    /\ Ends(r)
    /\ UNCHANGED <<challengeCache, worker, issuedTo, deviceOf, accepted, void>>

\* A database call fails.
Fails(r) ==
    /\ req[r].pc \in {"consumed", "device", "token"}
    /\ Ends(r)
    /\ UNCHANGED <<challengeCache, worker, issuedTo, deviceOf, history>>

\* The process dies and starts again: the map is empty.
Restart ==
    /\ challengeCache' = [u \in Users |-> Empty]
    /\ worker' = TRUE
    /\ req' = [r \in Reqs |-> Idle]
    /\ void' = void \cup UNION {Cached(u) : u \in Users}
    /\ UNCHANGED <<issuedTo, deviceOf, minted, tokens, accepted>>

-----------------------------------------------------------------------------
Init ==
    /\ challengeCache = [u \in Users |-> Empty]
    /\ worker = TRUE
    /\ issuedTo = [ch \in Challenges |-> NoUser]
    /\ deviceOf = [d \in Devices |-> NoUser]
    /\ req = [r \in Reqs |-> Idle]
    /\ minted = [ch \in Challenges |-> 0]
    /\ tokens = {} /\ accepted = {} /\ void = {}

VerifyStep(r) ==
    \/ CheckSignature(r) \/ UpdateDevice(r) \/ Mint(r) \/ Fails(r)
    \/ \E d \in Devices : CreateDevice(r, d)

Next ==
    \/ \E u \in Users :
          \/ \E d \in Devices : Register(u, d)
          \/ \E ch \in Challenges : LoginInit(u, ch)
          \/ Expire(u)
    \/ evictExpiredChallenges \/ Shutdown \/ Restart
    \/ \E r \in Reqs :
          \/ VerifyStep(r)
          \/ \E u \in Users, ch \in Challenges, good \in BOOLEAN,
                d \in Devices \cup {NoDevice} : consumeChallenge(r, u, ch, good, d)

Spec == Init /\ [][Next]_vars

-----------------------------------------------------------------------------
TypeOK ==
    /\ challengeCache \in
         [Users -> [value : Challenges \cup {NoChallenge}, expired : BOOLEAN]]
    /\ worker \in BOOLEAN
    /\ issuedTo \in [Challenges -> Users \cup {NoUser}]
    /\ deviceOf \in [Devices -> Users \cup {NoUser}]
    /\ req \in [Reqs -> [pc : {"idle", "consumed", "device", "token"},
                         user : Users \cup {NoUser},
                         challenge : Challenges \cup {NoChallenge},
                         good : BOOLEAN, device : Devices \cup {NoDevice}]]
    /\ \A r \in Reqs : req[r].pc # "idle" => /\ req[r].user \in Users
                                             /\ req[r].challenge \in Challenges
    /\ \A r \in Reqs : req[r].pc = "token" => req[r].device \in Devices
    /\ minted \in [Challenges -> Nat]
    /\ tokens \subseteq [user : Users, device : Devices]
    /\ accepted \subseteq Challenges /\ void \subseteq Challenges

\* A challenge gives at most one token, however many requests carry it and
\* however they interleave.
SingleUse == \A ch \in Challenges : minted[ch] <= 1

\* "In every case the challenge is deleted": one that was replaced by a newer
\* one, that expired, that was in the map when any attempt of its user failed,
\* or that was there when the process died is never accepted.
VoidIsRefused == accepted \cap void = {}

\* A challenge to which nothing of this happened and that was not used is
\* still in the map: a login that answers it in time is not turned away.
UnusedIsCached ==
    \A ch \in Challenges :
        issuedTo[ch] # NoUser /\ ch \notin accepted \cup void
            => challengeCache[issuedTo[ch]] = Entry(ch, FALSE)

\* A token names a device of the user it is for.
TokenNamesOwnDevice == \A t \in tokens : deviceOf[t.device] = t.user
=============================================================================
