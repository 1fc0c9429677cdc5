----------------------- MODULE LoginChallenge_proofs -----------------------
(***************************************************************************)
(* A challenge is good for one login, and a void one for none; tokens name *)
(* devices of their users.  For any number of users, challenges, devices   *)
(* and requests.                                                           *)
(***************************************************************************)
EXTENDS LoginChallenge, TLAPS

USE LoginAssumption

\* The challenge in the map belongs to its user, was never accepted, and is
\* void as soon as it has expired and not before.
CacheOK ==
    \A u \in Users : LET ch == challengeCache[u].value IN
        ch # NoChallenge => /\ issuedTo[ch] = u
                            /\ ch \notin accepted
                            /\ ch \in void <=> challengeCache[u].expired

\* A challenge nobody has drawn has no history.
DrawnOK ==
    \A ch \in accepted \cup void : issuedTo[ch] # NoUser

\* A request that passed consumeChallenge has the challenge for itself, and no
\* token was given for it.
RequestOK(r) ==
    req[r].pc # "idle" =>
        /\ req[r].challenge \in accepted
        /\ minted[req[r].challenge] = 0
        /\ \A q \in Reqs : req[q].pc # "idle" /\ req[q].challenge = req[r].challenge => q = r

MintedOK ==
    \A ch \in Challenges : minted[ch] <= 1 /\ (minted[ch] # 0 => ch \in accepted)

DeviceOK ==
    /\ \A r \in Reqs : req[r].pc = "token" => deviceOf[req[r].device] = req[r].user
    /\ TokenNamesOwnDevice

ChallengeInv ==
    /\ CacheOK /\ DrawnOK
    /\ \A r \in Reqs : RequestOK(r)
    /\ MintedOK /\ VoidIsRefused /\ UnusedIsCached

-----------------------------------------------------------------------------
LEMMA TypeInit == Init => TypeOK
  BY DEF Init, TypeOK, Empty, Entry, Idle, Request

RequestType == [pc : {"idle", "consumed", "device", "token"}, user : Users \cup {NoUser},
                challenge : Challenges \cup {NoChallenge}, good : BOOLEAN,
                device : Devices \cup {NoDevice}]

RequestsTyped ==
    /\ req \in [Reqs -> RequestType]
    /\ \A r \in Reqs : req[r].pc # "idle" => /\ req[r].user \in Users
                                             /\ req[r].challenge \in Challenges
    /\ \A r \in Reqs : req[r].pc = "token" => req[r].device \in Devices

\* A step of a request that only ends it or moves it on.
LEMMA EndsTyped ==
  ASSUME TypeOK, NEW r \in Reqs, Ends(r)
  PROVE  RequestsTyped'
  BY DEF TypeOK, RequestsTyped, RequestType, Ends, Idle, Request

LEMMA MovesTyped ==
  ASSUME TypeOK, NEW r \in Reqs, NEW pc \in {"device", "token"}, req[r].pc # "idle",
         pc = "token" => req[r].device \in Devices,
         req' = [req EXCEPT ![r].pc = pc]
  PROVE  RequestsTyped'
<1>1. req \in [Reqs -> RequestType] /\ RequestsTyped
  BY DEF TypeOK, RequestsTyped, RequestType
<1>2. [req[r] EXCEPT !.pc = pc] \in RequestType
  BY <1>1 DEF RequestType
<1>3. req' \in [Reqs -> RequestType]
  BY <1>1, <1>2
<1>4. \A q \in Reqs : /\ req'[q].user = req[q].user /\ req'[q].challenge = req[q].challenge
                      /\ req'[q].device = req[q].device
                      /\ q # r => req'[q].pc = req[q].pc
  BY <1>1 DEF RequestType
<1>5. req'[r].pc = pc
  BY <1>1 DEF RequestType
<1>. QED
  BY <1>1, <1>3, <1>4, <1>5 DEF RequestsTyped

LEMMA TypeNext == TypeOK /\ [Next]_vars => TypeOK'
<1> SUFFICES ASSUME TypeOK, [Next]_vars PROVE TypeOK'
  OBVIOUS
<1> USE DEF TypeOK, history, Entry, Empty, Request, Idle, Ends, Cached
<1>1. ASSUME NEW u \in Users, NEW ch \in Challenges, LoginInit(u, ch) PROVE TypeOK'
  BY <1>1 DEF LoginInit
<1>2. ASSUME NEW u \in Users, Expire(u) PROVE TypeOK'
  <2>1. /\ challengeCache' = [challengeCache EXCEPT ![u].expired = TRUE]
        /\ void' = void \cup Cached(u)
        /\ UNCHANGED <<worker, issuedTo, deviceOf, req, minted, tokens, accepted>>
    BY <1>2 DEF Expire
  <2>2. challengeCache' \in [Users -> [value : Challenges \cup {NoChallenge}, expired : BOOLEAN]]
    <3>1. [challengeCache[u] EXCEPT !.expired = TRUE]
            \in [value : Challenges \cup {NoChallenge}, expired : BOOLEAN]
      <4>1. challengeCache[u] \in [value : Challenges \cup {NoChallenge}, expired : BOOLEAN]
        OBVIOUS
      <4>. QED
        BY <4>1
    <3>. QED
      BY <2>1, <3>1
  <2>3. void' \subseteq Challenges
    BY <2>1
  <2>. QED
    BY <2>1, <2>2, <2>3
<1>3. CASE evictExpiredChallenges
  BY <1>3 DEF evictExpiredChallenges
<1>4. CASE Shutdown
  BY <1>4 DEF Shutdown
<1>5. CASE Restart
  BY <1>5 DEF Restart
<1>6. ASSUME NEW r \in Reqs, CheckSignature(r) PROVE TypeOK'
  <2>1. RequestsTyped'
    BY <1>6, EndsTyped, MovesTyped DEF CheckSignature
  <2>. QED
    BY <1>6, <2>1 DEF CheckSignature, RequestsTyped, RequestType
<1>7. ASSUME NEW r \in Reqs, UpdateDevice(r) PROVE TypeOK'
  <2>1. RequestsTyped'
    BY <1>7, EndsTyped, MovesTyped DEF UpdateDevice
  <2>. QED
    BY <1>7, <2>1 DEF UpdateDevice, RequestsTyped, RequestType
<1>8. ASSUME NEW r \in Reqs, NEW d \in Devices, CreateDevice(r, d) PROVE TypeOK'
  BY <1>8 DEF CreateDevice
<1>9. ASSUME NEW r \in Reqs, Mint(r) PROVE TypeOK'
  BY <1>9 DEF Mint
<1>10. ASSUME NEW r \in Reqs, Fails(r) PROVE TypeOK'
  BY <1>10 DEF Fails
<1>11. ASSUME NEW r \in Reqs, NEW u \in Users, NEW ch \in Challenges, NEW good \in BOOLEAN,
              NEW d \in Devices \cup {NoDevice}, consumeChallenge(r, u, ch, good, d)
       PROVE  TypeOK'
  <2>1. CASE Accepts(u, ch)
    BY <1>11, <2>1, SMTT(20) DEF consumeChallenge, Accepts
  <2>2. CASE ~Accepts(u, ch)
    BY <1>11, <2>2 DEF consumeChallenge, Accepts
  <2>. QED
    BY <2>1, <2>2
<1>12. ASSUME NEW u \in Users, NEW d \in Devices, Register(u, d) PROVE TypeOK'
  BY <1>12 DEF Register
<1>13. CASE UNCHANGED vars
  BY <1>13 DEF vars
<1>. QED
  BY <1>1, <1>2, <1>3, <1>4, <1>5, <1>6, <1>7, <1>8, <1>9, <1>10, <1>11, <1>12, <1>13
  DEF Next, VerifyStep

\* Every variable keeps its type; a request that goes on has a user and a
\* challenge, and a device once it comes to the token.
THEOREM LoginTypeCorrect == Spec => []TypeOK
  BY TypeInit, TypeNext, PTL DEF Spec

-----------------------------------------------------------------------------
LEMMA ChallengeInit == Init => ChallengeInv
  BY DEF Init, ChallengeInv, CacheOK, DrawnOK, RequestOK, MintedOK, VoidIsRefused, UnusedIsCached,
         Empty, Entry, Idle, Request

LEMMA ChallengeNext == TypeOK /\ ChallengeInv /\ [Next]_vars => ChallengeInv'
<1> SUFFICES ASSUME TypeOK, ChallengeInv, [Next]_vars PROVE ChallengeInv'
  OBVIOUS
<1> USE DEF TypeOK, ChallengeInv, CacheOK, DrawnOK, RequestOK, MintedOK, VoidIsRefused,
            UnusedIsCached, history, Entry, Empty, Request, Idle, Ends, Cached
<1>1. ASSUME NEW u \in Users, NEW ch \in Challenges, LoginInit(u, ch) PROVE ChallengeInv'
  <2>1. /\ issuedTo[ch] = NoUser /\ issuedTo' = [issuedTo EXCEPT ![ch] = u]
        /\ challengeCache' = [challengeCache EXCEPT ![u] = Entry(ch, FALSE)]
        /\ void' = void \cup Cached(u) /\ UNCHANGED <<req, minted, accepted>>
    BY <1>1 DEF LoginInit
  <2>2. ch \notin accepted \cup void /\ ch \notin Cached(u)
    BY <2>1
  <2>3. CacheOK'
    BY <2>1, <2>2
  <2>4. DrawnOK'
    BY <2>1
  <2>5. VoidIsRefused'
    BY <2>1
  <2>6. UnusedIsCached'
    <3>1. ASSUME NEW c \in Challenges, issuedTo'[c] # NoUser, c \notin accepted' \cup void'
          PROVE  challengeCache'[issuedTo'[c]] = Entry(c, FALSE)
      <4>1. CASE c = ch
        BY <2>1, <4>1
      <4>2. CASE c # ch
        <5>1. issuedTo'[c] = issuedTo[c] /\ challengeCache[issuedTo[c]] = Entry(c, FALSE)
          BY <2>1, <3>1, <4>2
        <5>2. issuedTo[c] # u
          BY <2>1, <3>1, <5>1
        <5>. QED
          BY <2>1, <3>1, <5>1, <5>2
      <4>. QED
        BY <4>1, <4>2
    <3>. QED
      BY <3>1
  <2>7. MintedOK' /\ \A r \in Reqs : RequestOK(r)'
    BY <2>1
  <2>. QED
    BY <2>3, <2>4, <2>5, <2>6, <2>7
<1>2. ASSUME NEW u \in Users, Expire(u) PROVE ChallengeInv'
  BY <1>2 DEF Expire
<1>3. CASE evictExpiredChallenges
  BY <1>3 DEF evictExpiredChallenges
<1>4. CASE Shutdown
  BY <1>4 DEF Shutdown
<1>5. CASE Restart
  BY <1>5 DEF Restart
<1>m. ASSUME UNCHANGED <<challengeCache, issuedTo, history>>,
             \A q \in Reqs : req'[q].pc # "idle" =>
                req[q].pc # "idle" /\ req'[q].challenge = req[q].challenge
      PROVE  ChallengeInv'
  <2>1. \A q \in Reqs : RequestOK(q)'
    BY <1>m
  <2>. QED
    BY <1>m, <2>1
<1>6. ASSUME NEW r \in Reqs, CheckSignature(r) PROVE ChallengeInv'
  <2>1. \A q \in Reqs : req'[q].pc # "idle" =>
           req[q].pc # "idle" /\ req'[q].challenge = req[q].challenge
    BY <1>6 DEF CheckSignature
  <2>. QED
    BY <1>6, <1>m, <2>1 DEF CheckSignature
<1>7. ASSUME NEW r \in Reqs, UpdateDevice(r) PROVE ChallengeInv'
  <2>1. \A q \in Reqs : req'[q].pc # "idle" =>
           req[q].pc # "idle" /\ req'[q].challenge = req[q].challenge
    <3>1. Ends(r) \/ (req[r].pc = "device" /\ req' = [req EXCEPT ![r].pc = "token"])
      BY <1>7 DEF UpdateDevice
    <3>. QED
      BY <3>1
  <2>. QED
    BY <1>7, <1>m, <2>1 DEF UpdateDevice
<1>8. ASSUME NEW r \in Reqs, NEW d \in Devices, CreateDevice(r, d) PROVE ChallengeInv'
  BY <1>8 DEF CreateDevice
<1>9. ASSUME NEW r \in Reqs, Mint(r) PROVE ChallengeInv'
  BY <1>9 DEF Mint
<1>10. ASSUME NEW r \in Reqs, Fails(r) PROVE ChallengeInv'
  BY <1>10 DEF Fails
<1>11. ASSUME NEW r \in Reqs, NEW u \in Users, NEW ch \in Challenges, NEW good \in BOOLEAN,
              NEW d \in Devices \cup {NoDevice}, consumeChallenge(r, u, ch, good, d)
       PROVE  ChallengeInv'
  <2>1. CASE Accepts(u, ch)
    BY <1>11, <2>1, SMTT(20) DEF consumeChallenge, Accepts
  <2>2. CASE ~Accepts(u, ch)
    BY <1>11, <2>2 DEF consumeChallenge, Accepts
  <2>. QED
    BY <2>1, <2>2
<1>12. ASSUME NEW u \in Users, NEW d \in Devices, Register(u, d) PROVE ChallengeInv'
  BY <1>12, <1>m DEF Register
<1>13. CASE UNCHANGED vars
  BY <1>13 DEF vars
<1>. QED
  BY <1>1, <1>2, <1>3, <1>4, <1>5, <1>6, <1>7, <1>8, <1>9, <1>10, <1>11, <1>12, <1>13
  DEF Next, VerifyStep

LEMMA ChallengeAlways == Spec => [](TypeOK /\ ChallengeInv)
  BY TypeInit, TypeNext, ChallengeInit, ChallengeNext, PTL DEF Spec

\* However many login/verify requests carry a challenge and however they
\* interleave, at most one token is given for it: consumeChallenge takes it out
\* of the map under the mutex, and nothing puts it back.
THEOREM ChallengeSingleUse == Spec => []SingleUse
<1>1. TypeOK /\ ChallengeInv => SingleUse
  BY DEF ChallengeInv, MintedOK, SingleUse
<1>. QED
  BY <1>1, ChallengeAlways, PTL

\* A challenge that was replaced, that expired, that a failed attempt removed or
\* that was lost with the process is never accepted.
THEOREM ChallengeVoidIsRefused == Spec => []VoidIsRefused
<1>1. TypeOK /\ ChallengeInv => VoidIsRefused
  BY DEF ChallengeInv
<1>. QED
  BY <1>1, ChallengeAlways, PTL

\* A challenge that is good can be used: the worker, other users and their
\* attempts do not remove it.
THEOREM ChallengeUnusedIsCached == Spec => []UnusedIsCached
<1>1. TypeOK /\ ChallengeInv => UnusedIsCached
  BY DEF ChallengeInv
<1>. QED
  BY <1>1, ChallengeAlways, PTL

-----------------------------------------------------------------------------
LEMMA DeviceInit == Init => DeviceOK
  BY DEF Init, DeviceOK, TokenNamesOwnDevice, Idle, Request

LEMMA DeviceNext == TypeOK /\ DeviceOK /\ [Next]_vars => DeviceOK'
<1> SUFFICES ASSUME TypeOK, DeviceOK, [Next]_vars PROVE DeviceOK'
  OBVIOUS
<1> USE DEF TypeOK, DeviceOK, TokenNamesOwnDevice, history, Request, Idle, Ends
<1>1. ASSUME NEW r \in Reqs, VerifyStep(r) PROVE DeviceOK'
  <2>1. CASE CheckSignature(r)
    BY <2>1 DEF CheckSignature
  <2>2. CASE UpdateDevice(r)
    BY <2>2 DEF UpdateDevice
  <2>3. ASSUME NEW d \in Devices, CreateDevice(r, d) PROVE DeviceOK'
    BY <2>3 DEF CreateDevice
  <2>4. CASE Mint(r)
    BY <2>4 DEF Mint
  <2>5. CASE Fails(r)
    BY <2>5 DEF Fails
  <2>. QED
    BY <1>1, <2>1, <2>2, <2>3, <2>4, <2>5 DEF VerifyStep
<1>2. ASSUME NEW r \in Reqs, NEW u \in Users, NEW ch \in Challenges, NEW good \in BOOLEAN,
             NEW d \in Devices \cup {NoDevice}, consumeChallenge(r, u, ch, good, d)
      PROVE  DeviceOK'
  BY <1>2 DEF consumeChallenge
<1>3. CASE Restart
  BY <1>3 DEF Restart
<1>r. ASSUME NEW u \in Users, NEW d \in Devices, Register(u, d) PROVE DeviceOK'
  BY <1>r DEF Register
<1>4. CASE (\E u \in Users : Expire(u) \/ \E ch \in Challenges : LoginInit(u, ch))
           \/ evictExpiredChallenges \/ Shutdown \/ UNCHANGED vars
  BY <1>4 DEF Expire, LoginInit, evictExpiredChallenges, Shutdown, vars
<1>. QED
  BY <1>1, <1>2, <1>3, <1>r, <1>4 DEF Next

\* resolveDevice lets no client take a token for a device of somebody else, nor
\* does a device change hands between the look-up and the token.
THEOREM TokensNameOwnDevices == Spec => []TokenNamesOwnDevice
<1>1. DeviceOK => TokenNamesOwnDevice
  BY DEF DeviceOK
<1>. QED
  BY <1>1, TypeInit, TypeNext, DeviceInit, DeviceNext, PTL DEF Spec
=============================================================================
