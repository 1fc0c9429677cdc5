---------------------------- MODULE RateLimiter ----------------------------
(***************************************************************************)
(* The sliding window of requests of one client address: rate_limiter.go.  *)
(* record reads the clock, finds or makes the address's windowEntry in a   *)
(* sync.Map, and only then takes the lock of the entry; cleanupWorker      *)
(* takes idle entries out of the map.  Addresses do not interact: the      *)
(* model has one.  Time is counted in ticks, MaxTime bounds it.            *)
(***************************************************************************)
EXTENDS Naturals, FiniteSets

CONSTANTS Reqs,          \* goroutines of requests
          Entries,       \* memory for windowEntry objects
          NoEntry,
          Limit, Window,
          MaxTime,       \* bound of the clock
          MaxKept        \* bound: requests in a window

ASSUME LimiterAssumption ==
    /\ NoEntry \notin Entries
    /\ Limit \in Nat \ {0} /\ Window \in Nat \ {0} /\ MaxTime \in Nat
    /\ MaxKept \in Nat

VARIABLES
    now,         \* the clock
    entry,       \* the address's entry in the map
    timestamps,  \* of each entry, which are filtered and counted
    req,         \* what each request does
    sweep,       \* cleanupWorker: what it has before it
    overlapped,  \* a request or cleanupWorker was interrupted (history)
    admitted     \* until then: timestamps of the requests let through (history)

history == <<overlapped, admitted>>
vars == <<now, entry, timestamps, req, sweep, history>>

\* at: the time record read; in: the entry it uses.
Request(pc, at, in) == [pc |-> pc, at |-> at, in |-> in]
Idle == Request("idle", 0, NoEntry)
\* cutoff + Window, and the entry the worker looks at.
Sweep(at, in) == [at |-> at, in |-> in]
Resting == Sweep(0, NoEntry)

\* The nth of an entry's timestamps with the time t.  The list of an entry is
\* the set of them: only Retry-After depends on its order.
Stamp(t, nth) == [at |-> t, nth |-> nth]
Of(stamps, t) == {s \in stamps : s.at = t}
\* t.After(now.Add(-Window))
Recent(t, at) == t + Window > at
RecentOf(stamps, at) == {s \in stamps : Recent(s.at, at)}
InUse == {entry, sweep.in} \cup {req[r].in : r \in Reqs}
\* What nobody refers to is collected.
Collected(ts) == [e \in Entries |-> IF e \in InUse' THEN ts[e] ELSE {}]

\* Between requests; c.Next() was called or 429 was answered, or nothing yet.
Away == {"idle", "served", "rejected"}
\* The history ends when the clock or cleanupWorker interrupts a request, or
\* a request or the clock interrupts cleanupWorker.
Interrupts(busy) ==
    IF busy THEN overlapped' = TRUE /\ admitted' = {}
            ELSE UNCHANGED history
Serving == \E r \in Reqs : req[r].pc \notin Away
Sweeping == sweep # Resting

-----------------------------------------------------------------------------
Tick ==
    /\ now < MaxTime
    /\ now' = now + 1
    /\ Interrupts(Serving \/ Sweeping)
    /\ UNCHANGED <<entry, timestamps, req, sweep>>

(* record *)

ReadClock(r) ==
    /\ req[r].pc \in Away
    /\ \A e \in Entries : Cardinality(RecentOf(timestamps[e], now)) < MaxKept
    /\ req' = [req EXCEPT ![r] = Request("load", now, NoEntry)]
    /\ Interrupts(Sweeping)
    /\ UNCHANGED <<now, entry, timestamps, sweep>>

LoadEntry(r) ==
    /\ req[r].pc = "load" /\ entry # NoEntry
    /\ req' = [req EXCEPT ![r] = Request("lock", @.at, entry)]
    /\ UNCHANGED <<now, entry, timestamps, sweep, history>>

StoreEntry(r, e) ==
    /\ req[r].pc = "load" /\ entry = NoEntry /\ e \notin InUse
    /\ entry' = e /\ timestamps' = [timestamps EXCEPT ![e] = {}]
    /\ req' = [req EXCEPT ![r] = Request("lock", @.at, e)]
    /\ UNCHANGED <<now, sweep, history>>

Own(r) == Stamp(req[r].at, Cardinality(Of(timestamps[req[r].in], req[r].at)) + 1)
\* The timestamps record leaves: the recent ones and the request's own.
Valid(r) == RecentOf(timestamps[req[r].in], req[r].at) \cup {Own(r)}

Leave(r, stamps) ==
    LET admits == Cardinality(stamps) <= Limit IN
    /\ req[r].pc = "lock"
    /\ req' = [req EXCEPT ![r] = Request(IF admits THEN "served" ELSE "rejected", 0, NoEntry)]
    /\ UNCHANGED <<now, entry, sweep, overlapped>>
    /\ timestamps' = Collected([timestamps EXCEPT ![req[r].in] = stamps])
    /\ admitted' = IF admits /\ ~overlapped
                   THEN admitted \cup {Own(r)} ELSE admitted

\* (mutant) the window's edge is not part of it
RecordForgetsEdge(r) ==
    Leave(r, {s \in timestamps[req[r].in] : s.at + Window > req[r].at + 1} \cup {Own(r)})

\* (mutant) old timestamps stay
RecordKeepsAll(r) == Leave(r, timestamps[req[r].in] \cup {Own(r)})

\* Under the entry's lock; a rejected request is recorded like an admitted one.
Record(r) == Leave(r, Valid(r))

-----------------------------------------------------------------------------
(* cleanupWorker: cutoff first, then the entry under its lock.             *)

SweepStarts ==
    /\ sweep = Resting /\ entry # NoEntry
    /\ sweep' = Sweep(now, entry)
    /\ Interrupts(Serving)
    /\ UNCHANGED <<now, entry, timestamps, req>>

SweepEntry ==
    /\ Sweeping
    /\ entry' = IF RecentOf(timestamps[sweep.in], sweep.at) = {} THEN NoEntry ELSE entry
    /\ sweep' = Resting
    /\ UNCHANGED <<now, req, history>>
    /\ timestamps' = Collected(timestamps)

-----------------------------------------------------------------------------
Init ==
    /\ now = 0
    /\ entry = NoEntry
    /\ timestamps = [e \in Entries |-> {}]
    /\ req = [r \in Reqs |-> Idle]
    /\ sweep = Resting
    /\ overlapped = FALSE /\ admitted = {}

Next ==
    \/ Tick \/ SweepStarts \/ SweepEntry
    \/ \E r \in Reqs : \/ ReadClock(r) \/ LoadEntry(r) \/ Record(r)
                       \/ \E e \in Entries : StoreEntry(r, e)

Spec == Init /\ [][Next]_vars

-----------------------------------------------------------------------------
TypeOK ==
    /\ now \in 0..MaxTime
    /\ entry \in Entries \cup {NoEntry}
    /\ timestamps \in [Entries -> SUBSET [at : 0..MaxTime, nth : Nat]]
    /\ \A e \in Entries : IsFiniteSet(timestamps[e])
    /\ req \in [Reqs -> [pc : Away \cup {"load", "lock"}, at : 0..MaxTime,
                         in : Entries \cup {NoEntry}]]
    /\ \A r \in Reqs : req[r].pc = "lock" => req[r].in \in Entries
    /\ sweep \in [at : 0..MaxTime, in : Entries \cup {NoEntry}]
    /\ admitted \subseteq [at : 0..MaxTime, nth : Nat]
    /\ overlapped \in BOOLEAN

AdmittedFrom(t) == {s \in admitted : s.at >= t /\ s.at < t + Window}
\* "in any window of 60 seconds at most Limit requests": whichever window of
\* Window ticks one takes and however the requests in it are interleaved, as
\* long as the clock does not tick and the worker does not run inside record.
WithinLimit ==
    \A t \in 0..MaxTime : Cardinality(AdmittedFrom(t)) <= Limit

Decides(r) == req[r].pc = "lock" /\ req'[r].pc # "lock"

\* An address that has been quiet for a window is let in: what it sent before,
\* admitted or not, is not held against it.
ServedIfQuiet(r) ==
    /\ Decides(r)
    /\ \A e \in Entries : RecentOf(timestamps[e], req[r].at) = {}
    => req'[r].pc = "served"
QuietIsForgiven == [][\A r \in Reqs : ServedIfQuiet(r)]_vars
=============================================================================
