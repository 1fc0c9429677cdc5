------------------------- MODULE RateLimiter_proofs -------------------------
(***************************************************************************)
(* As long as nothing interrupts record, no window sees more than Limit    *)
(* requests admitted, and a quiet address is let in always.  For any       *)
(* requests, entries, limit and window.                                    *)
(*                                                                         *)
(* The timestamps of an entry are counted to decide, so the proof is that  *)
(* an admitted request is counted as long as it is recent: until then the  *)
(* map leads to the entry that has it (Counted), which neither a request   *)
(* in between replaces nor the worker deletes (Serial), and the timestamp  *)
(* is told from all others of the entry (NumberedOK).                      *)
(***************************************************************************)
EXTENDS RateLimiter, FiniteSetTheorems, TLAPS

USE LimiterAssumption DEF LimiterAssumption

Stamps == [at : 0..MaxTime, nth : Nat]

\* A tick's timestamps in an entry are numbered from 1.
NumberedOK ==
    \A e \in Entries : \A s \in timestamps[e] : s.nth <= Cardinality(Of(timestamps[e], s.at))

\* A request that has the entry has it from the map, and the worker works alone.
Serial ==
    /\ \A r \in Reqs : req[r].pc \notin Away => req[r].at = now /\ ~Sweeping
    /\ \A r \in Reqs : req[r].pc = "lock" => req[r].in = entry
    /\ Sweeping => sweep = Sweep(now, entry) /\ entry # NoEntry

\* What was admitted lately is in the entry the map leads to.
Counted ==
    \A s \in admitted :
        /\ s.at <= now
        /\ Recent(s.at, now) => entry # NoEntry /\ s \in timestamps[entry]

LimiterInv == TypeOK /\ NumberedOK /\ (~overlapped => Serial /\ Counted) /\ WithinLimit

-----------------------------------------------------------------------------
LEMMA LimiterInit == Init => LimiterInv
<1> SUFFICES ASSUME Init PROVE LimiterInv
  OBVIOUS
<1>1. IsFiniteSet({}) /\ Cardinality({}) = 0
  BY FS_EmptySet
<1>2. TypeOK
  <2>1. [pc |-> "idle", at |-> 0, in |-> NoEntry]
          \in [pc : Away \cup {"load", "lock"}, at : 0..MaxTime, in : Entries \cup {NoEntry}]
    BY DEF Away
  <2>. QED
    BY <1>1, <2>1 DEF Init, TypeOK, Idle, Request, Resting, Sweep
<1>3. WithinLimit
  <2>1. \A t : AdmittedFrom(t) = {}
    BY DEF Init, AdmittedFrom
  <2>. QED
    BY <1>1, <2>1 DEF WithinLimit
<1>. QED
  BY <1>2, <1>3 DEF Init, LimiterInv, NumberedOK, Serial, Counted, Idle, Request, Away, Sweeping

\* The timestamps an entry keeps are either a filtered list, whole ticks of it,
\* or that and one more.
LEMMA Filtered ==
  ASSUME NEW S \in SUBSET Stamps, IsFiniteSet(S), NEW at \in 0..MaxTime,
         \A s \in S : s.nth <= Cardinality(Of(S, s.at)),
         NEW own, own = Stamp(at, Cardinality(Of(S, at)) + 1),
         NEW T, T = RecentOf(S, at) \cup {own}
  PROVE  /\ own \in Stamps /\ own \notin S
         /\ T \in SUBSET Stamps /\ IsFiniteSet(T)
         /\ \A s \in T : s.nth <= Cardinality(Of(T, s.at))
<1>1. \A t : IsFiniteSet(Of(S, t)) /\ Cardinality(Of(S, t)) \in Nat
  BY FS_Subset, FS_CardinalityType DEF Of
<1>2. own \in Stamps /\ own \notin S /\ own \notin Of(S, at)
  <2>1. own.at = at /\ own.nth = Cardinality(Of(S, at)) + 1 /\ own \in Stamps
    BY <1>1 DEF Stamp, Stamps
  <2>2. own \notin S
    BY <1>1, <2>1
  <2>. QED
    BY <2>1, <2>2 DEF Of
<1>3. IsFiniteSet(RecentOf(S, at))
  BY FS_Subset DEF RecentOf
<1>4. T \in SUBSET Stamps /\ IsFiniteSet(T)
  BY <1>2, <1>3, FS_AddElement DEF RecentOf
<1>5. Of(T, at) = Of(S, at) \cup {own}
  BY DEF Of, RecentOf, Recent, Stamp, Stamps
<1>6. Cardinality(Of(T, at)) = Cardinality(Of(S, at)) + 1
  <2> DEFINE before == Of(S, at)
  <2>1. IsFiniteSet(before) /\ own \notin before /\ Of(T, at) = before \cup {own}
    BY <1>1, <1>2, <1>5
  <2> HIDE DEF before
  <2>2. Cardinality(Of(T, at)) = Cardinality(before) + 1
    BY <2>1, FS_AddElement
  <2>. QED
    BY <2>2 DEF before
<1>7. ASSUME NEW s \in T PROVE s.nth <= Cardinality(Of(T, s.at))
  <2>1. CASE s.at = at
    <3>1. s = own \/ (s \in S /\ s.nth \in Nat)
      BY <1>7 DEF RecentOf, Stamps
    <3>. QED
      BY <1>1, <1>6, <2>1, <3>1 DEF Stamp
  <2>2. CASE s.at # at
    <3>1. s \in S /\ Recent(s.at, at)
      BY <1>7, <2>2 DEF RecentOf, Stamp
    <3>2. Of(T, s.at) = Of(S, s.at)
      BY <2>2, <3>1 DEF Of, RecentOf, Stamp
    <3>. QED
      BY <3>1, <3>2
  <2>. QED
    BY <2>1, <2>2
<1>. QED
  BY <1>2, <1>4, <1>7

\* Steps that change no list, except that they give an entry up or begin it.
LEMMA NumbersKept ==
  ASSUME LimiterInv,
         \A e \in Entries : timestamps'[e] = timestamps[e] \/ timestamps'[e] = {}
  PROVE  NumberedOK' /\ \A e \in Entries : IsFiniteSet(timestamps'[e])
                                           /\ timestamps'[e] \in SUBSET Stamps
  BY FS_EmptySet DEF LimiterInv, NumberedOK, TypeOK, Stamps

LEMMA LimitKept == ASSUME LimiterInv, admitted' \in {admitted, {}} PROVE WithinLimit'
<1>1. CASE admitted' = admitted
  BY <1>1 DEF LimiterInv, WithinLimit, AdmittedFrom
<1>2. CASE admitted' = {}
  <2>1. \A t : AdmittedFrom(t)' = {}
    BY <1>2 DEF AdmittedFrom
  <2>. QED
    BY <2>1, FS_EmptySet DEF WithinLimit
<1>. QED
  BY <1>1, <1>2

-----------------------------------------------------------------------------
LEMMA TickKeeps == ASSUME LimiterInv, Tick PROVE LimiterInv'
<1>1. TypeOK'
  <2>1. now' \in 0..MaxTime
    BY DEF LimiterInv, TypeOK, Tick
  <2>. QED
    BY <2>1 DEF LimiterInv, TypeOK, Tick, Interrupts, history
<1>2. NumberedOK' /\ WithinLimit'
  BY NumbersKept, LimitKept DEF Tick, Interrupts, history
<1>3. ASSUME ~overlapped' PROVE Serial' /\ Counted'
  <2>1. ~overlapped /\ ~Serving /\ ~Sweeping /\ admitted' = admitted
    BY <1>3 DEF Tick, Interrupts, history
  <2>2. Serial'
    <3>1. \A r \in Reqs : req'[r].pc \in Away
      BY <2>1 DEF Tick, Serving
    <3>2. ~Sweeping'
      BY <2>1 DEF Tick, Sweeping
    <3>. QED
      BY <3>1, <3>2 DEF Serial, Away
  <2>3. Counted'
    BY <2>1 DEF Tick, LimiterInv, Counted, Recent, TypeOK
  <2>. QED
    BY <2>2, <2>3
<1>. QED
  BY <1>1, <1>2, <1>3 DEF LimiterInv

LEMMA ReadClockKeeps == ASSUME LimiterInv, NEW r \in Reqs, ReadClock(r) PROVE LimiterInv'
<1>1. TypeOK'
  BY DEF LimiterInv, TypeOK, ReadClock, Interrupts, history, Request, Away
<1>2. NumberedOK' /\ WithinLimit'
  BY NumbersKept, LimitKept DEF ReadClock, Interrupts, history
<1>3. ASSUME ~overlapped' PROVE Serial' /\ Counted'
  <2>1. ~overlapped /\ ~Sweeping /\ admitted' = admitted
    BY <1>3 DEF ReadClock, Interrupts, history
  <2>2. Serial'
    BY <2>1 DEF ReadClock, LimiterInv, TypeOK, Serial, Sweeping, Request, Away
  <2>3. Counted'
    BY <2>1 DEF ReadClock, LimiterInv, Counted
  <2>. QED
    BY <2>2, <2>3
<1>. QED
  BY <1>1, <1>2, <1>3 DEF LimiterInv

LEMMA LoadEntryKeeps == ASSUME LimiterInv, NEW r \in Reqs, LoadEntry(r) PROVE LimiterInv'
<1>1. TypeOK'
  BY DEF LimiterInv, TypeOK, LoadEntry, Request, history, Away
<1>2. NumberedOK' /\ WithinLimit'
  BY NumbersKept, LimitKept DEF LoadEntry, history
<1>3. ~overlapped' => Serial' /\ Counted'
  BY DEF LoadEntry, Request, LimiterInv, TypeOK, Serial, Sweeping, Away, Counted, history
<1>. QED
  BY <1>1, <1>2, <1>3 DEF LimiterInv

LEMMA StoreEntryKeeps ==
  ASSUME LimiterInv, NEW r \in Reqs, NEW e \in Entries, StoreEntry(r, e) PROVE LimiterInv'
<1>0. \A f \in Entries : timestamps'[f] = timestamps[f] \/ timestamps'[f] = {}
  BY DEF LimiterInv, TypeOK, StoreEntry
<1>1. TypeOK'
  <2>1. timestamps' \in [Entries -> SUBSET Stamps]
    BY DEF LimiterInv, TypeOK, StoreEntry, Stamps
  <2>2. \A f \in Entries : IsFiniteSet(timestamps'[f])
    BY <1>0, NumbersKept
  <2>3. req' \in [Reqs -> [pc : Away \cup {"load", "lock"}, at : 0..MaxTime,
                           in : Entries \cup {NoEntry}]]
        /\ \A q \in Reqs : req'[q].pc = "lock" => req'[q].in \in Entries
    <3>1. req[r].at \in 0..MaxTime
      BY DEF LimiterInv, TypeOK
    <3>2. req' = [req EXCEPT ![r] = [pc |-> "lock", at |-> req[r].at, in |-> e]]
      BY DEF StoreEntry, Request
    <3>. QED
      BY <3>1, <3>2 DEF LimiterInv, TypeOK, Away
  <2>. QED
    BY <2>1, <2>2, <2>3 DEF LimiterInv, TypeOK, StoreEntry, history, Stamps
<1>2. NumberedOK' /\ WithinLimit'
  BY <1>0, NumbersKept, LimitKept DEF StoreEntry, history
<1>3. ASSUME ~overlapped' PROVE Serial' /\ Counted'
  <2>1. ~overlapped /\ Serial /\ Counted /\ entry = NoEntry /\ req[r].pc = "load"
    BY <1>3 DEF StoreEntry, LimiterInv, history
  <2>2. Serial'
    <3>1. \A q \in Reqs : req[q].pc # "lock"
      BY <2>1 DEF Serial, LimiterInv, TypeOK
    <3>. QED
      BY <2>1, <3>1 DEF StoreEntry, Request, LimiterInv, TypeOK, Serial, Sweeping, Away
  <2>3. Counted'
    BY <2>1 DEF StoreEntry, Counted, history
  <2>. QED
    BY <2>2, <2>3
<1>. QED
  BY <1>1, <1>2, <1>3 DEF LimiterInv

LEMMA SweepStartsKeeps == ASSUME LimiterInv, SweepStarts PROVE LimiterInv'
<1>1. TypeOK'
  BY DEF LimiterInv, TypeOK, SweepStarts, Interrupts, history, Sweep
<1>2. NumberedOK' /\ WithinLimit'
  BY NumbersKept, LimitKept DEF SweepStarts, Interrupts, history
<1>3. ~overlapped' => Serial' /\ Counted'
  BY DEF SweepStarts, Interrupts, history, Serving, LimiterInv, Serial, Sweeping, Counted
<1>. QED
  BY <1>1, <1>2, <1>3 DEF LimiterInv

LEMMA SweepEntryKeeps == ASSUME LimiterInv, SweepEntry PROVE LimiterInv'
<1>0. \A f \in Entries : timestamps'[f] = timestamps[f] \/ timestamps'[f] = {}
  BY DEF SweepEntry, Collected
<1>1. TypeOK'
  <2>1. timestamps' \in [Entries -> SUBSET Stamps]
    BY DEF LimiterInv, TypeOK, SweepEntry, Collected, Stamps
  <2>2. \A f \in Entries : IsFiniteSet(timestamps'[f])
    BY <1>0, NumbersKept
  <2>. QED
    BY <2>1, <2>2 DEF LimiterInv, TypeOK, SweepEntry, history, Stamps, Resting, Sweep
<1>2. NumberedOK' /\ WithinLimit'
  BY <1>0, NumbersKept, LimitKept DEF SweepEntry, history
<1>3. ASSUME ~overlapped' PROVE Serial' /\ Counted'
  <2>1. ~overlapped /\ Serial /\ Counted /\ Sweeping
    BY <1>3 DEF SweepEntry, LimiterInv, history
  <2>2. Serial'
    BY <2>1 DEF SweepEntry, Serial, Sweeping, Away
  <2>3. ASSUME NEW s \in admitted
        PROVE  s.at <= now /\ (Recent(s.at, now) => entry' # NoEntry /\ s \in timestamps'[entry'])
    <3>1. s.at <= now /\ (Recent(s.at, now) => s \in RecentOf(timestamps[entry], now))
      BY <2>1 DEF Counted, RecentOf
    <3>2. sweep.in = entry /\ sweep.at = now /\ entry \in Entries
      BY <2>1 DEF Serial, Sweep, LimiterInv, TypeOK
    <3>3. entry' = entry => timestamps'[entry] = timestamps[entry]
      BY <3>2 DEF SweepEntry, Collected, InUse
    <3>4. Recent(s.at, now) => entry' = entry
      BY <3>1, <3>2 DEF SweepEntry
    <3>. QED
      BY <3>1, <3>2, <3>3, <3>4 DEF RecentOf
  <2>. QED
    BY <2>2, <2>3 DEF SweepEntry, Counted, history
<1>. QED
  BY <1>1, <1>2, <1>3 DEF LimiterInv

LEMMA RecordKeeps == ASSUME LimiterInv, NEW r \in Reqs, Record(r) PROVE LimiterInv'
<1> DEFINE in == req[r].in  at == req[r].at
<1>1. in \in Entries /\ at \in 0..MaxTime /\ timestamps[in] \in SUBSET Stamps
      /\ IsFiniteSet(timestamps[in])
      /\ \A s \in timestamps[in] : s.nth <= Cardinality(Of(timestamps[in], s.at))
  BY DEF LimiterInv, TypeOK, NumberedOK, Record, Leave, Stamps
<1>2. /\ Own(r) \in Stamps /\ Own(r) \notin timestamps[in]
      /\ Valid(r) \in SUBSET Stamps /\ IsFiniteSet(Valid(r))
      /\ \A s \in Valid(r) : s.nth <= Cardinality(Of(Valid(r), s.at))
  <2> HIDE DEF in, at
  <2>1. Own(r) = Stamp(at, Cardinality(Of(timestamps[in], at)) + 1)
        /\ Valid(r) = RecentOf(timestamps[in], at) \cup {Own(r)}
    BY DEF Own, Valid, in, at
  <2>. QED
    BY <1>1, <2>1, Filtered
<1>3. \A e \in Entries : timestamps'[e] \in {timestamps[e], {}}
                         \/ (e = in /\ timestamps'[e] = Valid(r))
  BY <1>1 DEF Record, Leave, Collected, LimiterInv, TypeOK
<1>4. \A e \in Entries : /\ timestamps'[e] \in SUBSET Stamps /\ IsFiniteSet(timestamps'[e])
                         /\ \A s \in timestamps'[e] :
                               s.nth <= Cardinality(Of(timestamps'[e], s.at))
  BY <1>2, <1>3, FS_EmptySet DEF LimiterInv, TypeOK, NumberedOK, Stamps
<1>5. TypeOK'
  <2>1. timestamps' \in [Entries -> SUBSET Stamps]
    BY <1>4 DEF Record, Leave, Collected
  <2>2. req' \in [Reqs -> [pc : Away \cup {"load", "lock"}, at : 0..MaxTime,
                           in : Entries \cup {NoEntry}]]
        /\ \A q \in Reqs : req'[q].pc = "lock" => req'[q].in \in Entries
    BY DEF LimiterInv, TypeOK, Record, Leave, Request, Away
  <2>3. admitted' \subseteq Stamps
    BY <1>2 DEF LimiterInv, TypeOK, Record, Leave, Stamps
  <2>. QED
    BY <1>4, <2>1, <2>2, <2>3 DEF LimiterInv, TypeOK, Record, Leave, Stamps
<1>6. NumberedOK'
  BY <1>4 DEF NumberedOK
<1>7. CASE overlapped
  <2>1. overlapped' /\ admitted' = admitted
    BY <1>7 DEF Record, Leave
  <2>. QED
    BY <1>5, <1>6, <2>1, LimitKept DEF LimiterInv
<1>8. CASE ~overlapped
  <2>1. Serial /\ Counted /\ at = now /\ in = entry /\ entry # NoEntry /\ ~Sweeping
        /\ now' = now /\ entry' = entry
    BY <1>1, <1>8 DEF LimiterInv, Serial, Record, Leave, Away
  <2>2. Serial'
    BY <1>1, <2>1 DEF Serial, Record, Leave, LimiterInv, TypeOK, Sweeping, Request, Away
  <2>3. timestamps'[entry] = Valid(r)
    BY <1>1, <2>1 DEF Record, Leave, Collected, InUse, LimiterInv, TypeOK
  <2>4. \A s \in admitted : Recent(s.at, now) => s \in Valid(r)
    BY <2>1 DEF Counted, Valid, RecentOf
  <2>5. Own(r) \in Valid(r) /\ Own(r).at = now
    BY <2>1 DEF Valid, Own, Stamp
  <2>6. admitted' = admitted \/ (admitted' = admitted \cup {Own(r)} /\ Cardinality(Valid(r)) <= Limit)
    BY DEF Record, Leave
  <2>7. Counted'
    BY <2>1, <2>3, <2>4, <2>5, <2>6 DEF Counted, LimiterInv, TypeOK
  <2>8. WithinLimit'
    <3>1. CASE admitted' = admitted
      BY <3>1, LimitKept
    <3>2. CASE admitted' = admitted \cup {Own(r)} /\ Cardinality(Valid(r)) <= Limit
      <4>1. SUFFICES ASSUME NEW t \in 0..MaxTime
                     PROVE  Cardinality(AdmittedFrom(t)') <= Limit
        BY DEF WithinLimit
      <4>2. CASE t <= now /\ now < t + Window
        <5>1. AdmittedFrom(t)' \subseteq Valid(r)
          <6>1. SUFFICES ASSUME NEW s \in admitted', s.at >= t, s.at < t + Window
                         PROVE  s \in Valid(r)
            BY DEF AdmittedFrom
          <6>2. CASE s \in admitted
            <7>1. s.at \in 0..MaxTime /\ now \in 0..MaxTime
              BY <6>2 DEF LimiterInv, TypeOK
            <7>. QED
              BY <2>4, <4>2, <6>1, <6>2, <7>1 DEF Recent
          <6>. QED
            BY <2>5, <3>2, <6>1, <6>2
        <5>2. Cardinality(AdmittedFrom(t)') <= Cardinality(Valid(r))
              /\ Cardinality(AdmittedFrom(t)') \in Nat /\ Cardinality(Valid(r)) \in Nat
          BY <1>2, <5>1, FS_Subset, FS_CardinalityType
        <5>. QED
          BY <3>2, <5>2
      <4>3. CASE ~(t <= now /\ now < t + Window)
        <5>1. AdmittedFrom(t)' = AdmittedFrom(t)
          BY <2>5, <3>2, <4>3 DEF AdmittedFrom, LimiterInv, TypeOK
        <5>. QED
          BY <5>1 DEF LimiterInv, WithinLimit
      <4>. QED
        BY <4>2, <4>3
    <3>. QED
      BY <2>6, <3>1, <3>2
  <2>. QED
    BY <1>5, <1>6, <2>2, <2>7, <2>8 DEF LimiterInv
<1>. QED
  BY <1>7, <1>8

LEMMA LimiterNext == LimiterInv /\ [Next]_vars => LimiterInv'
<1> SUFFICES ASSUME LimiterInv, [Next]_vars PROVE LimiterInv'
  OBVIOUS
<1>1. CASE Tick
  BY <1>1, TickKeeps
<1>2. CASE SweepStarts \/ SweepEntry
  BY <1>2, SweepStartsKeeps, SweepEntryKeeps
<1>3. ASSUME NEW r \in Reqs, ReadClock(r) \/ LoadEntry(r) \/ Record(r) PROVE LimiterInv'
  BY <1>3, ReadClockKeeps, LoadEntryKeeps, RecordKeeps
<1>4. ASSUME NEW r \in Reqs, NEW e \in Entries, StoreEntry(r, e) PROVE LimiterInv'
  BY <1>4, StoreEntryKeeps
<1>5. CASE UNCHANGED vars
  <2>1. NumberedOK' /\ WithinLimit'
    BY <1>5, NumbersKept, LimitKept DEF vars, history
  <2>2. TypeOK'
    BY <1>5 DEF vars, history, LimiterInv, TypeOK
  <2>3. ~overlapped' => Serial' /\ Counted'
    BY <1>5 DEF vars, history, LimiterInv, Serial, Sweeping, Counted
  <2>. QED
    BY <2>1, <2>2, <2>3 DEF LimiterInv
<1>. QED
  BY <1>1, <1>2, <1>3, <1>4, <1>5 DEF Next

LEMMA LimiterInvariant == Spec => []LimiterInv
  BY LimiterInit, LimiterNext, PTL DEF Spec

-----------------------------------------------------------------------------
\* The clock, the map, the entries and the requests keep their types (record,
\* cleanupWorker).
THEOREM LimiterTypeCorrect == Spec => []TypeOK
  BY LimiterInvariant, PTL DEF LimiterInv

\* The timestamp record adds is new to the entry and, until the history ends, to
\* those of the admitted requests.
RecordsNew(r) ==
    Record(r) => Own(r) \notin timestamps[req[r].in] /\ (~overlapped => Own(r) \notin admitted)

\* A timestamp stands for one request, in the entry and in the history (record):
\* what is counted are requests.
THEOREM EachIsCounted == Spec => [][\A r \in Reqs : RecordsNew(r)]_vars
<1>1. ASSUME LimiterInv, NEW r \in Reqs, Record(r)
      PROVE  Own(r) \notin timestamps[req[r].in] /\ (~overlapped => Own(r) \notin admitted)
  <2>1. req[r].in \in Entries /\ req[r].at \in 0..MaxTime /\ req[r].pc = "lock"
    BY <1>1 DEF LimiterInv, TypeOK, Record, Leave
  <2>2. Own(r) \notin timestamps[req[r].in] /\ Own(r).at = req[r].at
    BY <1>1, <2>1, Filtered DEF LimiterInv, TypeOK, NumberedOK, Own, Stamp, Stamps
  <2>3. ASSUME ~overlapped, Own(r) \in admitted PROVE FALSE
    <3>1. req[r].in = entry /\ req[r].at = now /\ Recent(now, now)
      BY <1>1, <2>1, <2>3 DEF LimiterInv, Serial, Away, Recent
    <3>. QED
      BY <1>1, <2>2, <2>3, <3>1 DEF LimiterInv, Counted
  <2>. QED
    BY <2>2, <2>3
<1>2. LimiterInv /\ [Next]_vars => [\A r \in Reqs : RecordsNew(r)]_vars
  BY <1>1 DEF RecordsNew
<1>. QED
  BY <1>2, LimiterInvariant, PTL DEF Spec

\* As long as nothing comes between record's clock and its lock, no window of
\* Window ticks sees more than Limit requests go through (Middleware).
THEOREM AdmittedWithinLimit == Spec => []WithinLimit
  BY LimiterInvariant, PTL DEF LimiterInv

\* What has no recent timestamp in any entry is let in, however many requests
\* were rejected before and whatever interrupts record (Middleware).
THEOREM QuietAreServed == Spec => QuietIsForgiven
<1>1. ASSUME LimiterInv, Next, NEW r \in Reqs, Decides(r),
             \A e \in Entries : RecentOf(timestamps[e], req[r].at) = {}
      PROVE  req'[r].pc = "served"
  <2>1. Record(r)
    <3>1. ASSUME NEW q \in Reqs, q # r, ReadClock(q) \/ LoadEntry(q) \/ Record(q)
                                        \/ \E e \in Entries : StoreEntry(q, e)
          PROVE  req'[r] = req[r]
      BY <1>1, <3>1 DEF ReadClock, LoadEntry, StoreEntry, Record, Leave, LimiterInv, TypeOK
    <3>. QED
      BY <1>1, <3>1 DEF Decides, Next, Tick, SweepStarts, SweepEntry, ReadClock, LoadEntry,
         StoreEntry, Request, Away
  <2>2. Cardinality(Valid(r)) = 1
    <3>1. Valid(r) = {Own(r)}
      BY <1>1, <2>1 DEF Valid, Record, Leave, LimiterInv, TypeOK
    <3>. QED
      BY <3>1, FS_Singleton
  <2>3. req'[r] = Request("served", 0, NoEntry)
    BY <1>1, <2>1, <2>2 DEF Record, Leave, LimiterInv, TypeOK
  <2>. QED
    BY <2>3 DEF Request
<1>2. LimiterInv /\ [Next]_vars => [\A r \in Reqs : ServedIfQuiet(r)]_vars
  BY <1>1 DEF ServedIfQuiet
<1>. QED
  BY <1>2, LimiterInvariant, PTL DEF Spec, QuietIsForgiven
=============================================================================
