------------------------- MODULE SyncManager_proofs -------------------------
(***************************************************************************)
(* Type correctness of SyncManager, and the proofs that the sync relay     *)
(* leaks no session, keeps whoever is read in a slot and serves the web    *)
(* client of the session in the table, and that every session relays its   *)
(* frames in order and once, as RelayChannel promises.  For any            *)
(* connections, sessions, buffer size and number of frames.                *)
(***************************************************************************)
EXTENDS SyncRelay, TLAPS

USE SyncAssumption, RelayedAssumption DEF SyncAssumption, RelayedAssumption

ConnOK(c) ==
    /\ conn[c].pc # "new" => conn[c].in \in Sessions
    /\ conn[c].pc = "queueing" => Role[c] = "android" /\ sent[c] # 0
HandTyped(s) ==
    /\ forwarder[s].at \in {"taken", "writing"} => forwarder[s].frame \in Frame
    /\ forwarder[s].at = "writing" => forwarder[s].to \in Conns

TypeInv ==
    /\ TypeOK
    /\ frames \in [Sessions -> Seq(Frame)] /\ received \in [Conns -> Seq(Frame)]
    /\ \A c \in Conns : ConnOK(c)
    /\ \A s \in Sessions : HandTyped(s)

LEMMA TypeInit == Init => TypeInv
<1> SUFFICES ASSUME Init PROVE TypeInv
  OBVIOUS
<1>1. frames \in [Sessions -> Seq(Frame)] /\ received \in [Conns -> Seq(Frame)]
      /\ \A s \in Sessions : Len(frames[s]) <= BufferSize
  BY DEF Init
<1>2. sent \in [Conns -> 0..MaxFrames]
  BY DEF Init
<1>3. TypeOK
  BY <1>1, <1>2 DEF Init, TypeOK, Conn, Forwards, Forwarder
<1>4. \A c \in Conns : ConnOK(c)
  BY DEF Init, ConnOK, Conn
<1>5. \A s \in Sessions : HandTyped(s)
  BY DEF Init, HandTyped, Forwards, Forwarder
<1>. QED
  BY <1>1, <1>3, <1>4, <1>5 DEF TypeInv

\* A connection goes on within its session.
LEMMA Gone ==
  ASSUME TypeInv, NEW c \in Conns, NEW pc \in {"reading", "leaving", "closed"}, Goto(c, pc)
  PROVE  /\ conn' \in [Conns -> [pc : {"new", "joining", "reading", "queueing", "leaving", "closed"},
                                in : Sessions \cup {NoSession}]]
         /\ conn'[c].pc = pc /\ conn'[c].in = conn[c].in
         /\ \A d \in Conns : d # c => conn'[d] = conn[d]
<1> DEFINE CT == [pc : {"new", "joining", "reading", "queueing", "leaving", "closed"},
                  in : Sessions \cup {NoSession}]
<1>1. conn \in [Conns -> CT]
  BY DEF TypeInv, TypeOK
<1>2. conn' = [conn EXCEPT ![c] = [conn[c] EXCEPT !.pc = pc]]
  BY <1>1 DEF Goto
<1>3. [conn[c] EXCEPT !.pc = pc] \in CT
  BY <1>1
<1>4. conn'[c] = [conn[c] EXCEPT !.pc = pc] /\ conn[c] \in CT
  BY <1>1, <1>2
<1>5. conn' \in [Conns -> CT] /\ \A d \in Conns : d # c => conn'[d] = conn[d]
  BY <1>1, <1>2, <1>3
<1>. QED
  BY <1>4, <1>5

\* The frame a connection has read last.
LEMMA FrameRead ==
  ASSUME TypeInv, NEW c \in Conns, conn[c].pc = "queueing"
  PROVE  [from |-> c, n |-> sent[c]] \in Frame
<1>1. Role[c] = "android" /\ sent[c] \in 0..MaxFrames /\ sent[c] # 0
  BY DEF TypeInv, TypeOK, ConnOK
<1>2. sent[c] \in 1..MaxFrames
  BY <1>1
<1>. QED
  BY <1>1, <1>2 DEF Frame

LEMMA TypeNext == TypeInv /\ [Next]_vars => TypeInv'
<1> SUFFICES ASSUME TypeInv, [Next]_vars PROVE TypeInv'
  OBVIOUS
<1> USE DEF TypeInv, TypeOK, session, past
<1>1. ASSUME NEW c \in Conns, GetExisting(c) PROVE TypeInv'
  BY <1>1 DEF GetExisting, Conn, ConnOK, HandTyped
<1>2. ASSUME NEW c \in Conns, NEW s \in Sessions, CreateSession(c, s) PROVE TypeInv'
  BY <1>2 DEF CreateSession, Conn, ConnOK, HandTyped, Forwards, Forwarder
<1>3. ASSUME NEW c \in Conns, TakeSlot(c) PROVE TypeInv'
  <2>1. Goto(c, "reading") /\ conn[c].pc = "joining" /\ conn[c].in \in Sessions
    BY <1>3 DEF TakeSlot, ConnOK
  <2>2. \A d \in Conns : ConnOK(d)'
    BY <1>3, <2>1, Gone DEF TakeSlot, ConnOK
  <2>3. slot' \in [Sessions -> [{"android", "web"} -> Conns \cup {NoConn}]]
    BY <1>3, <2>1 DEF TakeSlot
  <2>4. replaced' \subseteq Conns /\ late' \subseteq Conns /\ ready' \subseteq Sessions
    BY <1>3, <2>1 DEF TakeSlot
  <2>. QED
    BY <1>3, <2>1, <2>2, <2>3, <2>4, Gone DEF TakeSlot, HandTyped
<1>4. ASSUME NEW c \in Conns, ReadFrame(c) PROVE TypeInv'
  <2>1. /\ sent' = [sent EXCEPT ![c] = @ + 1] /\ sent[c] < MaxFrames /\ Role[c] = "android"
        /\ conn[c].pc = "reading"
        /\ UNCHANGED <<session, frames, forwarder, expired, past>>
    BY <1>4 DEF ReadFrame
  <2>2. sent' \in [Conns -> 0..MaxFrames] /\ sent'[c] # 0 /\ \A d \in Conns : d # c => sent'[d] = sent[d]
    BY <2>1
  <2>3. CASE Goto(c, "leaving")
    <3>1. \A d \in Conns : ConnOK(d)'
      BY <2>1, <2>2, <2>3, Gone DEF ConnOK
    <3>. QED
      BY <2>1, <2>2, <2>3, <3>1, Gone DEF HandTyped
  <2>4. CASE current # NoSession /\ conn' = [conn EXCEPT ![c] = [pc |-> "queueing", in |-> current]]
    <3>1. \A d \in Conns : ConnOK(d)'
      BY <2>1, <2>2, <2>4 DEF ConnOK
    <3>. QED
      BY <2>1, <2>2, <2>4, <3>1 DEF HandTyped
  <2>. QED
    BY <1>4, <2>3, <2>4 DEF ReadFrame
<1>5. ASSUME NEW c \in Conns, QueueFrame(c) PROVE TypeInv'
  <2> DEFINE s == conn[c].in
             f == [from |-> c, n |-> sent[c]]
  <2>1. /\ Goto(c, "reading") /\ s \in Sessions /\ Len(frames[s]) < BufferSize /\ f \in Frame
        /\ frames' = [frames EXCEPT ![s] = Append(@, f)] /\ conn[c].pc = "queueing"
        /\ UNCHANGED <<session, forwarder, sent, expired, past>>
    BY <1>5, FrameRead DEF QueueFrame, ConnOK
  <2>2. \A d \in Conns : ConnOK(d)'
    BY <2>1, Gone DEF ConnOK
  <2> HIDE DEF s, f
  <2>3. /\ frames' \in [Sessions -> Seq(Frame)]
        /\ \A r \in Sessions : Len(frames'[r]) <= BufferSize
    <3>1. frames' \in [Sessions -> Seq(Frame)]
      BY <2>1
    <3>2. Len(frames'[s]) = Len(frames[s]) + 1 /\ \A r \in Sessions : r # s => frames'[r] = frames[r]
      BY <2>1
    <3>3. Len(frames[s]) \in Nat
      BY <2>1
    <3>. QED
      BY <2>1, <3>1, <3>2, <3>3
  <2>. QED
    BY <2>1, <2>2, <2>3, Gone DEF HandTyped
<1>6. ASSUME NEW c \in Conns, DropFrame(c) \/ ReadFails(c) PROVE TypeInv'
  <2>1. /\ Goto(c, "reading") \/ Goto(c, "leaving")
        /\ conn[c].pc # "new" /\ UNCHANGED <<session, frames, forwarder, sent, expired, past>>
    BY <1>6 DEF DropFrame, ReadFails
  <2>2. \A d \in Conns : ConnOK(d)'
    BY <2>1, Gone DEF ConnOK
  <2>. QED
    BY <2>1, <2>2, Gone DEF HandTyped
<1>7. ASSUME NEW c \in Conns, UnregisterGone(c) PROVE TypeInv'
  <2>1. Goto(c, "closed") /\ conn[c].pc # "new" /\ UNCHANGED <<session, frames, forwarder, sent, expired, past>>
    BY <1>7 DEF UnregisterGone
  <2>2. \A d \in Conns : ConnOK(d)'
    BY <2>1, Gone DEF ConnOK
  <2>. QED
    BY <2>1, <2>2, Gone DEF HandTyped
<1>8. ASSUME NEW c \in Conns, Unregister(c) PROVE TypeInv'
  <2>1. /\ Goto(c, "closed") /\ conn[c].pc # "new" /\ current \in Sessions
        /\ slot' = [slot EXCEPT ![current] = Vacate(current, c)]
        /\ current' \in {current, NoSession} /\ done' \subseteq done \cup {current}
        /\ UNCHANGED <<ready, frames, forwarder, sent, expired, past>>
    BY <1>8 DEF Unregister
  <2>2. \A d \in Conns : ConnOK(d)'
    BY <2>1, Gone DEF ConnOK
  <2>3. slot' \in [Sessions -> [{"android", "web"} -> Conns \cup {NoConn}]]
    BY <2>1 DEF Vacate
  <2>. QED
    BY <2>1, <2>2, <2>3, Gone DEF HandTyped
<1>9. ASSUME NEW s \in Sessions, NEW from, NEW to \in {"waiting", "draining", "timedOut", "stopped"},
             Steps(s, from, to)
      PROVE  TypeInv'
  BY <1>9 DEF Steps, Forwards, Forwarder, ConnOK, HandTyped
<1>10. ASSUME NEW s \in Sessions, TakeFrame(s) PROVE TypeInv'
  <2>1. /\ forwarder' = [forwarder EXCEPT ![s] = Forwarder("taken", Head(frames[s]), NoConn)]
        /\ frames' = [frames EXCEPT ![s] = Tail(@)] /\ frames[s] # <<>>
        /\ UNCHANGED <<session, conn, sent, expired, past>>
    BY <1>10 DEF TakeFrame
  <2>2. Head(frames[s]) \in Frame /\ Tail(frames[s]) \in Seq(Frame)
        /\ Len(Tail(frames[s])) <= BufferSize
    BY <2>1
  <2>. QED
    BY <2>1, <2>2 DEF Forwarder, ConnOK, HandTyped
<1>11. ASSUME NEW s \in Sessions, PickWeb(s) PROVE TypeInv'
  <2>1. slot[s]["web"] \in Conns \cup {NoConn}
    OBVIOUS
  <2>. QED
    BY <1>11, <2>1 DEF PickWeb, Forwards, Forwarder, ConnOK, HandTyped
<1>12. ASSUME NEW s \in Sessions, WriteOk(s) PROVE TypeInv'
  BY <1>12 DEF WriteOk, Forwards, Forwarder, ConnOK, HandTyped
<1>13. CASE Expire
  BY <1>13 DEF Expire, ConnOK, HandTyped
<1>14. CASE UNCHANGED vars
  BY <1>14 DEF vars, ConnOK, HandTyped
<1>. QED
  BY <1>1, <1>2, <1>3, <1>4, <1>5, <1>6, <1>7, <1>8, <1>9, <1>10, <1>11, <1>12, <1>13, <1>14
     DEF Next, ConnStep, ForwarderStep, WebReady, TimeOut, Done, WriteFail

LEMMA Types == Spec => []TypeInv
  BY TypeInit, TypeNext, PTL DEF Spec

\* The relay keeps to its types; its buffer never holds more than BufferSize.
THEOREM SyncTypeCorrect == Spec => []TypeOK
  BY Types, PTL DEF TypeInv

-----------------------------------------------------------------------------
(* The table and the slots.  That nothing is leaked when all have left     *)
(* rests on what holds while they have not: the session in the table is    *)
(* somebody's, who is about to join it or is in one of its slots and will  *)
(* leave it; a session that left the table has ended, and ended empty, so  *)
(* that a web client found there came late.                                *)

OnlyOneLives ==
    /\ current # NoSession => ~Fresh(current) /\ current \notin done
    /\ \A s \in Sessions : ~Fresh(s) => s = current \/ s \in done
    /\ \A s \in Sessions : forwarder[s].at = "stopped" => s \in done

FreshOK ==
    \A s \in Sessions : Fresh(s) =>
        s \notin done /\ Empty(slot[s]) /\ \A c \in Conns : conn[c].in # s

LateOK == \A s \in Sessions : s \in done /\ slot[s]["web"] # NoConn => slot[s]["web"] \in late

Owned ==
    current # NoSession =>
        (\E c \in Conns : conn[c].pc = "joining" /\ conn[c].in = current) \/ ~Empty(slot[current])

Occupies(s, r, c) ==
    /\ Role[c] = r /\ conn[c].pc \notin {"new", "joining"}
    /\ r = "web" => conn[c].in = s
    /\ s = current => conn[c].pc # "closed"

SlotsOK ==
    \A s \in Sessions : \A r \in {"android", "web"} : \A c \in Conns :
        slot[s][r] = c => Occupies(s, r, c)

TableInv == OnlyOneLives /\ FreshOK /\ LateOK /\ Owned /\ SlotsOK

LEMMA TableInit == Init => TableInv
  BY DEF Init, TableInv, OnlyOneLives, FreshOK, LateOK, Owned, SlotsOK, Fresh, Empty, Forwards,
         Forwarder, Conn

\* Steps that leave the table and the slots alone.
LEMMA TableKept ==
  ASSUME TypeInv, TableInv, UNCHANGED <<current, slot, done, late>>,
         \A s \in Sessions : Fresh(s)' <=> Fresh(s),
         \A s \in Sessions : forwarder'[s].at = "stopped" => forwarder[s].at = "stopped" \/ s \in done,
         \A c \in Conns :
            /\ conn[c].pc = "joining" => conn'[c] = conn[c]
            /\ conn[c].pc \notin {"new", "joining"} => conn'[c].pc \notin {"new", "joining"}
            /\ conn'[c].pc = "closed" => conn[c].pc = "closed" \/ current = NoSession
            /\ Role[c] = "web" => conn'[c].in = conn[c].in
            /\ conn'[c].in \in {conn[c].in, current}
  PROVE  TableInv'
<1>t. /\ slot \in [Sessions -> [{"android", "web"} -> Conns \cup {NoConn}]]
      /\ current \in Sessions \cup {NoSession}
  BY DEF TypeInv, TypeOK
<1>1. OnlyOneLives'
  BY <1>t DEF TableInv, OnlyOneLives
<1>2. FreshOK'
  BY <1>t DEF TableInv, FreshOK, OnlyOneLives, Empty
<1>3. LateOK'
  BY DEF TableInv, LateOK
<1>4. Owned'
  BY DEF TableInv, Owned, Empty
<1>5. SlotsOK'
  BY <1>t DEF TableInv, SlotsOK, Occupies
<1>. QED
  BY <1>1, <1>2, <1>3, <1>4, <1>5 DEF TableInv

LEMMA TableNext == TypeInv /\ TableInv /\ [Next]_vars => TableInv'
<1> SUFFICES ASSUME TypeInv, TableInv, [Next]_vars PROVE TableInv'
  OBVIOUS
<1>t. /\ slot \in [Sessions -> [{"android", "web"} -> Conns \cup {NoConn}]]
      /\ current \in Sessions \cup {NoSession} /\ late \subseteq Conns
      /\ conn \in [Conns -> [pc : {"new", "joining", "reading", "queueing", "leaving", "closed"},
                             in : Sessions \cup {NoSession}]]
      /\ \A c \in Conns : ConnOK(c)
  BY DEF TypeInv, TypeOK
<1>f. forwarder \in
         [Sessions -> [at : {"none", "waiting", "draining", "taken", "writing", "timedOut", "stopped"},
                       frame : Frame \cup {NoFrame}, to : Conns \cup {NoConn}]]
  BY DEF TypeInv, TypeOK
<1> USE DEF session, past
<1>1. ASSUME NEW c \in Conns, GetExisting(c) PROVE TableInv'
  <2>1. /\ conn[c].pc = "new" /\ current \in Sessions
        /\ conn' = [conn EXCEPT ![c] = Conn("joining", current)]
        /\ UNCHANGED <<current, slot, done, late, forwarder>>
    BY <1>1, <1>t DEF GetExisting
  <2>2. conn'[c].pc = "joining" /\ conn'[c].in = current /\ \A d \in Conns : d # c => conn'[d] = conn[d]
    BY <2>1, <1>t DEF Conn
  <2>3. OnlyOneLives' /\ FreshOK' /\ LateOK'
    BY <2>1, <2>2, <1>t DEF TableInv, OnlyOneLives, FreshOK, LateOK, Fresh, Empty
  <2>4. Owned'
    BY <2>1, <2>2 DEF Owned
  <2>5. SlotsOK'
    BY <2>1, <2>2, <1>t DEF TableInv, SlotsOK, Occupies
  <2>. QED
    BY <2>3, <2>4, <2>5 DEF TableInv
<1>2. ASSUME NEW c \in Conns, NEW s \in Sessions, CreateSession(c, s) PROVE TableInv'
  <2>1. /\ conn[c].pc = "new" /\ current = NoSession /\ Fresh(s) /\ current' = s
        /\ forwarder' = [forwarder EXCEPT ![s] = Forwards("waiting")]
        /\ conn' = [conn EXCEPT ![c] = Conn("joining", s)]
        /\ UNCHANGED <<slot, done, late>>
    BY <1>2 DEF CreateSession
  <2>2. conn'[c].pc = "joining" /\ conn'[c].in = s /\ \A d \in Conns : d # c => conn'[d] = conn[d]
    BY <2>1, <1>t DEF Conn
  <2>3. forwarder'[s].at = "waiting" /\ \A r \in Sessions : r # s => forwarder'[r] = forwarder[r]
    BY <2>1, <1>f DEF Forwards, Forwarder
  <2>4. s \notin done /\ Empty(slot[s])
    BY <2>1 DEF TableInv, FreshOK
  <2>5. OnlyOneLives' /\ LateOK'
    BY <2>1, <2>3, <2>4 DEF TableInv, OnlyOneLives, LateOK, Fresh
  <2>6. FreshOK'
    BY <2>1, <2>2, <2>3 DEF TableInv, FreshOK, Fresh, Empty
  <2>7. Owned'
    BY <2>1, <2>2 DEF Owned
  <2>8. SlotsOK'
    BY <2>1, <2>2, <2>4, <1>t DEF TableInv, SlotsOK, Occupies, Empty
  <2>. QED
    BY <2>5, <2>6, <2>7, <2>8 DEF TableInv
\* The session joined may have ended since: who takes a slot there is late.
<1>3. ASSUME NEW c \in Conns, TakeSlot(c) PROVE TableInv'
  <2>0. conn[c].in \in Sessions
    BY <1>3, <1>t DEF TakeSlot, ConnOK
  <2>1. PICK s \in Sessions :
           /\ s = conn[c].in /\ conn[c].pc = "joining" /\ Goto(c, "reading")
           /\ slot' = [slot EXCEPT ![s][Role[c]] = c]
           /\ late \subseteq late' /\ (s \in done => c \in late')
           /\ UNCHANGED <<current, done, forwarder>>
    BY <1>3, <2>0 DEF TakeSlot
  <2>2. /\ conn'[c].pc = "reading" /\ conn'[c].in = s
        /\ \A d \in Conns : d # c => conn'[d] = conn[d]
    BY <2>1, Gone
  <2>3. /\ \A q \in Sessions : q # s => slot'[q] = slot[q]
        /\ \A r \in {"android", "web"} : slot'[s][r] = IF r = Role[c] THEN c ELSE slot[s][r]
    BY <2>1, <1>t
  <2>4. ~Fresh(s)
    BY <2>1 DEF TableInv, FreshOK
  <2>5. OnlyOneLives'
    BY <2>1 DEF TableInv, OnlyOneLives, Fresh
  <2>6. FreshOK'
    BY <2>1, <2>2, <2>3, <2>4 DEF TableInv, FreshOK, Fresh, Empty
  <2>7. LateOK'
    BY <2>1, <2>3 DEF TableInv, LateOK
  <2>8. Owned'
    <3>1. CASE s = current
      BY <2>1, <2>3, <3>1 DEF Owned, Empty
    <3>2. CASE s # current
      BY <2>1, <2>2, <2>3, <3>2 DEF TableInv, Owned, Empty
    <3>. QED
      BY <3>1, <3>2
  <2>9. SlotsOK'
    <3>1. ASSUME NEW q \in Sessions, NEW r \in {"android", "web"}, NEW d \in Conns, slot'[q][r] = d
          PROVE  Occupies(q, r, d)'
      <4>1. CASE q = s /\ r = Role[c]
        BY <2>1, <2>2, <2>3, <3>1, <4>1 DEF Occupies
      <4>2. CASE ~(q = s /\ r = Role[c])
        <5>1. Occupies(q, r, d)
          BY <2>3, <3>1, <4>2 DEF TableInv, SlotsOK
        <5>2. d # c
          BY <2>1, <5>1 DEF Occupies
        <5>. QED
          BY <2>1, <2>2, <5>1, <5>2 DEF Occupies
      <4>. QED
        BY <4>1, <4>2
    <3>. QED
      BY <3>1 DEF SlotsOK
  <2>. QED
    BY <2>5, <2>6, <2>7, <2>8, <2>9 DEF TableInv
<1>4. ASSUME NEW c \in Conns, ReadFrame(c) PROVE TableInv'
  <2>1. /\ conn[c].pc = "reading" /\ Role[c] = "android"
        /\ UNCHANGED <<current, slot, done, late, forwarder>>
    BY <1>4 DEF ReadFrame
  <2>2. \/ Goto(c, "leaving")
        \/ conn' = [conn EXCEPT ![c] = [pc |-> "queueing", in |-> current]]
    BY <1>4 DEF ReadFrame
  <2>3. /\ \A d \in Conns : d # c => conn'[d] = conn[d]
        /\ conn'[c].pc \in {"leaving", "queueing"} /\ conn'[c].in \in {conn[c].in, current}
    BY <2>2, <1>t, Gone
  <2>. QED
    BY <2>1, <2>3, TableKept DEF Fresh
<1>5. ASSUME NEW c \in Conns, QueueFrame(c) \/ DropFrame(c) \/ ReadFails(c) PROVE TableInv'
  <2>1. /\ Goto(c, "reading") \/ Goto(c, "leaving")
        /\ conn[c].pc \in {"reading", "queueing"}
        /\ UNCHANGED <<current, slot, done, late, forwarder>>
    BY <1>5 DEF QueueFrame, DropFrame, ReadFails
  <2>2. /\ \A d \in Conns : d # c => conn'[d] = conn[d]
        /\ conn'[c].pc \in {"reading", "leaving"} /\ conn'[c].in = conn[c].in
    BY <2>1, Gone
  <2>. QED
    BY <2>1, <2>2, TableKept DEF Fresh
<1>6. ASSUME NEW c \in Conns, UnregisterGone(c) PROVE TableInv'
  <2>1. /\ Goto(c, "closed") /\ conn[c].pc = "leaving" /\ current = NoSession
        /\ UNCHANGED <<current, slot, done, late, forwarder>>
    BY <1>6 DEF UnregisterGone
  <2>2. /\ \A d \in Conns : d # c => conn'[d] = conn[d]
        /\ conn'[c].pc = "closed" /\ conn'[c].in = conn[c].in
    BY <2>1, Gone
  <2>. QED
    BY <2>1, <2>2, TableKept DEF Fresh
<1>7. ASSUME NEW c \in Conns, Unregister(c) PROVE TableInv'
  <2>1. /\ Goto(c, "closed") /\ conn[c].pc = "leaving" /\ current \in Sessions
        /\ slot' = [slot EXCEPT ![current] = Vacate(current, c)]
        /\ \/ Empty(slot'[current]) /\ done' = done \cup {current} /\ current' = NoSession
           \/ ~Empty(slot'[current]) /\ UNCHANGED <<done, current>>
        /\ UNCHANGED <<late, forwarder>>
    BY <1>7, <1>t DEF Unregister
  <2>2. /\ \A d \in Conns : d # c => conn'[d] = conn[d]
        /\ conn'[c].pc = "closed" /\ conn'[c].in = conn[c].in
    BY <2>1, Gone
  <2>3. /\ \A q \in Sessions : q # current => slot'[q] = slot[q]
        /\ \A r \in {"android", "web"} :
              slot'[current][r] = IF r = Role[c] /\ slot[current][r] = c THEN NoConn ELSE slot[current][r]
    BY <2>1, <1>t DEF Vacate
  <2>4. ~Fresh(current) /\ \A q \in Sessions : Fresh(q)' <=> Fresh(q)
    BY <2>1 DEF TableInv, OnlyOneLives, Fresh
  <2>5. OnlyOneLives'
    BY <2>1, <2>4, <1>t DEF TableInv, OnlyOneLives, Fresh
  <2>6. FreshOK'
    BY <2>1, <2>2, <2>3, <2>4 DEF TableInv, FreshOK, Empty
  <2>7. LateOK'
    BY <2>1, <2>3 DEF TableInv, LateOK, OnlyOneLives, Empty
  <2>8. Owned'
    BY <2>1 DEF Owned
  <2>9. SlotsOK'
    <3>1. ASSUME NEW q \in Sessions, NEW r \in {"android", "web"}, NEW d \in Conns, slot'[q][r] = d
          PROVE  Occupies(q, r, d)'
      <4>1. slot[q][r] = d /\ Occupies(q, r, d)
        BY <2>3, <3>1 DEF TableInv, SlotsOK
      <4>2. q = current => d # c
        BY <2>3, <3>1, <4>1 DEF Occupies
      <4>3. q = current' => q = current
        BY <2>1
      <4>. QED
        BY <2>1, <2>2, <4>1, <4>2, <4>3 DEF Occupies
    <3>. QED
      BY <3>1 DEF SlotsOK
  <2>. QED
    BY <2>5, <2>6, <2>7, <2>8, <2>9 DEF TableInv
<1>8. ASSUME NEW s \in Sessions, ForwarderStep(s) \/ TimeOut(s) PROVE TableInv'
  <2>1. UNCHANGED <<current, slot, done, late, conn>>
    BY <1>8 DEF ForwarderStep, WebReady, Done, TakeFrame, PickWeb, WriteOk, WriteFail, TimeOut, Steps
  <2>2. PICK at \in {"waiting", "draining", "taken", "writing", "timedOut", "stopped"} :
           /\ \E frame, to : forwarder' = [forwarder EXCEPT ![s] = Forwarder(at, frame, to)]
           /\ forwarder[s].at # "none" /\ (at = "stopped" => s \in done)
    BY <1>8 DEF ForwarderStep, WebReady, Done, TakeFrame, PickWeb, WriteOk, WriteFail, TimeOut, Steps,
       Forwards
  <2>3. forwarder'[s].at = at /\ \A q \in Sessions : q # s => forwarder'[q] = forwarder[q]
    BY <2>2, <1>f DEF Forwarder
  <2>. QED
    BY <2>1, <2>2, <2>3, TableKept DEF Fresh
<1>9. CASE Expire \/ UNCHANGED vars
  BY <1>9, TableKept DEF Expire, vars, Fresh
<1>. QED
  BY <1>1, <1>2, <1>3, <1>4, <1>5, <1>6, <1>7, <1>8, <1>9 DEF Next, ConnStep

LEMMA Table == Spec => [](TypeInv /\ TableInv)
  BY TypeInit, TypeNext, TableInit, TableNext, PTL DEF Spec

\* When every connection that came has left, no session is left in the table
\* and every forwarder has been told to stop (Unregister, sync_manager.go).
THEOREM SessionsNotLeaked == Spec => []NoLeakedSession
<1>1. TypeInv /\ TableInv => NoLeakedSession
  <2> SUFFICES ASSUME TypeInv, TableInv, \A c \in Conns : conn[c].pc \in {"new", "closed"}
               PROVE  current = NoSession /\ \A s \in Sessions : Fresh(s) \/ s \in done
    BY DEF NoLeakedSession
  <2>1. current = NoSession
    <3>1. SUFFICES ASSUME current # NoSession PROVE FALSE
      OBVIOUS
    <3>2. current \in Sessions /\ ~Empty(slot[current])
      BY <3>1 DEF TypeInv, TypeOK, TableInv, Owned
    <3>3. PICK r \in {"android", "web"} : slot[current][r] # NoConn
      BY <3>2 DEF Empty
    <3>4. slot[current][r] \in Conns
      BY <3>2, <3>3 DEF TypeInv, TypeOK
    <3>. QED
      BY <3>2, <3>3, <3>4 DEF TableInv, SlotsOK, Occupies
  <2>. QED
    BY <2>1 DEF TableInv, OnlyOneLives
<1>. QED
  BY <1>1, Table, PTL

\* A web client that joined in time and is reading has the session of the table
\* and a forwarder that has not been stopped.
THEOREM WebServed == Spec => []WebIsServed
<1>1. TypeInv /\ TableInv => WebIsServed
  BY DEF TypeInv, TypeOK, TableInv, OnlyOneLives, FreshOK, LateOK, WebIsServed, Empty
<1>. QED
  BY <1>1, Table, PTL

LEMMA ReaderNext == TypeInv /\ ReaderIsRegistered /\ [Next]_vars => ReaderIsRegistered'
<1> SUFFICES ASSUME TypeInv, ReaderIsRegistered, [Next]_vars PROVE ReaderIsRegistered'
  OBVIOUS
<1>t. /\ slot \in [Sessions -> [{"android", "web"} -> Conns \cup {NoConn}]]
      /\ current \in Sessions \cup {NoSession}
      /\ conn \in [Conns -> [pc : {"new", "joining", "reading", "queueing", "leaving", "closed"},
                             in : Sessions \cup {NoSession}]]
      /\ \A c \in Conns : ConnOK(c)
  BY DEF TypeInv, TypeOK
<1>k. ASSUME UNCHANGED slot, replaced \subseteq replaced', \A c \in Conns : Reads(c)' => Reads(c)
      PROVE  ReaderIsRegistered'
  BY <1>k DEF ReaderIsRegistered
<1> USE DEF session, past
<1>1. ASSUME NEW c \in Conns, TakeSlot(c) PROVE ReaderIsRegistered'
  <2>0. conn[c].in \in Sessions
    BY <1>1, <1>t DEF TakeSlot, ConnOK
  <2>1. PICK s \in Sessions :
           /\ s = conn[c].in /\ Goto(c, "reading") /\ slot' = [slot EXCEPT ![s][Role[c]] = c]
           /\ replaced' = replaced \cup ({slot[s][Role[c]]} \ {NoConn})
    BY <1>1, <2>0 DEF TakeSlot
  <2>2. /\ \A q \in Sessions : q # s => slot'[q] = slot[q]
        /\ \A r \in {"android", "web"} : slot'[s][r] = IF r = Role[c] THEN c ELSE slot[s][r]
        /\ \A d \in Conns : d # c => conn'[d] = conn[d]
    BY <2>1, <1>t, Gone
  <2>3. ASSUME NEW d \in Conns, Reads(d)', d \notin replaced' PROVE \E q \in Sessions : slot'[q][Role[d]] = d
    <3>1. CASE d = c
      BY <2>2, <3>1
    <3>2. CASE d # c
      <4>1. PICK q \in Sessions : slot[q][Role[d]] = d
        BY <2>1, <2>2, <2>3, <3>2 DEF ReaderIsRegistered, Reads
      <4>2. ~(q = s /\ Role[d] = Role[c])
        BY <2>1, <2>3, <4>1
      <4>. QED
        BY <2>2, <4>1, <4>2
    <3>. QED
      BY <3>1, <3>2
  <2>. QED
    BY <2>3 DEF ReaderIsRegistered
\* Only the connection that leaves is put out of its slot.
<1>2. ASSUME NEW c \in Conns, Unregister(c) PROVE ReaderIsRegistered'
  <2>1. /\ Goto(c, "closed") /\ current \in Sessions
        /\ slot' = [slot EXCEPT ![current] = Vacate(current, c)] /\ UNCHANGED replaced
    BY <1>2, <1>t DEF Unregister
  <2>2. /\ \A d \in Conns : d # c => conn'[d] = conn[d]
        /\ conn'[c].pc = "closed"
        /\ \A q \in Sessions : \A r \in {"android", "web"} : slot[q][r] # c => slot'[q][r] = slot[q][r]
    BY <2>1, <1>t, Gone DEF Vacate
  <2>. QED
    BY <2>1, <2>2 DEF ReaderIsRegistered, Reads
<1>3. ASSUME NEW c \in Conns, GetExisting(c) \/ (\E s \in Sessions : CreateSession(c, s))
      PROVE  ReaderIsRegistered'
  <2>1. /\ \A d \in Conns : d # c => conn'[d] = conn[d]
        /\ conn'[c].pc = "joining" /\ UNCHANGED <<slot, replaced>>
    BY <1>3, <1>t DEF GetExisting, CreateSession, Conn
  <2>. QED
    BY <1>k, <2>1 DEF Reads
<1>4. ASSUME NEW c \in Conns, ReadFrame(c) \/ QueueFrame(c) \/ DropFrame(c) \/ ReadFails(c)
                              \/ UnregisterGone(c)
      PROVE  ReaderIsRegistered'
  <2>1. /\ UNCHANGED <<slot, replaced>>
        /\ \/ Goto(c, "leaving") \/ Goto(c, "closed") \/ (Goto(c, "reading") /\ Reads(c))
           \/ (conn' = [conn EXCEPT ![c] = [pc |-> "queueing", in |-> current]] /\ Reads(c))
    BY <1>4 DEF ReadFrame, QueueFrame, DropFrame, ReadFails, UnregisterGone, Reads
  <2>2. \A d \in Conns : d # c => conn'[d] = conn[d]
    BY <2>1, <1>t, Gone
  <2>3. Reads(c)' => Reads(c)
    BY <2>1, Gone DEF Reads
  <2>. QED
    BY <1>k, <2>1, <2>2, <2>3 DEF Reads
<1>5. CASE UNCHANGED <<slot, replaced, conn>>
  BY <1>k, <1>5 DEF Reads
<1>6. ASSUME NEW s \in Sessions, ForwarderStep(s) \/ TimeOut(s) PROVE ReaderIsRegistered'
  BY <1>5, <1>6 DEF ForwarderStep, WebReady, Done, TakeFrame, PickWeb, WriteOk, WriteFail, TimeOut, Steps
<1>. QED
  BY <1>1, <1>2, <1>3, <1>4, <1>5, <1>6 DEF Next, ConnStep, Expire, vars

\* The Unregister of an older connection of the same role does not put a
\* connection out of its slot while it is being read.
THEOREM ReadersRegistered == Spec => []ReaderIsRegistered
<1>1. Init => ReaderIsRegistered
  BY DEF Init, ReaderIsRegistered, Reads, Conn
<1>. QED
  BY <1>1, TypeInit, TypeNext, ReaderNext, PTL DEF Spec

-----------------------------------------------------------------------------
(* The relay.  That no frame overtakes another is known when it enters the *)
(* buffer: every frame of its sender that is on its way or has arrived was *)
(* numbered before it.  What a web client has received it received from    *)
(* the session it joined.                                                  *)

OnWay(f) ==
    \/ \E s \in Sessions :
         \/ \E i \in 1..Len(frames[s]) : frames[s][i] = f
         \/ forwarder[s].at \in {"taken", "writing"} /\ forwarder[s].frame = f
    \/ \E c \in Conns : \E i \in 1..Len(received[c]) : received[c][i] = f

NumbersOK ==
    \A f \in Frame : OnWay(f) =>
        f.n <= sent[f.from] /\ (conn[f.from].pc = "queueing" => f.n < sent[f.from])

ReceivedOK == \A c \in Conns : conn[c].pc \in {"new", "joining"} => received[c] = <<>>

WritingOK ==
    \A s \in Sessions : \A w \in Conns : forwarder[s].at = "writing" /\ forwarder[s].to = w =>
        Role[w] = "web" /\ conn[w].in = s /\ conn[w].pc \notin {"new", "joining"}

RelayInv == NumbersOK /\ ReceivedOK /\ WritingOK

LEMMA RelayInit == Init => RelayInv
  BY DEF Init, RelayInv, NumbersOK, OnWay, ReceivedOK, WritingOK, Forwards, Forwarder, Conn

\* Steps that bring no new frame on its way and give no connection a number
\* to send that is not its last.
LEMMA NumbersKept ==
  ASSUME TypeInv, NumbersOK,
         \A f \in Frame : OnWay(f)' => OnWay(f),
         \A c \in Conns :
            \/ sent'[c] = sent[c] /\ (conn'[c].pc = "queueing" => conn[c].pc = "queueing")
            \/ sent'[c] = sent[c] + 1
  PROVE  NumbersOK'
<1> SUFFICES ASSUME NEW f \in Frame, OnWay(f)'
             PROVE  f.n <= sent'[f.from] /\ (conn'[f.from].pc = "queueing" => f.n < sent'[f.from])
  BY DEF NumbersOK
<1>1. f.n <= sent[f.from] /\ (conn[f.from].pc = "queueing" => f.n < sent[f.from])
  BY DEF NumbersOK
<1>2. f.from \in Conns /\ f.n \in Nat /\ sent[f.from] \in Nat
  BY DEF Frame, TypeInv, TypeOK
<1>. QED
  BY <1>1, <1>2

\* Steps of connections that write nothing and leave the forwarders alone.
LEMMA RelayKept ==
  ASSUME TypeInv, RelayInv, UNCHANGED <<frames, received, forwarder>>,
         \A c \in Conns :
            \/ sent'[c] = sent[c] /\ (conn'[c].pc = "queueing" => conn[c].pc = "queueing")
            \/ sent'[c] = sent[c] + 1,
         \A c \in Conns :
            /\ conn'[c].pc \in {"new", "joining"} => conn[c].pc \in {"new", "joining"}
            /\ conn[c].pc \notin {"new", "joining"} =>
                  conn'[c].pc \notin {"new", "joining"} /\ (Role[c] = "web" => conn'[c].in = conn[c].in)
  PROVE  RelayInv'
<1>1. \A f \in Frame : OnWay(f)' => OnWay(f)
  BY DEF OnWay
<1>2. NumbersOK'
  BY <1>1, NumbersKept DEF RelayInv
<1>3. ReceivedOK'
  BY DEF RelayInv, ReceivedOK
<1>4. WritingOK'
  BY DEF RelayInv, WritingOK
<1>. QED
  BY <1>2, <1>3, <1>4 DEF RelayInv

\* What a sequence is made of, taken apart at its head.
LEMMA HeadAndTail ==
  ASSUME NEW T, NEW q \in Seq(T), q # <<>>
  PROVE  /\ 1 \in 1..Len(q) /\ Head(q) = q[1] /\ Head(q) \in T /\ Tail(q) \in Seq(T)
         /\ \A i \in 1..Len(Tail(q)) : i + 1 \in 1..Len(q) /\ Tail(q)[i] = q[i + 1]
<1>1. Len(q) \in Nat /\ Len(q) # 0
  OBVIOUS
<1>2. Len(Tail(q)) = Len(q) - 1 /\ \A i \in 1..Len(Tail(q)) : Tail(q)[i] = q[i + 1]
  OBVIOUS
<1>. QED
  BY <1>1, <1>2

LEMMA RelayNext == TypeInv /\ TableInv /\ RelayInv /\ [Next]_vars => RelayInv'
<1> SUFFICES ASSUME TypeInv, TableInv, RelayInv, [Next]_vars PROVE RelayInv'
  OBVIOUS
<1>t. /\ slot \in [Sessions -> [{"android", "web"} -> Conns \cup {NoConn}]]
      /\ conn \in [Conns -> [pc : {"new", "joining", "reading", "queueing", "leaving", "closed"},
                             in : Sessions \cup {NoSession}]]
      /\ \A c \in Conns : ConnOK(c)
      /\ \A s \in Sessions : HandTyped(s)
      /\ frames \in [Sessions -> Seq(Frame)] /\ received \in [Conns -> Seq(Frame)]
      /\ sent \in [Conns -> 0..MaxFrames]
  BY DEF TypeInv, TypeOK
<1>f. forwarder \in
         [Sessions -> [at : {"none", "waiting", "draining", "taken", "writing", "timedOut", "stopped"},
                       frame : Frame \cup {NoFrame}, to : Conns \cup {NoConn}]]
  BY DEF TypeInv, TypeOK
<1> USE DEF session, past
<1>1. ASSUME NEW c \in Conns, GetExisting(c) PROVE RelayInv'
  BY <1>1, <1>t, RelayKept DEF GetExisting, Conn
<1>2. ASSUME NEW c \in Conns, NEW s \in Sessions, CreateSession(c, s) PROVE RelayInv'
  <2>1. /\ conn[c].pc = "new" /\ Fresh(s) /\ forwarder' = [forwarder EXCEPT ![s] = Forwards("waiting")]
        /\ conn' = [conn EXCEPT ![c] = Conn("joining", s)]
        /\ UNCHANGED <<frames, sent, received>>
    BY <1>2 DEF CreateSession
  <2>2. conn'[c].pc = "joining" /\ conn'[c].in = s /\ \A d \in Conns : d # c => conn'[d] = conn[d]
    BY <2>1, <1>t DEF Conn
  <2>3. forwarder'[s].at = "waiting" /\ \A r \in Sessions : r # s => forwarder'[r] = forwarder[r]
    BY <2>1, <1>f DEF Forwards, Forwarder
  <2>4. \A f \in Frame : OnWay(f)' => OnWay(f)
    BY <2>1, <2>3 DEF OnWay
  <2>5. NumbersOK'
    BY <2>1, <2>2, <2>4, NumbersKept DEF RelayInv
  <2>6. ReceivedOK'
    BY <2>1, <2>2 DEF RelayInv, ReceivedOK
  <2>7. WritingOK'
    BY <2>1, <2>2, <2>3 DEF RelayInv, WritingOK
  <2>. QED
    BY <2>5, <2>6, <2>7 DEF RelayInv
<1>3. ASSUME NEW c \in Conns, NEW pc \in {"reading", "leaving", "closed"}, Goto(c, pc),
             conn[c].pc # "new", UNCHANGED <<frames, received, forwarder, sent>>
      PROVE  RelayInv'
  BY <1>3, <1>t, Gone, RelayKept
<1>4. ASSUME NEW c \in Conns, ReadFrame(c) PROVE RelayInv'
  <2>1. /\ conn[c].pc = "reading" /\ Role[c] = "android" /\ sent' = [sent EXCEPT ![c] = @ + 1]
        /\ UNCHANGED <<frames, received, forwarder>>
        /\ \/ Goto(c, "leaving")
           \/ conn' = [conn EXCEPT ![c] = [pc |-> "queueing", in |-> current]]
    BY <1>4 DEF ReadFrame
  <2>2. /\ \A d \in Conns : d # c => conn'[d] = conn[d] /\ sent'[d] = sent[d]
        /\ conn'[c].pc \in {"leaving", "queueing"} /\ sent'[c] = sent[c] + 1
    BY <2>1, <1>t, Gone
  <2>. QED
    BY <2>1, <2>2, RelayKept
<1>5. ASSUME NEW c \in Conns, QueueFrame(c) PROVE RelayInv'
  <2>0. conn[c].in \in Sessions
    BY <1>5, <1>t DEF QueueFrame, ConnOK
  <2>1. PICK s \in Sessions, g \in Frame :
           /\ s = conn[c].in /\ g = [from |-> c, n |-> sent[c]] /\ conn[c].pc = "queueing"
           /\ Goto(c, "reading") /\ frames' = [frames EXCEPT ![s] = Append(@, g)]
           /\ UNCHANGED <<received, forwarder, sent>>
    BY <1>5, <2>0, FrameRead DEF QueueFrame
  <2>2. /\ conn'[c].pc = "reading" /\ conn'[c].in = s
        /\ \A d \in Conns : d # c => conn'[d] = conn[d]
    BY <2>1, Gone
  <2>3. \A f \in Frame : OnWay(f)' => OnWay(f) \/ f = g
    <3>1. /\ frames'[s] = Append(frames[s], g) /\ \A q \in Sessions : q # s => frames'[q] = frames[q]
          /\ frames[s] \in Seq(Frame)
      BY <2>1, <1>t
    <3>2. \A i \in 1..Len(frames'[s]) : frames'[s][i] = g \/ (i \in 1..Len(frames[s]) /\ frames'[s][i] = frames[s][i])
      BY <3>1
    <3>. QED
      BY <2>1, <3>1, <3>2 DEF OnWay
  <2>4. NumbersOK'
    <3> SUFFICES ASSUME NEW f \in Frame, OnWay(f)'
                 PROVE  f.n <= sent[f.from] /\ (conn'[f.from].pc = "queueing" => f.n < sent[f.from])
      BY <2>1 DEF NumbersOK
    <3>1. CASE f = g
      <4>1. f.from = c /\ f.n = sent[c] /\ sent[c] \in Nat
        BY <2>1, <3>1, <1>t
      <4>. QED
        BY <2>2, <4>1
    <3>2. CASE f # g
      <4>1. f.n <= sent[f.from] /\ (conn[f.from].pc = "queueing" => f.n < sent[f.from]) /\ f.from \in Conns
        BY <2>3, <3>2 DEF RelayInv, NumbersOK, Frame
      <4>. QED
        BY <2>2, <4>1
    <3>. QED
      BY <3>1, <3>2
  <2>5. ReceivedOK' /\ WritingOK'
    BY <2>1, <2>2 DEF RelayInv, ReceivedOK, WritingOK
  <2>. QED
    BY <2>4, <2>5 DEF RelayInv
\* The forwarder takes, drops or writes what was on its way already.
<1>6. ASSUME UNCHANGED <<conn, sent>>, \A f \in Frame : OnWay(f)' => OnWay(f), ReceivedOK', WritingOK'
      PROVE  RelayInv'
  BY <1>6, NumbersKept DEF RelayInv
<1>7. ASSUME NEW s \in Sessions, NEW from, NEW to \in {"waiting", "draining", "timedOut", "stopped"},
             Steps(s, from, to)
      PROVE  RelayInv'
  <2>1. /\ forwarder'[s].at = to /\ \A r \in Sessions : r # s => forwarder'[r] = forwarder[r]
        /\ UNCHANGED <<conn, sent, frames, received>>
    BY <1>7, <1>f DEF Steps, Forwards, Forwarder
  <2>2. \A f \in Frame : OnWay(f)' => OnWay(f)
    BY <2>1 DEF OnWay
  <2>. QED
    BY <1>6, <2>1, <2>2 DEF RelayInv, ReceivedOK, WritingOK
<1>8. ASSUME NEW s \in Sessions, TakeFrame(s) PROVE RelayInv'
  <2>1. /\ forwarder' = [forwarder EXCEPT ![s] = Forwarder("taken", Head(frames[s]), NoConn)]
        /\ frames' = [frames EXCEPT ![s] = Tail(@)] /\ frames[s] # <<>>
        /\ UNCHANGED <<conn, sent, received>>
    BY <1>8 DEF TakeFrame
  <2>2. /\ forwarder'[s].at = "taken" /\ forwarder'[s].frame = Head(frames[s])
        /\ \A r \in Sessions : r # s => forwarder'[r] = forwarder[r] /\ frames'[r] = frames[r]
        /\ frames'[s] = Tail(frames[s]) /\ frames[s] \in Seq(Frame)
    BY <2>1, <1>t, <1>f DEF Forwarder
  <2>3. /\ 1 \in 1..Len(frames[s]) /\ Head(frames[s]) = frames[s][1]
        /\ \A i \in 1..Len(frames'[s]) : i + 1 \in 1..Len(frames[s]) /\ frames'[s][i] = frames[s][i + 1]
    <3>1. frames[s] \in Seq(Frame) /\ frames[s] # <<>>
      BY <2>1, <1>t
    <3>2. frames'[s] = Tail(frames[s])
      BY <2>2
    <3>. QED
      BY <3>1, <3>2, HeadAndTail, Zenon
  <2>4. \A f \in Frame : OnWay(f)' => OnWay(f)
    BY <2>1, <2>2, <2>3 DEF OnWay
  <2>. QED
    BY <1>6, <2>1, <2>2, <2>4 DEF RelayInv, ReceivedOK, WritingOK
<1>9. ASSUME NEW s \in Sessions, PickWeb(s) PROVE RelayInv'
  <2> DEFINE web == slot[s]["web"]
  <2>1. /\ forwarder[s].at = "taken" /\ UNCHANGED <<conn, sent, frames, received>>
        /\ \A r \in Sessions : r # s => forwarder'[r] = forwarder[r]
        /\ \/ forwarder'[s].at = "draining"
           \/ /\ web # NoConn
              /\ forwarder'[s] = Forwarder("writing", forwarder[s].frame, web)
    BY <1>9, <1>f DEF PickWeb, Forwards, Forwarder
  <2>2. web # NoConn => web \in Conns /\ Role[web] = "web" /\ conn[web].in = s
                        /\ conn[web].pc \notin {"new", "joining"}
    <3>1. web # NoConn => web \in Conns
      BY <1>t
    <3>2. web # NoConn => Occupies(s, "web", web)
      BY <3>1 DEF TableInv, SlotsOK
    <3>. QED
      BY <3>1, <3>2 DEF Occupies
  <2>3. \A f \in Frame : OnWay(f)' => OnWay(f)
    BY <2>1 DEF OnWay, Forwarder
  <2>4. WritingOK'
    BY <2>1, <2>2 DEF RelayInv, WritingOK, Forwarder
  <2>. QED
    BY <1>6, <2>1, <2>3, <2>4 DEF RelayInv, ReceivedOK
<1>10. ASSUME NEW s \in Sessions, WriteOk(s) PROVE RelayInv'
  <2> DEFINE w == forwarder[s].to
             g == forwarder[s].frame
  <2>1. /\ forwarder[s].at = "writing" /\ received' = [received EXCEPT ![w] = Append(@, g)]
        /\ forwarder'[s].at = "draining" /\ \A r \in Sessions : r # s => forwarder'[r] = forwarder[r]
        /\ UNCHANGED <<conn, sent, frames>>
    BY <1>10, <1>f DEF WriteOk, Forwards, Forwarder
  <2>2. /\ w \in Conns /\ g \in Frame /\ OnWay(g)
        /\ conn[w].pc \notin {"new", "joining"}
    BY <2>1, <1>t DEF HandTyped, RelayInv, WritingOK, OnWay
  <2> HIDE DEF w, g
  <2>3. /\ received'[w] = Append(received[w], g) /\ received[w] \in Seq(Frame)
        /\ \A d \in Conns : d # w => received'[d] = received[d]
    BY <2>1, <2>2, <1>t
  <2>4. \A i \in 1..Len(received'[w]) :
           received'[w][i] = g \/ (i \in 1..Len(received[w]) /\ received'[w][i] = received[w][i])
    BY <2>3
  <2>5. \A f \in Frame : OnWay(f)' => OnWay(f)
    BY <2>1, <2>2, <2>3, <2>4 DEF OnWay
  <2>6. ReceivedOK' /\ WritingOK'
    BY <2>1, <2>2, <2>3 DEF RelayInv, ReceivedOK, WritingOK
  <2>. QED
    BY <1>6, <2>1, <2>5, <2>6
<1>11. CASE Expire \/ UNCHANGED vars
  BY <1>11, RelayKept DEF Expire, vars
<1>12. ASSUME NEW c \in Conns, TakeSlot(c) \/ DropFrame(c) \/ ReadFails(c) \/ UnregisterGone(c) \/ Unregister(c)
       PROVE  RelayInv'
  BY <1>3, <1>12 DEF TakeSlot, DropFrame, ReadFails, UnregisterGone, Unregister
<1>. QED
  BY <1>1, <1>2, <1>4, <1>5, <1>7, <1>8, <1>9, <1>10, <1>11, <1>12
     DEF Next, ConnStep, ForwarderStep, WebReady, TimeOut, Done, WriteFail

LEMMA RelayFacts == Spec => [](TypeInv /\ TableInv /\ RelayInv)
<1>1. Init => TypeInv /\ TableInv /\ RelayInv
  BY TypeInit, TableInit, RelayInit
<1>2. (TypeInv /\ TableInv /\ RelayInv) /\ [Next]_vars => (TypeInv /\ TableInv /\ RelayInv)'
  BY TypeNext, TableNext, RelayNext
<1>. QED
  BY <1>1, <1>2, PTL DEF Spec

-----------------------------------------------------------------------------
(* The refinement.  A sequence is taken apart at the frame in hand.        *)

LEMMA InHand ==
  ASSUME NEW T, NEW q \in Seq(T), NEW x \in T
  PROVE  /\ <<x>> \o q # <<>> /\ Head(<<x>> \o q) = x /\ Tail(<<x>> \o q) = q
         /\ <<>> \o q = q /\ <<x>> \o q \in Seq(T)
         /\ Len(<<x>> \o q) = Len(q) + 1 /\ Len(<<>> \o q) = Len(q)
         /\ \A y \in T : /\ <<x>> \o Append(q, y) = Append(<<x>> \o q, y)
                         /\ <<>> \o Append(q, y) = Append(<<>> \o q, y)
<1>1. <<>> \o q = q /\ <<x>> \o q \in Seq(T) /\ Len(<<x>> \o q) = Len(q) + 1 /\ <<x>> \o q # <<>>
  OBVIOUS
<1>2. Head(<<x>> \o q) = x
  OBVIOUS
<1>3. Tail(<<x>> \o q) = q
  OBVIOUS
<1>4. ASSUME NEW y \in T
      PROVE  <<x>> \o Append(q, y) = Append(<<x>> \o q, y) /\ <<>> \o Append(q, y) = Append(q, y)
  OBVIOUS
<1>. QED
  BY <1>1, <1>2, <1>3, <1>4

LEMMA Headless == ASSUME NEW T, NEW q \in Seq(T), q # <<>> PROVE <<Head(q)>> \o Tail(q) = q
  OBVIOUS

LEMMA RelayStarts == Init => Relay!Init
<1> SUFFICES ASSUME Init PROVE Relay!Init
  OBVIOUS
<1>1. Pending = <<>>
  BY DEF Init, Pending, Hand, Forwards, Forwarder
<1>2. Served = FALSE
  BY DEF Init, Served
<1>3. Received = [w \in Webs |-> <<>>]
  BY DEF Init, Received, Webs
<1>. QED
  BY <1>1, <1>2, <1>3 DEF Relay!Init

\* The relay does not see the step, except that a web client comes or goes.
LEMMA StillOrServes ==
  ASSUME Pending' = Pending, Received' = Received
  PROVE  [Relay!Next]_(Relay!vars)
<1>1. CASE Served' = Served
  BY <1>1 DEF Relay!vars
<1>2. CASE Served' # Served
  <2>1. Served' = ~Served
    BY <1>2 DEF Served
  <2>. QED
    BY <2>1 DEF Relay!Next, Relay!Serve
<1>. QED
  BY <1>1, <1>2

\* What the relay has seen of a sender is older than the frame it queues.
LEMMA SeenOlder ==
  ASSUME TypeInv, RelayInv, NEW c \in Conns, conn[c].pc = "queueing",
         NEW g \in Relay!Seen, g.from = c
  PROVE  g.n < sent[c]
<1>1. g \in Frame /\ OnWay(g)
  <2>t. /\ frames[relayed] \in Seq(Frame) /\ HandTyped(relayed)
        /\ \A w \in Conns : received[w] \in Seq(Frame)
    BY DEF TypeInv
  <2>1. ASSUME NEW w \in Webs, NEW i \in DOMAIN Received[w], g = Received[w][i]
        PROVE  g \in Frame /\ OnWay(g)
    <3>1. w \in Conns /\ Received[w] = IF conn[w].in = relayed THEN received[w] ELSE <<>>
      BY DEF Received, Webs
    <3>2. Received[w] = received[w] /\ i \in 1..Len(received[w])
      BY <2>1, <2>t, <3>1
    <3>. QED
      BY <2>1, <2>t, <3>1, <3>2 DEF OnWay
  <2>2. ASSUME NEW i \in DOMAIN Pending, g = Pending[i] PROVE g \in Frame /\ OnWay(g)
    <3>1. CASE forwarder[relayed].at \in {"taken", "writing"}
      <4> DEFINE x == forwarder[relayed].frame
                 q == frames[relayed]
      <4>1. x \in Frame /\ Pending = <<x>> \o q /\ q \in Seq(Frame)
        BY <2>t, <3>1 DEF HandTyped, Pending, Hand
      <4>2. g = x \/ \E j \in 1..Len(q) : g = q[j]
        BY <2>2, <4>1
      <4>. QED
        BY <2>t, <3>1, <4>1, <4>2 DEF OnWay
    <3>2. CASE forwarder[relayed].at \notin {"taken", "writing"}
      <4>1. Pending = frames[relayed]
        BY <2>t, <3>2 DEF Pending, Hand
      <4>. QED
        BY <2>2, <2>t, <4>1 DEF OnWay
    <3>. QED
      BY <3>1, <3>2
  <2>. QED
    BY <2>1, <2>2 DEF Relay!Seen, Relay!ToSet
<1>. QED
  BY <1>1 DEF RelayInv, NumbersOK

LEMMA RelaySteps ==
  TypeInv /\ TableInv /\ RelayInv /\ [Next]_vars => [Relay!Next]_(Relay!vars)
<1> SUFFICES ASSUME TypeInv, TableInv, RelayInv, [Next]_vars PROVE [Relay!Next]_(Relay!vars)
  OBVIOUS
<1>t. /\ slot \in [Sessions -> [{"android", "web"} -> Conns \cup {NoConn}]]
      /\ conn \in [Conns -> [pc : {"new", "joining", "reading", "queueing", "leaving", "closed"},
                             in : Sessions \cup {NoSession}]]
      /\ \A c \in Conns : ConnOK(c)
      /\ \A s \in Sessions : HandTyped(s)
      /\ frames \in [Sessions -> Seq(Frame)] /\ received \in [Conns -> Seq(Frame)]
      /\ \A s \in Sessions : Len(frames[s]) <= BufferSize
  BY DEF TypeInv, TypeOK
<1>f. forwarder \in
         [Sessions -> [at : {"none", "waiting", "draining", "taken", "writing", "timedOut", "stopped"},
                       frame : Frame \cup {NoFrame}, to : Conns \cup {NoConn}]]
  BY DEF TypeInv, TypeOK
<1> USE DEF session, past
\* Steps of connections that read, join and leave.
<1>1. ASSUME Hand' = Hand, UNCHANGED <<frames, received>>,
             \A w \in Webs : conn'[w].in = conn[w].in \/ received[w] = <<>>
      PROVE  [Relay!Next]_(Relay!vars)
  <2>1. Pending' = Pending
    BY <1>1 DEF Pending
  <2>2. Received' = Received
    BY <1>1 DEF Received, Webs
  <2>. QED
    BY <2>1, <2>2, StillOrServes
<1>2. ASSUME NEW c \in Conns, GetExisting(c) PROVE [Relay!Next]_(Relay!vars)
  <2>1. \A w \in Webs : conn'[w].in = conn[w].in \/ received[w] = <<>>
    BY <1>2, <1>t DEF GetExisting, Conn, RelayInv, ReceivedOK, Webs
  <2>. QED
    BY <1>1, <1>2, <2>1 DEF GetExisting, Hand
<1>3. ASSUME NEW c \in Conns, NEW s \in Sessions, CreateSession(c, s) PROVE [Relay!Next]_(Relay!vars)
  <2>1. /\ conn[c].pc = "new" /\ forwarder[s].at = "none"
        /\ forwarder' = [forwarder EXCEPT ![s] = Forwards("waiting")]
        /\ conn' = [conn EXCEPT ![c] = Conn("joining", s)]
        /\ UNCHANGED <<frames, received>>
    BY <1>3 DEF CreateSession, Fresh
  <2>2. \A w \in Webs : conn'[w].in = conn[w].in \/ received[w] = <<>>
    BY <2>1, <1>t DEF Conn, RelayInv, ReceivedOK, Webs
  <2>3. Hand' = Hand
    BY <2>1, <1>f DEF Hand, Forwards, Forwarder
  <2>. QED
    BY <1>1, <2>1, <2>2, <2>3
<1>4. ASSUME NEW c \in Conns, NEW pc \in {"reading", "leaving", "closed"}, Goto(c, pc),
             UNCHANGED <<frames, received, forwarder>>
      PROVE  [Relay!Next]_(Relay!vars)
  BY <1>1, <1>4, Gone DEF Hand, Webs
<1>5. ASSUME NEW c \in Conns, ReadFrame(c) PROVE [Relay!Next]_(Relay!vars)
  <2>1. /\ Role[c] = "android" /\ UNCHANGED <<frames, received, forwarder>>
        /\ \/ Goto(c, "leaving")
           \/ conn' = [conn EXCEPT ![c] = [pc |-> "queueing", in |-> current]]
    BY <1>5 DEF ReadFrame
  <2>2. \A w \in Webs : conn'[w] = conn[w]
    BY <2>1, <1>t, Gone DEF Webs
  <2>. QED
    BY <1>1, <2>1, <2>2 DEF Hand
\* A frame enters the relay behind the others.
<1>6. ASSUME NEW c \in Conns, QueueFrame(c) PROVE [Relay!Next]_(Relay!vars)
  <2>0. conn[c].in \in Sessions
    BY <1>6, <1>t DEF QueueFrame, ConnOK
  <2>1. PICK s \in Sessions, f \in Frame :
           /\ s = conn[c].in /\ f = [from |-> c, n |-> sent[c]] /\ conn[c].pc = "queueing"
           /\ Goto(c, "reading") /\ frames' = [frames EXCEPT ![s] = Append(@, f)]
           /\ Len(frames[s]) < BufferSize
           /\ UNCHANGED <<received, forwarder, slot, done>>
    BY <1>6, <2>0, FrameRead DEF QueueFrame
  <2>2. Hand' = Hand /\ Served' = Served
    BY <2>1 DEF Hand, Served
  <2>3. Received' = Received
    BY <2>1, Gone DEF Received, Webs
  <2>4. CASE s # relayed
    <3>1. Pending' = Pending
      BY <2>1, <2>2, <2>4, <1>t DEF Pending
    <3>. QED
      BY <2>3, <3>1, StillOrServes
  <2>5. CASE s = relayed
    <3>1. /\ frames'[relayed] = Append(frames[relayed], f) /\ frames[relayed] \in Seq(Frame)
          /\ Len(frames[relayed]) < BufferSize
      BY <2>1, <2>5, <1>t
    <3>2. Hand = <<>> \/ \E x \in Frame : Hand = <<x>>
      BY <1>t DEF Hand, HandTyped
    <3>3. Pending' = Append(Pending, f)
      BY <2>2, <3>1, <3>2, InHand DEF Pending
    <3>4. Len(Pending) < BufferSize + 1
      <4>1. Len(Pending) \in {Len(frames[relayed]), Len(frames[relayed]) + 1}
        <5>1. CASE Hand = <<>>
          BY <3>1, <5>1 DEF Pending
        <5>2. ASSUME NEW x \in Frame, Hand = <<x>> PROVE Len(Pending) = Len(frames[relayed]) + 1
          BY <3>1, <5>2, InHand DEF Pending
        <5>. QED
          BY <3>2, <5>1, <5>2
      <4>2. Len(frames[relayed]) \in Nat
        BY <3>1
      <4>. QED
        BY <3>1, <4>1, <4>2
    <3>5. \A g \in Relay!Seen : g.from = f.from => g.n < f.n
      BY <2>1, SeenOlder
    <3>6. Relay!Accept(f)
      BY <2>2, <2>3, <3>3, <3>4, <3>5 DEF Relay!Accept
    <3>. QED
      BY <2>1, <3>6 DEF Relay!Next
  <2>. QED
    BY <2>4, <2>5
<1>7. ASSUME NEW s \in Sessions, NEW from \in {"waiting", "draining"},
             NEW to \in {"draining", "timedOut", "stopped"}, Steps(s, from, to)
      PROVE  [Relay!Next]_(Relay!vars)
  <2>1. /\ forwarder[s].at = from /\ forwarder'[s].at = to
        /\ \A r \in Sessions : r # s => forwarder'[r] = forwarder[r]
        /\ UNCHANGED <<frames, received, conn>>
    BY <1>7, <1>f DEF Steps, Forwards, Forwarder
  <2>2. Hand' = Hand
    BY <2>1 DEF Hand
  <2>. QED
    BY <1>1, <2>1, <2>2
<1>8. ASSUME NEW s \in Sessions, TakeFrame(s) PROVE [Relay!Next]_(Relay!vars)
  <2>1. /\ forwarder' = [forwarder EXCEPT ![s] = Forwarder("taken", Head(frames[s]), NoConn)]
        /\ frames' = [frames EXCEPT ![s] = Tail(@)] /\ frames[s] # <<>>
        /\ forwarder[s].at = "draining" /\ UNCHANGED <<conn, received>>
    BY <1>8 DEF TakeFrame
  <2>2. Received' = Received
    BY <2>1 DEF Received
  <2>3. Pending' = Pending
    <3>1. CASE s = relayed
      <4>1. Hand' = <<Head(frames[s])>> /\ frames'[s] = Tail(frames[s]) /\ Hand = <<>>
        BY <2>1, <3>1, <1>t, <1>f DEF Hand, Forwarder
      <4>2. frames[s] \in Seq(Frame) /\ Head(frames[s]) \in Frame
        BY <2>1, <1>t
      <4>3. <<Head(frames[s])>> \o Tail(frames[s]) = frames[s]
        BY <2>1, <4>2, Headless
      <4>4. <<>> \o frames[s] = frames[s]
        BY <4>2
      <4>. QED
        BY <3>1, <4>1, <4>3, <4>4 DEF Pending
    <3>2. CASE s # relayed
      BY <2>1, <3>2, <1>t, <1>f DEF Hand, Pending
    <3>. QED
      BY <3>1, <3>2
  <2>. QED
    BY <2>2, <2>3, StillOrServes
\* The frame in hand is lost, or handed on.
<1>9. ASSUME forwarder[relayed].at \in {"taken", "writing"}, forwarder'[relayed].at = "draining",
             UNCHANGED <<frames, slot, done>>
      PROVE  /\ Pending # <<>> /\ Pending' = Tail(Pending) /\ Served' = Served
             /\ Head(Pending) = forwarder[relayed].frame
  <2>1. /\ forwarder[relayed].frame \in Frame /\ frames[relayed] \in Seq(Frame)
        /\ Hand = <<forwarder[relayed].frame>> /\ Hand' = <<>>
    BY <1>9, <1>t DEF HandTyped, Hand
  <2>2. Pending = <<forwarder[relayed].frame>> \o frames[relayed]
    BY <2>1 DEF Pending
  <2>3. Pending' = frames[relayed]
    BY <1>9, <2>1, InHand DEF Pending
  <2>4. Served' = Served
    BY <1>9 DEF Served
  <2>. QED
    BY <2>1, <2>2, <2>3, <2>4, InHand
<1>10. ASSUME NEW s \in Sessions, PickWeb(s) \/ WriteFail(s) PROVE [Relay!Next]_(Relay!vars)
  <2>1. /\ forwarder[s].at \in {"taken", "writing"}
        /\ \A r \in Sessions : r # s => forwarder'[r] = forwarder[r]
        /\ \/ forwarder'[s].at = "draining"
           \/ forwarder'[s].at = "writing" /\ forwarder'[s].frame = forwarder[s].frame
        /\ UNCHANGED <<frames, received, conn, slot, done>>
    BY <1>10, <1>f DEF PickWeb, WriteFail, Steps, Forwards, Forwarder
  <2>2. Received' = Received
    BY <2>1 DEF Received
  <2>3. CASE s = relayed /\ forwarder'[s].at = "draining"
    <3>1. Relay!Lose
      BY <1>9, <2>1, <2>2, <2>3 DEF Relay!Lose
    <3>. QED
      BY <3>1 DEF Relay!Next
  <2>4. CASE ~(s = relayed /\ forwarder'[s].at = "draining")
    <3>1. Hand' = Hand
      BY <2>1, <2>4 DEF Hand
    <3>. QED
      BY <1>1, <2>1, <3>1
  <2>. QED
    BY <2>3, <2>4
<1>11. ASSUME NEW s \in Sessions, WriteOk(s) PROVE [Relay!Next]_(Relay!vars)
  <2> DEFINE w == forwarder[s].to
             f == forwarder[s].frame
  <2>1. /\ forwarder[s].at = "writing" /\ received' = [received EXCEPT ![w] = Append(@, f)]
        /\ forwarder'[s].at = "draining"
        /\ \A r \in Sessions : r # s => forwarder'[r] = forwarder[r]
        /\ UNCHANGED <<frames, conn, slot, done>>
    BY <1>11, <1>f DEF WriteOk, Forwards, Forwarder
  <2>2. w \in Webs /\ conn[w].in = s
    BY <2>1, <1>t DEF HandTyped, RelayInv, WritingOK, Webs
  <2>3. \A d \in Conns : received'[d] = IF d = w THEN Append(received[w], f) ELSE received[d]
    BY <2>1, <1>t
  <2>4. CASE s = relayed
    <3>1. Received' = [Received EXCEPT ![w] = Append(@, f)]
      <4>1. w \in Conns /\ Received[w] = received[w]
        BY <2>2, <2>4 DEF Received, Webs
      <4>2. Received' = [d \in Webs |-> IF d = w THEN Append(received[w], f)
                                       ELSE IF conn[d].in = relayed THEN received[d] ELSE <<>>]
        BY <2>1, <2>2, <2>3, <2>4 DEF Received, Webs
      <4>3. [Received EXCEPT ![w] = Append(@, f)] =
               [d \in Webs |-> IF d = w THEN Append(Received[w], f) ELSE Received[d]]
        BY DEF Received
      <4>4. \A d \in Webs : Received[d] = IF conn[d].in = relayed THEN received[d] ELSE <<>>
        BY DEF Received
      <4>. QED
        BY <4>1, <4>2, <4>3, <4>4
    <3>2. f = Head(Pending) /\ Pending # <<>> /\ Pending' = Tail(Pending) /\ Served' = Served
      BY <1>9, <2>1, <2>4
    <3>3. Relay!Forward(w)
      BY <3>1, <3>2 DEF Relay!Forward
    <3>. QED
      BY <2>2, <3>3 DEF Relay!Next
  <2>5. CASE s # relayed
    <3>1. Received' = Received
      BY <2>1, <2>2, <2>3, <2>5 DEF Received, Webs
    <3>2. Pending' = Pending
      BY <2>1, <2>5 DEF Pending, Hand
    <3>. QED
      BY <3>1, <3>2, StillOrServes
  <2>. QED
    BY <2>4, <2>5
<1>12. ASSUME NEW c \in Conns, TakeSlot(c) \/ DropFrame(c) \/ ReadFails(c) \/ UnregisterGone(c) \/ Unregister(c)
       PROVE  [Relay!Next]_(Relay!vars)
  BY <1>4, <1>12 DEF TakeSlot, DropFrame, ReadFails, UnregisterGone, Unregister
<1>13. CASE Expire \/ UNCHANGED vars
  BY <1>1, <1>13 DEF Expire, vars, Hand
<1>. QED
  BY <1>2, <1>3, <1>5, <1>6, <1>7, <1>8, <1>10, <1>11, <1>12, <1>13
     DEF Next, ConnStep, ForwarderStep, WebReady, TimeOut, Done

\* Every session relays as RelayChannel promises, but for what must happen
\* eventually: frames may be lost, none overtakes another of its sender, none
\* comes twice, and the relay never holds more than BufferSize and one.
THEOREM RelayedInOrder == Spec => RelaysInOrder
  BY RelayStarts, RelaySteps, RelayFacts, PTL DEF Spec, RelaysInOrder
=============================================================================
