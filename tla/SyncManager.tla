---------------------------- MODULE SyncManager ----------------------------
(***************************************************************************)
(* The relay that carries a history sync from the Android device to the    *)
(* web client of one web session: sync_manager.go, driven by the handler   *)
(* of sync_handler.go.  syncManager keeps a table of syncSession by        *)
(* session id; ids do not interact, so the model has one id, one slot of   *)
(* the table and the syncSession objects that come and go in it.           *)
(*                                                                         *)
(* A connection of Conns is one whose upgrade was granted; its goroutine   *)
(* runs Register, ReadPump and Unregister once.  A frame is the connection *)
(* that sent it and its number there.                                      *)
(***************************************************************************)
EXTENDS Naturals, Sequences

CONSTANTS Conns, Role,       \* Role[c]: "android" or "web"
          Sessions,          \* syncSession objects
          NoConn, NoSession,
          BufferSize,        \* FrameBufferSize
          MaxFrames          \* bound: frames an Android connection sends

ASSUME SyncAssumption ==
    /\ Role \in [Conns -> {"android", "web"}]
    /\ NoConn \notin Conns /\ NoSession \notin Sessions
    /\ BufferSize \in Nat \ {0} /\ MaxFrames \in Nat

VARIABLES
    current,    \* the session in the manager's table
    slot,       \* slot[s][role]: the connection registered in session s
    ready,      \* sessions whose webReady is closed
    done,       \* sessions whose done is closed
    frames,     \* frames[s]: the channel of buffered frames
    forwarder,  \* forwarder[s]: the goroutine of runForwarder
    conn,       \* what the goroutine of each connection does
    sent,       \* sent[c]: frames read from c
    expired,    \* expiresAt has passed
    received,   \* received[c]: frames written to c (history)
    replaced,   \* connections another has replaced in their slot (history)
    late        \* connections that took a slot too late (history)

session == <<current, slot, ready, done>>
past == <<received, replaced, late>>
vars == <<session, frames, forwarder, conn, sent, expired, past>>

Frame == [from : {c \in Conns : Role[c] = "android"}, n : 1..MaxFrames]
NoFrame == [from |-> NoConn, n |-> 0]

\* at: what the forwarder does; frame, to: what it writes, and to whom.
Forwarder(at, frame, to) == [at |-> at, frame |-> frame, to |-> to]
Forwards(at) == Forwarder(at, NoFrame, NoConn)
\* in: the session the connection uses.
Conn(pc, s) == [pc |-> pc, in |-> s]

Goto(c, pc) == conn' = [conn EXCEPT ![c].pc = pc]
Fresh(s) == forwarder[s].at = "none"
-----------------------------------------------------------------------------
(* Register: getOrCreate under the manager's lock, then the slot under the *)
(* session's own.                                                          *)

GetExisting(c) ==
    /\ conn[c].pc = "new"
    /\ current # NoSession
    /\ conn' = [conn EXCEPT ![c] = Conn("joining", current)]
    /\ UNCHANGED <<session, frames, forwarder, sent, expired, past>>

CreateSession(c, s) ==
    /\ conn[c].pc = "new"
    /\ current = NoSession /\ Fresh(s)
    /\ current' = s
    /\ forwarder' = [forwarder EXCEPT ![s] = Forwards("waiting")]
    /\ conn' = [conn EXCEPT ![c] = Conn("joining", s)]
    /\ UNCHANGED <<slot, ready, done, frames, sent, expired, past>>

\* The connection that held the slot is forgotten, and stays open.
TakeSlot(c) ==
    LET s == conn[c].in IN
    /\ conn[c].pc = "joining"
    /\ slot' = [slot EXCEPT ![s][Role[c]] = c]
    /\ replaced' = replaced \cup ({slot[s][Role[c]]} \ {NoConn})
    /\ late' = IF s \in done \/ forwarder[s].at = "timedOut" THEN late \cup {c} ELSE late
    /\ ready' = IF Role[c] = "web" THEN ready \cup {s} ELSE ready
    /\ Goto(c, "reading")
    /\ UNCHANGED <<current, done, frames, forwarder, sent, expired, received>>

-----------------------------------------------------------------------------
(* ReadPump.  What a web client sends is ignored.                          *)

\* The session is looked up by its id for every frame.
ReadFrame(c) ==
    /\ conn[c].pc = "reading" /\ Role[c] = "android"
    /\ sent[c] < MaxFrames
    /\ sent' = [sent EXCEPT ![c] = @ + 1]
    /\ IF current = NoSession \/ expired
       THEN Goto(c, "leaving")
       ELSE conn' = [conn EXCEPT ![c] = [pc |-> "queueing", in |-> current]]
    /\ UNCHANGED <<session, frames, forwarder, expired, past>>

\* (mutant) the frame is added whatever the buffer holds
QueueFull(c) ==
    LET s == conn[c].in
        f == [from |-> c, n |-> sent[c]]
    IN
    /\ conn[c].pc = "queueing"
    /\ frames' = [frames EXCEPT ![s] = Append(@, f)]
    /\ Goto(c, "reading")
    /\ UNCHANGED <<session, forwarder, sent, expired, past>>

QueueFrame(c) ==
    LET s == conn[c].in
        f == [from |-> c, n |-> sent[c]]
    IN
    /\ conn[c].pc = "queueing"
    /\ Len(frames[s]) < BufferSize
    /\ frames' = [frames EXCEPT ![s] = Append(@, f)]
    /\ Goto(c, "reading")
    /\ UNCHANGED <<session, forwarder, sent, expired, past>>

\* The buffer is full: the frame is dropped.
DropFrame(c) ==
    /\ conn[c].pc = "queueing"
    /\ Len(frames[conn[c].in]) = BufferSize
    /\ Goto(c, "reading")
    /\ UNCHANGED <<session, frames, forwarder, sent, expired, past>>

\* The read fails: the client is gone, or the connection was closed.
ReadFails(c) ==
    /\ conn[c].pc = "reading"
    /\ Goto(c, "leaving")
    /\ UNCHANGED <<session, frames, forwarder, sent, expired, past>>

Expire ==
    /\ ~expired
    /\ expired' = TRUE
    /\ UNCHANGED <<session, frames, forwarder, conn, sent, past>>

-----------------------------------------------------------------------------
(* Unregister, under both locks.  It looks at the session the table has    *)
(* now, whichever the connection joined.                                   *)

Vacate(s, c) ==
    IF slot[s][Role[c]] = c THEN [slot[s] EXCEPT ![Role[c]] = NoConn] ELSE slot[s]
Empty(slots) == \A r \in {"android", "web"} : slots[r] = NoConn

UnregisterGone(c) ==
    /\ conn[c].pc = "leaving"
    /\ current = NoSession
    /\ Goto(c, "closed")
    /\ UNCHANGED <<session, frames, forwarder, sent, expired, past>>

\* (mutant) whichever connection is in the slot leaves it
UnregisterAny(c) ==
    /\ conn[c].pc = "leaving"
    /\ current # NoSession
    /\ slot' = [slot EXCEPT ![current][Role[c]] = NoConn]
    /\ IF Empty(slot'[current])
       THEN done' = done \cup {current} /\ current' = NoSession
       ELSE UNCHANGED <<done, current>>
    /\ Goto(c, "closed")
    /\ UNCHANGED <<ready, frames, forwarder, sent, expired, past>>

\* (mutant) the slots are compared before the connection has left its own
UnregisterEarly(c) ==
    /\ conn[c].pc = "leaving"
    /\ current # NoSession
    /\ slot' = [slot EXCEPT ![current] = Vacate(current, c)]
    /\ IF Empty(slot[current])
       THEN done' = done \cup {current} /\ current' = NoSession
       ELSE UNCHANGED <<done, current>>
    /\ Goto(c, "closed")
    /\ UNCHANGED <<ready, frames, forwarder, sent, expired, past>>

\* (mutant) one empty slot is enough to end the session
UnregisterEither(c) ==
    /\ conn[c].pc = "leaving"
    /\ current # NoSession
    /\ slot' = [slot EXCEPT ![current] = Vacate(current, c)]
    /\ IF \E r \in {"android", "web"} : slot'[current][r] = NoConn
       THEN done' = done \cup {current} /\ current' = NoSession
       ELSE UNCHANGED <<done, current>>
    /\ Goto(c, "closed")
    /\ UNCHANGED <<ready, frames, forwarder, sent, expired, past>>

Unregister(c) ==
    /\ conn[c].pc = "leaving"
    /\ current # NoSession
    /\ slot' = [slot EXCEPT ![current] = Vacate(current, c)]
    /\ IF Empty(slot'[current])
       THEN done' = done \cup {current} /\ current' = NoSession
       ELSE UNCHANGED <<done, current>>
    /\ Goto(c, "closed")
    /\ UNCHANGED <<ready, frames, forwarder, sent, expired, past>>

-----------------------------------------------------------------------------
(* runForwarder.  A select with several ready cases takes any of them.     *)

Steps(s, from, to) ==
    /\ forwarder[s].at = from
    /\ forwarder' = [forwarder EXCEPT ![s] = Forwards(to)]
    /\ UNCHANGED <<session, frames, conn, sent, expired, past>>

WebReady(s) == s \in ready /\ Steps(s, "waiting", "draining")
TimeOut(s) == Steps(s, "waiting", "timedOut")
\* (mutant) a forwarder that waits for the web client does not hear of the end
DoneUnheard(s) == s \in done /\ Steps(s, "draining", "stopped")

Done(s) == s \in done /\ (\E at \in {"waiting", "draining"} : Steps(s, at, "stopped"))

\* (mutant) the newest frame first
TakeNewest(s) ==
    /\ forwarder[s].at = "draining" /\ frames[s] # <<>>
    /\ forwarder' = [forwarder EXCEPT ![s] = Forwarder("taken", frames[s][Len(frames[s])], NoConn)]
    /\ frames' = [frames EXCEPT ![s] = SubSeq(@, 1, Len(@) - 1)]
    /\ UNCHANGED <<session, conn, sent, expired, past>>

TakeFrame(s) ==
    /\ forwarder[s].at = "draining" /\ frames[s] # <<>>
    /\ forwarder' = [forwarder EXCEPT ![s] = Forwarder("taken", Head(frames[s]), NoConn)]
    /\ frames' = [frames EXCEPT ![s] = Tail(@)]
    /\ UNCHANGED <<session, conn, sent, expired, past>>

\* The web client of the moment; without one the frame is lost.
PickWeb(s) ==
    LET web == slot[s]["web"] IN
    /\ forwarder[s].at = "taken"
    /\ forwarder' = [forwarder EXCEPT ![s] =
                        IF web = NoConn THEN Forwards("draining")
                        ELSE Forwarder("writing", @.frame, web)]
    /\ UNCHANGED <<session, frames, conn, sent, expired, past>>

WriteOk(s) ==
    LET w == forwarder[s].to IN
    /\ forwarder[s].at = "writing"
    /\ conn[w].pc # "closed"
    /\ received' = [received EXCEPT ![w] = Append(@, forwarder[s].frame)]
    /\ forwarder' = [forwarder EXCEPT ![s] = Forwards("draining")]
    /\ UNCHANGED <<session, frames, conn, sent, expired, replaced, late>>

\* The write fails or runs into SyncWriteTimeout: the frame is lost.
WriteFail(s) == Steps(s, "writing", "draining")

-----------------------------------------------------------------------------
Init ==
    /\ current = NoSession
    /\ slot = [s \in Sessions |-> [r \in {"android", "web"} |-> NoConn]]
    /\ ready = {} /\ done = {}
    /\ frames = [s \in Sessions |-> <<>>]
    /\ forwarder = [s \in Sessions |-> Forwards("none")]
    /\ conn = [c \in Conns |-> Conn("new", NoSession)]
    /\ sent = [c \in Conns |-> 0]
    /\ expired = FALSE
    /\ received = [c \in Conns |-> <<>>]
    /\ replaced = {} /\ late = {}

ConnStep(c) ==
    \/ GetExisting(c) \/ TakeSlot(c)
    \/ \E s \in Sessions : CreateSession(c, s)
    \/ ReadFrame(c) \/ QueueFrame(c) \/ DropFrame(c) \/ ReadFails(c)
    \/ UnregisterGone(c) \/ Unregister(c)

ForwarderStep(s) ==
    \/ WebReady(s) \/ Done(s) \/ TakeFrame(s) \/ PickWeb(s)
    \/ WriteOk(s) \/ WriteFail(s)

Next ==
    \/ \E c \in Conns : ConnStep(c)
    \/ \E s \in Sessions : ForwarderStep(s) \/ TimeOut(s)
    \/ Expire

Spec == Init /\ [][Next]_vars

\* A forwarder that can take a step takes one: its goroutine is scheduled and
\* every write has a deadline.  The clients and the timer owe nothing.
FairSpec == Spec /\ \A s \in Sessions : WF_vars(ForwarderStep(s))

-----------------------------------------------------------------------------
TypeOK ==
    /\ current \in Sessions \cup {NoSession}
    /\ slot \in [Sessions -> [{"android", "web"} -> Conns \cup {NoConn}]]
    /\ ready \subseteq Sessions /\ done \subseteq Sessions
    /\ \A s \in Sessions : frames[s] \in Seq(Frame) /\ Len(frames[s]) <= BufferSize
    /\ forwarder \in
         [Sessions -> [at : {"none", "waiting", "draining", "taken", "writing",
                             "timedOut", "stopped"},
                       frame : Frame \cup {NoFrame}, to : Conns \cup {NoConn}]]
    /\ conn \in [Conns -> [pc : {"new", "joining", "reading", "queueing",
                                 "leaving", "closed"},
                           in : Sessions \cup {NoSession}]]
    /\ sent \in [Conns -> 0..MaxFrames]
    /\ expired \in BOOLEAN
    /\ \A c \in Conns : received[c] \in Seq(Frame)
    /\ replaced \subseteq Conns /\ late \subseteq Conns

Reads(c) == conn[c].pc \in {"reading", "queueing"}

\* When every connection that came has left, the table is empty and every
\* forwarder has been told to stop: Unregister leaks neither a session nor a
\* goroutine, although it looks at the session of the moment and not at the
\* one its connection joined.
NoLeakedSession ==
    (\A c \in Conns : conn[c].pc \in {"new", "closed"})
        => /\ current = NoSession
           /\ \A s \in Sessions : Fresh(s) \/ s \in done

\* A connection that is reading and that no later one of its role replaced is
\* in a slot of a session: the Unregister of an older connection of the same
\* role does not put it out.
ReaderIsRegistered ==
    \A c \in Conns : Reads(c) /\ c \notin replaced
        => \E s \in Sessions : slot[s][Role[c]] = c

\* "frames buffers outgoing frames from android until (and after) web
\* connects": the session of a web client that joined it before its end and
\* before FrameBufferTTL, and that is reading, is the one the table has, and
\* its forwarder has not been stopped.
WebIsServed ==
    \A s \in Sessions :
        LET w == slot[s]["web"] IN
        w # NoConn /\ Reads(w) /\ w \notin late
            => s = current /\ forwarder[s].at # "stopped"

\* The goroutine of a session that has ended stops.
ForwarderStops ==
    \A s \in Sessions : (s \in done) ~> (forwarder[s].at \in {"timedOut", "stopped"})
=============================================================================
