---------------------------- MODULE RabbitClient ----------------------------
(***************************************************************************)
(* The one AMQP connection of the process and the goroutine that replaces  *)
(* it when it breaks: internal/rabbitmq/client.go.  Connections are        *)
(* numbered as they are dialled.  A dial the broker refuses changes        *)
(* nothing and is not a step; the five seconds between dials are no state. *)
(***************************************************************************)
EXTENDS Naturals

CONSTANT MaxConns     \* bound: from this connection on none breaks, and a
                      \*   channel can be opened on those that follow it

VARIABLES
    conn,       \* c.conn
    dialled,    \* connections dialled so far
    open,       \* connections that are open
    closed,     \* c.closed, and c.done is closed
    loop,       \* handleReconnect: where it is, and the connection it is about
    closing,    \* the connection Close has read and not closed yet, 0: none
    late        \* connections installed after Close (history)

vars == <<conn, dialled, open, closed, loop, closing, late>>

Loop(pc, k) == [pc |-> pc, on |-> k]
Reconnecting == loop.pc \in {"reconnecting", "dialled"}

\* The connection is lost, or the broker closes it.
Break(k) ==
    /\ k \in open /\ dialled < MaxConns
    /\ open' = open \ {k}
    /\ UNCHANGED <<conn, dialled, closed, loop, closing, late>>

-----------------------------------------------------------------------------
(* handleReconnect and connect.                                            *)

\* conn and closed are read under one lock.
Watch ==
    /\ loop.pc = "top"
    /\ loop' = IF closed THEN Loop("stopped", 0) ELSE Loop("waiting", conn)
    /\ UNCHANGED <<conn, dialled, open, closed, closing, late>>

HearDone ==
    /\ loop.pc = "waiting" /\ closed
    /\ loop' = Loop("stopped", 0)
    /\ UNCHANGED <<conn, dialled, open, closed, closing, late>>

\* NotifyClose of a connection that is closed already reports at once.  The
\* select takes either case when done is closed as well.
HearClose ==
    /\ loop.pc = "waiting" /\ loop.on \notin open
    /\ loop' = Loop("reconnecting", 0)
    /\ UNCHANGED <<conn, dialled, open, closed, closing, late>>

\* closed is not looked at here.
Dial ==
    /\ loop.pc = "reconnecting"
    /\ dialled' = dialled + 1
    /\ open' = open \cup {dialled'}
    /\ loop' = Loop("dialled", dialled')
    /\ UNCHANGED <<conn, closed, closing, late>>

\* (mutant) the connection without a channel is not closed
ChannelFailsOpen ==
    /\ loop.pc = "dialled" /\ dialled <= MaxConns
    /\ loop' = Loop("reconnecting", 0)
    /\ UNCHANGED <<conn, dialled, open, closed, closing, late>>

\* (mutant) a connect that failed ends the goroutine
ChannelFailsForGood ==
    /\ loop.pc = "dialled" /\ dialled <= MaxConns
    /\ open' = open \ {loop.on}
    /\ loop' = Loop("stopped", 0)
    /\ UNCHANGED <<conn, dialled, closed, closing, late>>

ChannelFails ==
    /\ loop.pc = "dialled" /\ dialled <= MaxConns
    /\ open' = open \ {loop.on}
    /\ loop' = Loop("reconnecting", 0)
    /\ UNCHANGED <<conn, dialled, closed, closing, late>>

Install ==
    /\ loop.pc = "dialled"
    /\ conn' = loop.on
    /\ late' = IF closed THEN late \cup {loop.on} ELSE late
    /\ loop' = Loop("top", 0)
    /\ UNCHANGED <<dialled, open, closed, closing>>

-----------------------------------------------------------------------------
(* Close, once, when the HTTP server has stopped.                          *)

Close ==
    /\ ~closed
    /\ closed' = TRUE
    /\ closing' = conn
    /\ UNCHANGED <<conn, dialled, open, loop, late>>

CloseConn ==
    /\ closing # 0
    /\ open' = open \ {closing}
    /\ closing' = 0
    /\ UNCHANGED <<conn, dialled, closed, loop, late>>

-----------------------------------------------------------------------------
\* NewClient has made the first connection.
Init ==
    /\ conn = 1 /\ dialled = 1 /\ open = {1}
    /\ closed = FALSE
    /\ loop = Loop("top", 0)
    /\ closing = 0 /\ late = {}

LoopStep == Watch \/ HearDone \/ HearClose \/ Dial \/ ChannelFails \/ Install

Next ==
    \/ LoopStep \/ Close \/ CloseConn
    \/ \E k \in open : Break(k)

\* Channel: the connection of the moment, if it is open.
Usable == conn \in open

-----------------------------------------------------------------------------
TypeOK ==
    /\ dialled \in 1..(MaxConns + 2) /\ conn \in 1..dialled
    /\ open \subseteq 1..dialled /\ late \subseteq 1..dialled
    /\ closed \in BOOLEAN /\ closing \in 0..dialled
    /\ loop \in [pc : {"top", "waiting", "reconnecting", "dialled", "stopped"},
                 on : 0..dialled]

\* No connection stays open that neither c.conn nor the goroutine refers to;
\* there is never more than one; and once Close has returned and the goroutine
\* has stopped, none is open but one connect made after Close, for a
\* goroutine that had left the select before (client.go:91).
NoStrayConnection ==
    /\ \A k \in open : k = conn \/ (loop.pc = "dialled" /\ loop.on = k)
    /\ \A k, l \in open : k = l
    /\ closed /\ closing = 0 /\ loop.pc = "stopped" => open \subseteq late

\* A client that is not closed gets a connection again after every loss, and
\* the goroutine ends when the client is closed (client.go:71).  The broker
\* must accept a dial at some time; Close does not end the dialling.
Reconnects ==
    /\ (~Usable /\ ~closed) ~> (Usable \/ closed)
    /\ closed ~> loop.pc = "stopped"
=============================================================================
