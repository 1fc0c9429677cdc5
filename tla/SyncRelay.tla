----------------------------- MODULE SyncRelay -----------------------------
(***************************************************************************)
(* SyncManager, seen as the relay channel it promises to be: the channel   *)
(* of one session, whichever it is.  What is pending is the frame in the   *)
(* forwarder's hand and what is buffered behind it; a web connection has   *)
(* received what was written to it since it joined the session.            *)
(***************************************************************************)
EXTENDS SyncManager

CONSTANT relayed      \* the session looked at

ASSUME RelayedAssumption == relayed \in Sessions

Hand ==
    IF forwarder[relayed].at \in {"taken", "writing"} THEN <<forwarder[relayed].frame>> ELSE <<>>
Pending == Hand \o frames[relayed]

Webs == {c \in Conns : Role[c] = "web"}
Received == [w \in Webs |-> IF conn[w].in = relayed THEN received[w] ELSE <<>>]

Served ==
    /\ slot[relayed]["web"] # NoConn
    /\ relayed \notin done /\ forwarder[relayed].at # "timedOut"

Relay == INSTANCE RelayChannel WITH
    Frames <- Frame, Readers <- Webs, Capacity <- BufferSize + 1,
    pending <- Pending, served <- Served, received <- Received

\* "drains all buffered (and future) frames to the web connection in order"
\* (sync_manager.go:82): a session implements the relay that is promised.
\* Whatever is dropped between and whichever clients come and go, no frame
\* overtakes another of its sender or comes twice, and none stays behind while
\* a web client is registered, unless the session ends or timed out before.
RelaysInOrder == Relay!Init /\ [][Relay!Next]_(Relay!vars)
ImplementsRelay == RelaysInOrder /\ Relay!Drains
=============================================================================
