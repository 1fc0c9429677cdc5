---------------------------- MODULE RelayChannel ----------------------------
(***************************************************************************)
(* What the server promises of one session's history relay: a bounded      *)
(* channel that may lose frames, and that neither reorders nor repeats     *)
(* them nor keeps them from a web client that waits.  This is the abstract *)
(* specification; SyncManager is the relay that has to implement it.       *)
(***************************************************************************)
EXTENDS Naturals, Sequences, SequencesExt

CONSTANTS Frames,      \* frames, numbered by each sender: [from, n]
          Readers,     \* web connections
          Capacity     \* frames the relay holds

VARIABLES pending,     \* frames accepted and not yet passed on, oldest first
          served,      \* a web client is registered and the relay is at work
          received     \* received[w]: the frames written to w

vars == <<pending, served, received>>

Seen == ToSet(pending) \cup UNION {ToSet(received[w]) : w \in Readers}

Init ==
    /\ pending = <<>>
    /\ served = FALSE
    /\ received = [w \in Readers |-> <<>>]

\* A sender's frames come in the order of their numbers; some never come.
Accept(f) ==
    /\ Len(pending) < Capacity
    /\ \A g \in Seen : g.from = f.from => g.n < f.n
    /\ pending' = Append(pending, f)
    /\ UNCHANGED <<served, received>>

Forward(w) ==
    /\ pending # <<>>
    /\ received' = [received EXCEPT ![w] = Append(@, Head(pending))]
    /\ pending' = Tail(pending)
    /\ UNCHANGED served

\* Nobody is there to get the frame, or the write fails.
Lose ==
    /\ pending # <<>>
    /\ pending' = Tail(pending)
    /\ UNCHANGED <<served, received>>

Serve ==
    /\ served' = ~served
    /\ UNCHANGED <<pending, received>>

Next ==
    \/ \E f \in Frames : Accept(f)
    \/ \E w \in Readers : Forward(w)
    \/ Lose \/ Serve

\* A frame does not wait for ever while a web client does.
Drains ==
    \A f \in Frames :
        (served /\ f \in ToSet(pending)) ~> (~served \/ f \notin ToSet(pending))

Spec == Init /\ [][Next]_vars /\ Drains
=============================================================================
