------------------------------ MODULE Session ------------------------------
(***************************************************************************)
(* What running a session promises, without threads, queues, windows or    *)
(* buffers.  Bytes flow in both directions, each in order and none twice;  *)
(* the client's side of the channel goes from open to finished to closed;  *)
(* and the run returns once, after which nothing happens any more.         *)
(***************************************************************************)
EXTENDS Naturals, Sequences

VARIABLES
    handed,     \* how many bytes the application has handed over
    accepted,   \* the ones the channel has taken, in order
    phase,      \* the client's side: "open", "finished", "closed"
    sent,       \* how many bytes the remote side has sent
    over,       \* has it closed the channel, or is the transport gone?
    shown,      \* what the local output got, in order
    outcome     \* "none", and in the end "ok" or an error

vars == <<handed, accepted, phase, sent, over, shown, outcome>>

FirstBytes(n) == [i \in 1..n |-> i]

Init ==
    /\ handed = 0 /\ accepted = <<>> /\ phase = "open"
    /\ sent = 0 /\ over = FALSE /\ shown = <<>> /\ outcome = "none"

HandOver ==
    /\ outcome = "none" /\ handed' \in Nat /\ handed' > handed
    /\ UNCHANGED <<accepted, phase, sent, over, shown, outcome>>

\* Only what was handed over is sent, and only while the input is open.
Accept ==
    /\ outcome = "none" /\ phase = "open" /\ Len(accepted) < handed
    /\ accepted' = FirstBytes(Len(accepted) + 1)
    /\ UNCHANGED <<handed, phase, sent, over, shown, outcome>>

FinishInput ==
    /\ outcome = "none" /\ phase = "open" /\ phase' = "finished"
    /\ UNCHANGED <<handed, accepted, sent, over, shown, outcome>>

Close ==
    /\ outcome = "none" /\ phase # "closed" /\ phase' = "closed"
    /\ UNCHANGED <<handed, accepted, sent, over, shown, outcome>>

RemoteSends ==
    /\ outcome = "none" /\ ~over /\ sent' \in Nat /\ sent' > sent
    /\ UNCHANGED <<handed, accepted, phase, over, shown, outcome>>

RemoteEnds ==
    /\ outcome = "none" /\ ~over /\ over' = TRUE
    /\ UNCHANGED <<handed, accepted, phase, sent, shown, outcome>>

Show ==
    /\ outcome = "none"
    /\ \E n \in (Len(shown) + 1)..sent : shown' = FirstBytes(n)
    /\ UNCHANGED <<handed, accepted, phase, sent, over, outcome>>

\* Ok means: the remote side is over, everything it sent was shown, and the
\* channel is closed.  An error may come at any time.
Return ==
    /\ outcome = "none"
    /\ outcome' \in {"ok", "output", "input", "close"}
    /\ phase' \in {phase, "closed"}
    /\ outcome' = "ok" => over /\ shown = FirstBytes(sent) /\ phase' = "closed"
    /\ UNCHANGED <<handed, accepted, sent, over, shown>>

Next ==
    \/ HandOver \/ Accept \/ FinishInput \/ Close
    \/ RemoteSends \/ RemoteEnds \/ Show \/ Return

Spec == Init /\ [][Next]_vars
=============================================================================
