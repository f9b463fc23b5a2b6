------------------------- MODULE SessionRefinement -------------------------
(* SessionPump implements Session. *)
EXTENDS SessionPump, FiniteSets

\* The bytes of the data packets of a channel, in its order: the k-th is on the
\* packet up to which there are k of them.
DataPositions(wire) == {i \in DOMAIN wire : wire[i].kind = "data"}
NthData(wire, k) ==
    CHOOSE i \in DataPositions(wire) : Cardinality({j \in DataPositions(wire) : j <= i}) = k
DataOf(wire) == [k \in 1..Cardinality(DataPositions(wire)) |-> wire[NthData(wire, k)].byte]

Abstract ==
    INSTANCE Session WITH
        handed   <- offered,
        accepted <- DataOf(toServer),
        phase    <- CASE writer = "open" -> "open"
                      [] writer = "input_finished" -> "finished"
                      [] writer = "closed" -> "closed",
        sent     <- served.bytes,
        over     <- served.phase = "closed" \/ link = "down",
        shown    <- sink,
        outcome  <- returned

\* The runner with its two threads, the bounded queue, the flow-control window
\* and the lossy link does nothing but what a session may do: every step of it
\* is a step of Session, or none.
ImplementsSession == Abstract!Spec
=============================================================================
