---------------------------- MODULE LegacyRunner ----------------------------
(***************************************************************************)
(* run_shell_with_io: connect, copy all input to the session in as many    *)
(* writes as it takes, then copy its output until it ends, then close.     *)
(* Input bytes are numbered in the order in which they are read.           *)
(***************************************************************************)
EXTENDS Naturals, Sequences

CONSTANTS
    MaxInput,           \* bound: bytes of local input
    MaxOutput,          \* bound: bytes of remote output
    BufferSize          \* bytes of one read

VARIABLES
    lpc,                \* where the call is
    given,              \* bytes read from the input
    buffer,             \* the numbers of the bytes in the buffer
    written,            \* how many of them the session has taken
    received,           \* the bytes the remote side got, in order
    served, shown,      \* bytes read from the session, and written out
    legacyClosed,
    verdict             \* "", "ok" or the kind of error returned

legacyVars == <<lpc, given, buffer, written, received, served, shown, legacyClosed, verdict>>

LegacyInit ==
    /\ lpc = "connect" /\ given = 0 /\ buffer = <<>> /\ written = 0 /\ received = <<>>
    /\ served = 0 /\ shown = 0 /\ legacyClosed = FALSE /\ verdict = ""

\* The ? of the code: the call ends with the error, and the session is dropped.
Give(v) == lpc' = "returned" /\ verdict' = v

\* SshChannelConnector opens a channel and wraps it; what the session does from
\* then on is what its channel does.
LegacyConnect ==
    /\ lpc = "connect"
    /\ \/ lpc' = "read_input" /\ UNCHANGED verdict
       \/ Give("connect_failed")
    /\ UNCHANGED <<given, buffer, written, received, served, shown, legacyClosed>>

ReadInput ==
    /\ lpc = "read_input"
    /\ \/ \E n \in 1..BufferSize :
            /\ given + n <= MaxInput
            /\ given' = given + n /\ buffer' = [i \in 1..n |-> given + i] /\ written' = 0
            /\ lpc' = "write" /\ UNCHANGED verdict
       \/ lpc' = "read_output" /\ UNCHANGED <<given, buffer, written, verdict>>
       \/ Give("input_failed") /\ UNCHANGED <<given, buffer, written>>
    /\ UNCHANGED <<received, served, shown, legacyClosed>>

\* Mutant: a write that took something took everything.
WriteOnce ==
    /\ lpc = "write"
    /\ \/ \E n \in 1..(Len(buffer) - written) :
            /\ received' = received \o SubSeq(buffer, written + 1, written + n)
            /\ written' = Len(buffer) /\ lpc' = "read_input" /\ UNCHANGED verdict
       \/ Give("zero_write") /\ UNCHANGED <<received, written>>
       \/ Give("write_failed") /\ UNCHANGED <<received, written>>
    /\ UNCHANGED <<given, buffer, served, shown, legacyClosed>>

\* The session takes some of what is left, nothing, or fails.
Write ==
    /\ lpc = "write"
    /\ \/ \E n \in 1..(Len(buffer) - written) :
            /\ received' = received \o SubSeq(buffer, written + 1, written + n)
            /\ written' = written + n
            /\ lpc' = (IF written + n < Len(buffer) THEN "write" ELSE "read_input")
            /\ UNCHANGED verdict
       \/ Give("zero_write") /\ UNCHANGED <<received, written>>
       \/ Give("write_failed") /\ UNCHANGED <<received, written>>
    /\ UNCHANGED <<given, buffer, served, shown, legacyClosed>>

ReadOutput ==
    /\ lpc = "read_output"
    /\ \/ \E n \in 1..BufferSize :
            served + n <= MaxOutput /\ served' = served + n /\ lpc' = "show" /\ UNCHANGED verdict
       \/ lpc' = "close" /\ UNCHANGED <<served, verdict>>
       \/ Give("read_failed") /\ UNCHANGED served
    /\ UNCHANGED <<given, buffer, written, received, shown, legacyClosed>>

\* write_all and flush, either of which may fail after part of the bytes.
Show ==
    /\ lpc = "show"
    /\ \/ shown' = served /\ lpc' = "read_output" /\ UNCHANGED verdict
       \/ shown' \in shown..served /\ Give("output_failed")
    /\ UNCHANGED <<given, buffer, written, received, served, legacyClosed>>

LegacyClose ==
    /\ lpc = "close"
    /\ \/ legacyClosed' = TRUE /\ Give("ok")
       \/ Give("close_failed") /\ UNCHANGED legacyClosed
    /\ UNCHANGED <<given, buffer, written, received, served, shown>>

LegacyNext == LegacyConnect \/ ReadInput \/ Write \/ ReadOutput \/ Show \/ LegacyClose

-----------------------------------------------------------------------------
\* However the session splits the writes: the remote side never gets a byte
\* twice, out of order or after a gap; no output is read before it has all the
\* input that was read; and Ok means that all output was shown as well and the
\* session was closed.
LegacyOkMeansAll ==
    /\ received = [i \in 1..Len(received) |-> i]
    /\ served > 0 => Len(received) = given
    /\ verdict = "ok" => Len(received) = given /\ shown = served /\ legacyClosed

\* What the proof adds: which bytes are in the buffer, what the remote side has
\* of them, and how far the copying is.
LegacyInv ==
    /\ given \in Nat /\ written \in Nat /\ served \in Nat /\ shown \in Nat
    /\ buffer \in Seq(Nat) /\ received \in Seq(Nat)
    /\ LegacyOkMeansAll
    /\ lpc = "write" =>
        /\ Len(buffer) <= given /\ written < Len(buffer)
        /\ buffer = [i \in 1..Len(buffer) |-> (given - Len(buffer)) + i]
        /\ Len(received) = (given - Len(buffer)) + written
    /\ lpc \notin {"write", "returned"} => Len(received) = given
    /\ lpc \in {"connect", "read_input", "write"} => served = 0
    /\ lpc \notin {"show", "returned"} => shown = served
    /\ lpc = "show" => shown <= served
    /\ lpc # "returned" => verdict = ""
=============================================================================
