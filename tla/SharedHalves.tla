---------------------------- MODULE SharedHalves ----------------------------
(***************************************************************************)
(* The full-duplex runner over the compatibility halves: reader and writer *)
(* share one session behind a mutex, and a read or a write waits for the   *)
(* remote side with the mutex held.  The main thread copies output and     *)
(* then winds up; the input pump writes, resizes, cancels.                 *)
(***************************************************************************)
EXTENDS Naturals

CONSTANTS
    MaxEvents,          \* bound: input events
    MaxWrites,          \* bound: writes to one event
    MaxReplies          \* bound: chunks the remote side sends

VARIABLES
    mpc,                \* where the main thread is
    ppc,                \* where the input pump is
    mutex,              \* who holds the session
    flag,               \* SshCancellation
    events,             \* input events taken
    unsent,             \* writes its last event still needs
    failed,             \* has the pump an error to report?
    waiting,            \* chunks the remote side has sent and nobody has read
    replies,            \* chunks it has sent
    over,               \* has it closed the channel?
    closes              \* close() calls made on the session

halvesVars == <<mpc, ppc, mutex, flag, events, unsent, failed, waiting, replies, over, closes>>

HalvesInit ==
    /\ mpc = "read" /\ ppc = "recv" /\ mutex = "free" /\ flag = FALSE
    /\ events = 0 /\ unsent = 0 /\ failed = FALSE
    /\ waiting = 0 /\ replies = 0 /\ over = FALSE /\ closes = 0

\* The remote side sends, or closes.
RemoteSends ==
    /\ ~over /\ replies < MaxReplies
    /\ replies' = replies + 1 /\ waiting' = waiting + 1
    /\ UNCHANGED <<mpc, ppc, mutex, flag, events, unsent, failed, over, closes>>

RemoteCloses ==
    /\ ~over /\ over' = TRUE
    /\ UNCHANGED <<mpc, ppc, mutex, flag, events, unsent, failed, waiting, replies, closes>>

-----------------------------------------------------------------------------
(* The main thread: copy_session_to_output, then cancel, join and close.   *)

ReadLocks ==
    /\ mpc = "read" /\ mutex = "free"
    /\ mutex' = "main" /\ mpc' = "reading"
    /\ UNCHANGED <<ppc, flag, events, unsent, failed, waiting, replies, over, closes>>

\* Mutant: the guard lives as long as the loop.
ReadKeepsGuard ==
    /\ mpc = "reading" /\ (waiting > 0 \/ over)
    /\ mpc' = IF waiting > 0 THEN "reading" ELSE "cancel"
    /\ waiting' = IF waiting > 0 THEN waiting - 1 ELSE 0
    /\ UNCHANGED <<ppc, mutex, flag, events, unsent, failed, replies, over, closes>>

\* A chunk is read and written to the output, or the end is read; the guard is
\* dropped with the call.
ReadReturns ==
    /\ mpc = "reading" /\ (waiting > 0 \/ over)
    /\ mutex' = "free"
    /\ mpc' = IF waiting > 0 THEN "read" ELSE "cancel"
    /\ waiting' = IF waiting > 0 THEN waiting - 1 ELSE 0
    /\ UNCHANGED <<ppc, flag, events, unsent, failed, replies, over, closes>>

\* The read fails, or the output does.
OutputFails ==
    /\ mpc = "reading" /\ mutex' = "free" /\ mpc' = "cancel"
    /\ UNCHANGED <<ppc, flag, events, unsent, failed, waiting, replies, over, closes>>

CancelInput ==
    /\ mpc = "cancel" /\ flag' = TRUE /\ mpc' = "join"
    /\ UNCHANGED <<ppc, mutex, events, unsent, failed, waiting, replies, over, closes>>

\* The pump is joined; it has closed the session itself after an error.
JoinInput ==
    /\ mpc = "join" /\ ppc = "done"
    /\ mpc' = IF failed THEN "returned" ELSE "close"
    /\ UNCHANGED <<ppc, mutex, flag, events, unsent, failed, waiting, replies, over, closes>>

CloseAtEnd ==
    /\ mpc = "close" /\ mutex = "free"
    /\ over' \in {over, TRUE} /\ closes' = closes + 1 /\ mpc' = "returned"
    /\ UNCHANGED <<ppc, mutex, flag, events, unsent, failed, waiting, replies>>

-----------------------------------------------------------------------------
(* The input pump.                                                         *)

RecvCancelled ==
    /\ ppc = "recv" /\ flag /\ ppc' = "done"
    /\ UNCHANGED <<mpc, mutex, flag, events, unsent, failed, waiting, replies, over, closes>>

\* An event: data, in one write or more, or a resize goes to the session, Cancel
\* raises the flag and closes, EOF ends the pump (finish_input of these halves
\* does nothing), an error closes.
RecvEvent ==
    /\ ppc = "recv" /\ ~flag /\ events < MaxEvents /\ events' = events + 1
    /\ \/ ppc' = "write" /\ unsent' \in 1..MaxWrites /\ UNCHANGED <<flag, failed>>
       \/ ppc' = "close" /\ flag' = TRUE /\ UNCHANGED <<unsent, failed>>
       \/ ppc' = "done" /\ UNCHANGED <<flag, unsent, failed>>
       \/ ppc' = "close" /\ failed' = TRUE /\ UNCHANGED <<flag, unsent>>
    /\ UNCHANGED <<mpc, mutex, waiting, replies, over, closes>>

\* write_cancellable and resize_cancellable look at the flag, and then wait for
\* the lock as write and resize do.
WriteChecks ==
    /\ ppc = "write"
    /\ ppc' = IF flag THEN "done" ELSE "write_lock"
    /\ UNCHANGED <<mpc, mutex, flag, events, unsent, failed, waiting, replies, over, closes>>

WriteLocks ==
    /\ ppc = "write_lock" /\ mutex = "free"
    /\ mutex' = "pump" /\ ppc' = "writing"
    /\ UNCHANGED <<mpc, flag, events, unsent, failed, waiting, replies, over, closes>>

\* The write, which may have waited for the remote side, took part of the bytes,
\* the rest of them, or failed.
WriteReturns ==
    /\ ppc = "writing" /\ mutex' = "free"
    /\ \/ /\ unsent' = unsent - 1 /\ ppc' = (IF unsent = 1 THEN "recv" ELSE "write")
          /\ UNCHANGED failed
       \/ ppc' = "close" /\ failed' = TRUE /\ UNCHANGED unsent
    /\ UNCHANGED <<mpc, flag, events, waiting, replies, over, closes>>

\* A close that fails after Cancel is an error like any other: the pump closes
\* again, once.
PumpCloses ==
    /\ ppc = "close" /\ mutex = "free"
    /\ closes' = closes + 1
    /\ \/ over' = TRUE /\ ppc' = "done" /\ UNCHANGED failed
       \/ failed' = TRUE /\ ppc' = (IF failed THEN "done" ELSE "close") /\ UNCHANGED over
    /\ UNCHANGED <<mpc, mutex, flag, events, unsent, waiting, replies>>

\* What the threads do without anybody's help.  A read returns when there is
\* something to read; a write is only sure to return once the channel is closed.
MainThread == ReadLocks \/ ReadReturns \/ CancelInput \/ JoinInput \/ CloseAtEnd
InputPump == RecvCancelled \/ WriteChecks \/ WriteLocks \/ (over /\ WriteReturns) \/ PumpCloses

\* Input, failures and the remote side come when they like, or never.
HalvesNext ==
    \/ RemoteSends \/ RemoteCloses \/ RecvEvent \/ OutputFails \/ WriteReturns
    \/ MainThread \/ InputPump

-----------------------------------------------------------------------------
\* These halves promise no full-duplex progress, but once the remote side has
\* closed the channel the run ends, with the session closed and its lock free,
\* even with input waiting for the lock, or inside it.
CloseEndsRun == over ~> (mpc = "returned" /\ ppc = "done" /\ mutex = "free" /\ closes > 0)
=============================================================================
