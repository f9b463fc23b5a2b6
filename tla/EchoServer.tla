----------------------------- MODULE EchoServer -----------------------------
(***************************************************************************)
(* LoopbackEchoServer of the test support crate: the owner's start, stop   *)
(* and drop; the listener thread; one thread per accepted connection; and  *)
(* the process reaper that is left the threads that did not end in time.   *)
(*                                                                         *)
(* Every deadline may expire whenever it is waited for.  The listener      *)
(* cancels the server itself when accepting or a connection fails, so it   *)
(* may be on its way down before the owner asks.                           *)
(***************************************************************************)
EXTENDS FiniteSets

CONSTANT Clients    \* connections clients may make

VARIABLES
    opc,            \* where the owner is
    outcome,        \* what its last call returned
    cancelled,      \* EchoControl::cancelled
    ready,          \* the readiness channel
    completion,     \* the completion channel
    wpc,            \* where the listener thread is
    result,         \* outcome of run_echo_listener so far
    conn,           \* each connection's thread
    owned,          \* the listener's vector of connections
    joined,         \* connections whose thread it has joined
    reaper          \* threads left to the process reaper

ownerVars == <<opc, outcome>>
channels == <<ready, completion>>
vars == <<ownerVars, cancelled, channels, wpc, result, conn, owned, joined, reaper>>

Over == {"ok", "error", "panicked"}
Active == {c \in Clients : conn[c] \in {"check", "read"}}
Finished == {c \in owned : conn[c] \in Over}

TypeOK ==
    /\ opc \in {"new", "starting", "start_join", "running", "stop_wait", "stop_join", "done"}
    /\ outcome \in {"none", "ok", "error"}
    /\ cancelled \in BOOLEAN
    /\ ready \in {"empty", "ok", "closed"}
    /\ completion \in {"empty", "ok", "error", "closed"}
    /\ wpc \in {"none", "setup", "loop", "reap", "drain", "report", "leaving", "ended", "panicked"}
    /\ result \in {"ok", "error"}
    /\ conn \in [Clients -> {"none", "refused", "check", "read"} \cup Over]
    /\ owned \subseteq Clients /\ joined \subseteq Clients
    /\ reaper \subseteq Clients \cup {"worker"}

Init ==
    /\ opc = "new" /\ outcome = "none" /\ cancelled = FALSE
    /\ ready = "empty" /\ completion = "empty"
    /\ wpc = "none" /\ result = "ok"
    /\ conn = [c \in Clients |-> "none"] /\ owned = {} /\ joined = {} /\ reaper = {}

-----------------------------------------------------------------------------
(* The owner.                                                              *)

Return(o) == opc' = "done" /\ outcome' = o

\* start_configured: the listener is bound and its thread spawned, or not.
Start ==
    /\ opc = "new"
    /\ \/ opc' = "starting" /\ wpc' = "setup" /\ UNCHANGED outcome
       \/ Return("error") /\ UNCHANGED wpc
    /\ UNCHANGED <<cancelled, channels, result, conn, owned, joined, reaper>>

StartReady ==
    /\ opc = "starting"
    /\ \/ ready = "ok" /\ opc' = "running"
       \/ ready = "closed" /\ opc' = "start_join"
    /\ UNCHANGED <<outcome, cancelled, channels, wpc, result, conn, owned, joined, reaper>>

StartTimeout ==
    /\ opc = "starting" /\ ready = "empty"
    /\ cancelled' = TRUE /\ reaper' = reaper \cup {"worker"}
    /\ Return("error")
    /\ UNCHANGED <<channels, wpc, result, conn, owned, joined>>

\* finish_missing_echo_readiness: an error whether the join succeeds or not.
JoinUnready ==
    /\ opc = "start_join"
    /\ \/ wpc \in {"ended", "panicked"} /\ UNCHANGED reaper
       \/ wpc \notin {"ended", "panicked"} /\ reaper' = reaper \cup {"worker"}
    /\ Return("error")
    /\ UNCHANGED <<cancelled, channels, wpc, result, conn, owned, joined>>

\* stop, or the drop of a running server: EchoControl::cancel, then the wait.
Stop ==
    /\ opc = "running"
    /\ cancelled' = TRUE /\ opc' = "stop_wait"
    /\ UNCHANGED <<outcome, channels, wpc, result, conn, owned, joined, reaper>>

StopCompletion ==
    /\ opc = "stop_wait" /\ completion # "empty"
    /\ opc' = "stop_join"
    /\ UNCHANGED <<outcome, cancelled, channels, wpc, result, conn, owned, joined, reaper>>

StopTimeout ==
    /\ opc = "stop_wait" /\ completion = "empty"
    /\ reaper' = reaper \cup {"worker"} /\ Return("error")
    /\ UNCHANGED <<cancelled, channels, wpc, result, conn, owned, joined>>

\* join_echo_worker_until: a listener that reported in time may still be
\* leaving when the deadline expires.  Its own result counts last.
JoinWorker ==
    /\ opc = "stop_join"
    /\ \/ wpc = "ended" /\ Return(IF completion = "ok" THEN "ok" ELSE "error") /\ UNCHANGED reaper
       \/ wpc = "panicked" /\ Return("error") /\ UNCHANGED reaper
       \/ wpc \notin {"ended", "panicked"} /\ reaper' = reaper \cup {"worker"} /\ Return("error")
    /\ UNCHANGED <<cancelled, channels, wpc, result, conn, owned, joined>>

-----------------------------------------------------------------------------
(* The listener thread.                                                    *)

WorkerReady ==
    /\ wpc = "setup"
    /\ wpc' = "loop" /\ ready' = "ok"
    /\ UNCHANGED <<ownerVars, cancelled, completion, result, conn, owned, joined, reaper>>

\* The injected panics, before readiness and before completion.
WorkerPanic ==
    /\ wpc \in {"setup", "report"}
    /\ wpc' = "panicked" /\ completion' = "closed"
    /\ ready' = IF ready = "empty" THEN "closed" ELSE ready
    /\ UNCHANGED <<ownerVars, cancelled, result, conn, owned, joined, reaper>>

\* run_echo_listener: one accept, when the server is not cancelled.
Accept ==
    /\ wpc = "loop" /\ ~cancelled
    /\ \E c \in Clients :
        /\ conn[c] = "none"
        /\ \/ /\ conn' = [conn EXCEPT ![c] = "check"] /\ owned' = owned \cup {c}
              /\ UNCHANGED <<cancelled, result>>
           \/ /\ conn' = [conn EXCEPT ![c] = "refused"] /\ UNCHANGED owned
              /\ cancelled' = TRUE /\ result' = "error"
    /\ wpc' = "reap"
    /\ UNCHANGED <<ownerVars, channels, joined, reaper>>

\* Nothing to accept, or accepting failed.
AcceptNothing ==
    /\ wpc = "loop" /\ ~cancelled
    /\ wpc' = "reap"
    /\ \/ UNCHANGED <<cancelled, result>>
       \/ cancelled' = TRUE /\ result' = "error"
    /\ UNCHANGED <<ownerVars, channels, conn, owned, joined, reaper>>

\* Mutant: the error of an earlier scan is forgotten.
JoinFinishedAfresh ==
    /\ owned' = owned \ Finished /\ joined' = joined \cup Finished
    /\ result' = IF \E c \in Finished : conn[c] # "ok" THEN "error" ELSE "ok"

\* join_finished_connections: the threads that are over are joined, and their
\* results read; the first error among them is kept.
JoinFinished ==
    /\ owned' = owned \ Finished /\ joined' = joined \cup Finished
    /\ result' = IF \E c \in Finished : conn[c] # "ok" THEN "error" ELSE result

Reap ==
    /\ wpc = "reap"
    /\ JoinFinished
    /\ cancelled' = (cancelled \/ \E c \in Finished : conn[c] # "ok")
    /\ wpc' = "loop"
    /\ UNCHANGED <<ownerVars, channels, conn, reaper>>

LeaveLoop ==
    /\ wpc = "loop" /\ cancelled
    /\ wpc' = "drain"
    /\ UNCHANGED <<ownerVars, cancelled, channels, result, conn, owned, joined, reaper>>

\* drain_connection_threads, before its deadline ...
Drain ==
    /\ wpc = "drain" /\ (owned = {} \/ Finished # {})
    /\ JoinFinished
    /\ wpc' = IF owned' = {} THEN "report" ELSE "drain"
    /\ UNCHANGED <<ownerVars, cancelled, channels, conn, reaper>>

\* ... and after it: one more scan, and the rest goes to the reaper.
DrainExpired ==
    /\ wpc = "drain" /\ owned # {}
    /\ joined' = joined \cup Finished /\ owned' = {}
    /\ reaper' = reaper \cup (owned \ Finished)
    /\ result' = IF owned # Finished \/ \E c \in Finished : conn[c] # "ok" THEN "error" ELSE result
    /\ wpc' = "report"
    /\ UNCHANGED <<ownerVars, cancelled, channels, conn>>

Report ==
    /\ wpc = "report"
    /\ completion' = result /\ wpc' = "leaving"
    /\ UNCHANGED <<ownerVars, cancelled, ready, result, conn, owned, joined, reaper>>

WorkerEnds ==
    /\ wpc = "leaving"
    /\ wpc' = "ended"
    /\ UNCHANGED <<ownerVars, cancelled, channels, result, conn, owned, joined, reaper>>

-----------------------------------------------------------------------------
(* echo_connection.  A read or a write that does not end within its 100 ms *)
(* timeout ends with an error, a read's being retried.                     *)

ConnEnds(c, r) == conn' = [conn EXCEPT ![c] = r]

ConnCheck(c) ==
    /\ conn[c] = "check"
    /\ ConnEnds(c, IF cancelled THEN "ok" ELSE "read")
    /\ UNCHANGED <<ownerVars, cancelled, channels, wpc, result, owned, joined, reaper>>

\* Mutant: no read timeout, and a client that stays silent.
ConnReadForever(c) == FALSE /\ UNCHANGED vars

\* A timeout or an echoed chunk, the client's end or reset, another error.
ConnRead(c) ==
    /\ conn[c] = "read"
    /\ \E r \in {"check", "ok", "error"} : ConnEnds(c, r)
    /\ UNCHANGED <<ownerVars, cancelled, channels, wpc, result, owned, joined, reaper>>

\* The injected panic, before the first read.
ConnPanic(c) ==
    /\ conn[c] = "check"
    /\ ConnEnds(c, "panicked")
    /\ UNCHANGED <<ownerVars, cancelled, channels, wpc, result, owned, joined, reaper>>

Owner == Start \/ StartReady \/ StartTimeout \/ JoinUnready \/ StopCompletion \/ StopTimeout
         \/ JoinWorker
Listener == WorkerReady \/ WorkerPanic \/ Accept \/ AcceptNothing \/ Reap \/ LeaveLoop \/ Drain
            \/ DrainExpired \/ Report \/ WorkerEnds
Connection(c) == ConnCheck(c) \/ ConnRead(c) \/ ConnPanic(c)

Next == Owner \/ Stop \/ Listener \/ \E c \in Clients : Connection(c)

\* The owner need never stop the server; what has been started goes on.
Fairness == WF_vars(Owner) /\ WF_vars(Listener) /\ \A c \in Clients : WF_vars(Connection(c))
Spec == Init /\ [][Next]_vars /\ Fairness

-----------------------------------------------------------------------------
\* A stop that returns Ok leaves nothing behind: the listener has ended, every
\* accepted connection was joined, and none of them failed.
StopOkMeansEnded ==
    outcome = "ok" =>
        /\ wpc = "ended" /\ reaper = {} /\ Active = {}
        /\ \A c \in Clients : conn[c] \in {"none", "ok"}
        /\ \A c \in Clients : conn[c] = "ok" => c \in joined

\* A running connection thread is always owned: by the listener, whose own
\* thread is owned by the server or the reaper, or by the reaper directly.
NoThreadForgotten ==
    /\ Active \subseteq owned \cup reaper
    /\ opc = "done" /\ wpc \notin {"none", "ended", "panicked"} => "worker" \in reaper

\* A stop ends, and with it, sooner or later, every thread.
StopEndsAll ==
    opc = "stop_wait" ~> (opc = "done" /\ Active = {} /\ wpc \in {"ended", "panicked"})

-----------------------------------------------------------------------------
(* What makes the first two inductive.                                     *)

\* Every accepted connection is with the listener, joined or with the reaper,
\* and what was joined is over.
ThreadsPlaced ==
    /\ \A c \in Clients : conn[c] \notin {"none", "refused"} => c \in owned \cup joined \cup reaper
    /\ \A c \in joined : conn[c] \in Over
    /\ wpc \in {"none", "setup", "report", "leaving", "ended", "panicked"} => owned = {}

\* As long as the listener's result is a success nobody was refused, what was
\* joined had succeeded, and the reaper has nothing but what the owner gave up.
ResultHonest ==
    /\ result = "ok" => /\ \A c \in Clients : conn[c] # "refused"
                        /\ \A c \in joined : conn[c] = "ok"
    /\ reaper # {} => (opc = "done" /\ outcome = "error") \/ result = "error"

\* The owner learns that result, and only from a listener on its way out.
OwnerHonest ==
    /\ opc = "new" => wpc = "none"
    /\ completion = "ok" => wpc \in {"leaving", "ended"} /\ result = "ok"
    /\ outcome = "ok" => opc = "done" /\ wpc = "ended" /\ completion = "ok"
    /\ outcome # "none" => opc = "done"

EchoInv == TypeOK /\ ThreadsPlaced /\ ResultHonest /\ OwnerHonest /\ NoThreadForgotten
=============================================================================
