--------------------------- MODULE FixtureServer ---------------------------
(***************************************************************************)
(* The life of the hermetic SSH server of the test support crate: the      *)
(* owner's start, stop and drop; the worker thread with its accept loop;   *)
(* one run_session task per connection, with the russh session it starts;  *)
(* the child tasks those sessions spawn through their ChildTaskTracker;    *)
(* and the process reaper that is left what did not end in time.           *)
(*                                                                         *)
(* Clients come and go, tasks run as long as they like, even after they    *)
(* are aborted, and every deadline may expire whenever it is waited for.   *)
(***************************************************************************)
EXTENDS Naturals, FiniteSets

CONSTANTS
    Sessions,       \* connections that may be accepted
    Kids,           \* child tasks that may be spawned
    Panics          \* may the worker panic?

ASSUME PanicsAssumption == Panics \in BOOLEAN
\* What is deferred may be a session, the worker's thread or the agent's.
ASSUME SessionsAssumption == {"worker", "agent"} \cap Sessions = {}

VARIABLES
    opc,            \* where the owner is
    primary,        \* result of stop_ssh_worker
    outcome,        \* what start, stop or drop ended with
    request,        \* the watch channel: has a shutdown been asked for?
    ready,          \* the ready channel
    completion,     \* the completion channel
    wpc,            \* where the worker is
    sessionError,   \* first error of a joined session
    joinSet,        \* sessions the accept loop has still to join
    sess,           \* where each run_session task is
    handler,        \* the russh session and its handler: none, alive, dead
    sres,           \* results so far of the session's teardown
    closed,         \* ChildTaskState::closed
    task,           \* each child task: none, running, aborted, done
    kidOf,          \* the session that spawned it
    keeper,         \* who keeps its join handle
    deferred,       \* threads and sessions left to the process reaper
    agent           \* the agent's worker: up, stopping, down

ownerVars == <<opc, primary, outcome>>
channels == <<request, ready, completion>>
workerVars == <<wpc, sessionError, joinSet>>
sessVars == <<sess, handler, sres>>
kidVars == <<closed, task, kidOf, keeper>>
vars == <<ownerVars, channels, workerVars, sessVars, kidVars, deferred, agent>>

Nobody == "nobody"
Over == {"ended", "aborted"}
Alive(k) == task[k] \in {"running", "aborted"}
KidsAt(s, place) == {k \in Kids : kidOf[k] = s /\ keeper[k] = place}

Init ==
    /\ opc = "starting" /\ primary = "none" /\ outcome = "none"
    /\ request = FALSE /\ ready = "empty" /\ completion = "empty"
    /\ wpc = "setup" /\ sessionError = FALSE /\ joinSet = {}
    /\ sess = [s \in Sessions |-> "none"] /\ handler = [s \in Sessions |-> "none"]
    /\ sres = [s \in Sessions |-> "ok"]
    /\ closed = [s \in Sessions |-> FALSE]
    /\ task = [k \in Kids |-> "none"] /\ kidOf = [k \in Kids |-> Nobody]
    /\ keeper = [k \in Kids |-> "nobody"]
    /\ deferred = {} /\ agent = "up"

-----------------------------------------------------------------------------
(* The owner.                                                              *)

Finish(o) == opc' = "done" /\ outcome' = o

\* start_configured, from the worker's spawn on.
StartReady ==
    /\ opc = "starting"
    /\ \/ ready = "ok" /\ opc' = "running" /\ UNCHANGED <<outcome, agent>>
       \/ ready \in {"error", "closed"} /\ opc' = "start_join" /\ UNCHANGED <<outcome, agent>>
    /\ UNCHANGED <<primary, channels, workerVars, sessVars, kidVars, deferred>>

\* The server is not ready in time: it is told to stop, and left to the reaper.
StartTimeout ==
    /\ opc = "starting" /\ ready = "empty"
    /\ request' = TRUE /\ deferred' = deferred \cup {"worker"}
    /\ primary' = "error" /\ opc' = "agent" /\ agent' = "stopping"
    /\ UNCHANGED <<outcome, ready, completion, workerVars, sessVars, kidVars>>

\* join_thread_until, of a worker that has failed to start or to stop.
JoinWorker ==
    /\ opc \in {"start_join", "stop_join"}
    /\ \/ /\ wpc \in {"ended", "panicked"} /\ UNCHANGED deferred
          /\ primary' = IF opc = "stop_join" /\ wpc = "ended" /\ completion = "ok" THEN "ok"
                        ELSE "error"
       \/ /\ wpc \notin {"ended", "panicked"}
          /\ deferred' = deferred \cup {"worker"} /\ primary' = "error"
    /\ opc' = "agent" /\ agent' = IF agent = "up" THEN "stopping" ELSE agent
    /\ UNCHANGED <<outcome, channels, workerVars, sessVars, kidVars>>

\* stop, or the drop of a running server.
Stop ==
    /\ opc = "running"
    /\ request' = TRUE /\ opc' = "await_completion"
    /\ UNCHANGED <<primary, outcome, ready, completion, workerVars, sessVars, kidVars,
                   deferred, agent>>

StopCompletion ==
    /\ opc = "await_completion" /\ completion # "empty"
    /\ opc' = "stop_join"
    /\ UNCHANGED <<primary, outcome, channels, workerVars, sessVars, kidVars, deferred, agent>>

\* Mutant: the completion is waited for without a deadline.
StopPatiently == FALSE /\ UNCHANGED vars

StopTimeout ==
    /\ opc = "await_completion" /\ completion = "empty"
    /\ deferred' = deferred \cup {"worker"} /\ primary' = "error"
    /\ opc' = "agent" /\ agent' = "stopping"
    /\ UNCHANGED <<outcome, channels, workerVars, sessVars, kidVars>>

\* Agent teardown, whose error only counts when there is none before it.
AgentDown ==
    /\ agent = "stopping"
    /\ agent' = "down"
    /\ UNCHANGED <<ownerVars, channels, workerVars, sessVars, kidVars, deferred>>

StopAgent ==
    /\ opc = "agent"
    /\ \/ agent = "down" /\ \E r \in {"ok", "error"} :
             Finish(IF primary = "error" THEN primary ELSE r)
          /\ UNCHANGED deferred
       \/ agent = "stopping" /\ Finish("error") /\ deferred' = deferred \cup {"agent"}
    /\ UNCHANGED <<primary, channels, workerVars, sessVars, kidVars, agent>>

-----------------------------------------------------------------------------
(* The worker.                                                             *)

WorkerSetup ==
    /\ wpc = "setup"
    /\ \/ ready' = "ok" /\ wpc' = "accept" /\ UNCHANGED completion
       \/ ready' = "error" /\ wpc' = "send" /\ UNCHANGED completion
    /\ UNCHANGED <<ownerVars, request, sessionError, joinSet, sessVars, kidVars, deferred, agent>>

\* A panic drops the worker's ends of both channels.
WorkerPanics ==
    /\ Panics /\ wpc \in {"setup", "send"}
    /\ wpc' = "panicked"
    /\ ready' = IF ready = "empty" THEN "closed" ELSE ready
    /\ completion' = "closed"
    /\ UNCHANGED <<ownerVars, request, sessionError, joinSet, sessVars, kidVars, deferred, agent>>

\* The accept loop looks for a shutdown before it accepts or joins.
Accept(s) ==
    /\ wpc = "accept" /\ ~request /\ sess[s] = "none"
    /\ sess' = [sess EXCEPT ![s] = "startup"] /\ joinSet' = joinSet \cup {s}
    /\ UNCHANGED <<ownerVars, channels, wpc, sessionError, handler, sres, kidVars, deferred, agent>>

AcceptFails ==
    /\ wpc = "accept" /\ ~request
    /\ wpc' = "runtime" /\ sessionError' = TRUE
    /\ sess' = [s \in Sessions |-> IF s \in joinSet /\ sess[s] # "ended" THEN "aborting" ELSE sess[s]]
    /\ joinSet' = {}
    /\ UNCHANGED <<ownerVars, channels, handler, sres, kidVars, deferred, agent>>

JoinSession(s) ==
    /\ wpc \in {"accept", "drain", "abort"} /\ s \in joinSet /\ sess[s] \in Over
    /\ wpc = "accept" => ~request
    /\ joinSet' = joinSet \ {s}
    /\ sessionError' = (sessionError \/ sess[s] = "aborted" \/ sres[s] = "error")
    /\ UNCHANGED <<ownerVars, channels, wpc, sessVars, kidVars, deferred, agent>>

ShutdownRequested ==
    /\ wpc = "accept" /\ request
    /\ wpc' = "drain"
    /\ UNCHANGED <<ownerVars, channels, sessionError, joinSet, sessVars, kidVars, deferred, agent>>

Drained ==
    /\ wpc \in {"drain", "abort"} /\ joinSet = {}
    /\ wpc' = "runtime" /\ sessionError' = (sessionError \/ wpc = "abort")
    /\ UNCHANGED <<ownerVars, channels, joinSet, sessVars, kidVars, deferred, agent>>

\* The deadline: abort_all, and a second, shorter wait.
AbortAll ==
    /\ wpc = "drain" /\ joinSet # {}
    /\ wpc' = "abort"
    /\ sess' = [s \in Sessions |-> IF s \in joinSet /\ sess[s] # "ended" THEN "aborting" ELSE sess[s]]
    /\ UNCHANGED <<ownerVars, channels, sessionError, joinSet, handler, sres, kidVars,
                   deferred, agent>>

FallbackDeadline ==
    /\ wpc = "abort" /\ joinSet # {}
    /\ wpc' = "runtime" /\ sessionError' = TRUE
    /\ joinSet' = {} /\ deferred' = deferred \cup joinSet
    /\ UNCHANGED <<ownerVars, channels, sessVars, kidVars, agent>>

\* shutdown_timeout: the runtime drops what its threads can still drop.
RuntimeShutdown ==
    /\ wpc = "runtime"
    /\ \E stuck \in SUBSET {k \in Kids : Alive(k)} :
        task' = [k \in Kids |-> IF Alive(k) /\ k \notin stuck THEN "done" ELSE task[k]]
    /\ handler' = [s \in Sessions |-> IF handler[s] = "alive" THEN "dead" ELSE handler[s]]
    /\ sess' = [s \in Sessions |-> IF sess[s] \in {"none"} \cup Over THEN sess[s] ELSE "aborted"]
    /\ keeper' = [k \in Kids |-> IF keeper[k] \in {"tracker", "drain"} THEN "reaper" ELSE keeper[k]]
    /\ wpc' = "send"
    /\ UNCHANGED <<ownerVars, channels, sessionError, joinSet, sres, closed, kidOf, deferred, agent>>

SendCompletion ==
    /\ wpc = "send"
    /\ completion' = IF sessionError THEN "error" ELSE "ok"
    /\ wpc' = "exit"
    /\ UNCHANGED <<ownerVars, request, ready, sessionError, joinSet, sessVars, kidVars,
                   deferred, agent>>

\* The thread ends some time after its report.
WorkerEnds ==
    /\ wpc = "exit" /\ wpc' = "ended"
    /\ UNCHANGED <<ownerVars, channels, sessionError, joinSet, sessVars, kidVars, deferred, agent>>

-----------------------------------------------------------------------------
(* run_session.                                                            *)

Spoil(s, fine) == sres' = IF fine THEN sres ELSE [sres EXCEPT ![s] = "error"]
Running == wpc \notin {"send", "exit", "ended", "panicked"}

\* run_stream starts the russh session, or fails.
SessionStarts(s) ==
    /\ sess[s] = "startup" /\ ~request
    /\ \/ handler' = [handler EXCEPT ![s] = "alive"] /\ sess' = [sess EXCEPT ![s] = "serving"]
       \/ sess' = [sess EXCEPT ![s] = "close"] /\ UNCHANGED handler
    /\ UNCHANGED <<ownerVars, channels, workerVars, sres, kidVars, deferred, agent>>

\* A shutdown, which is looked for first: nothing to disconnect during startup,
\* a bounded disconnect afterwards.
SessionStops(s) ==
    /\ request
    /\ \/ sess[s] = "startup" /\ sess' = [sess EXCEPT ![s] = "close"] /\ UNCHANGED sres
       \/ /\ sess[s] = "serving" /\ sess' = [sess EXCEPT ![s] = "close"]
          /\ \E disconnected \in BOOLEAN : Spoil(s, disconnected)
    /\ UNCHANGED <<ownerVars, channels, workerVars, handler, kidVars, deferred, agent>>

\* The russh session ends: its client left, or it was disconnected.
HandlerEnds(s) ==
    /\ handler[s] = "alive"
    /\ handler' = [handler EXCEPT ![s] = "dead"]
    /\ UNCHANGED <<ownerVars, channels, workerVars, sess, sres, kidVars, deferred, agent>>

SessionCompletes(s) ==
    /\ sess[s] = "serving" /\ ~request /\ handler[s] = "dead"
    /\ sess' = [sess EXCEPT ![s] = "close"]
    /\ UNCHANGED <<ownerVars, channels, workerVars, handler, sres, kidVars, deferred, agent>>

\* Mutant: the tracker goes on admitting tasks.
SpawnUnchecked(s, k) ==
    /\ handler[s] = "alive" /\ task[k] = "none"
    /\ task' = [task EXCEPT ![k] = "running"] /\ kidOf' = [kidOf EXCEPT ![k] = s]
    /\ keeper' = [keeper EXCEPT ![k] = "tracker"]
    /\ UNCHANGED <<ownerVars, channels, workerVars, sessVars, closed, deferred, agent>>

\* ChildTaskTracker::spawn, from the handler: refused once the tracker is closed.
Spawn(s, k) ==
    /\ handler[s] = "alive" /\ task[k] = "none" /\ ~closed[s]
    /\ task' = [task EXCEPT ![k] = "running"] /\ kidOf' = [kidOf EXCEPT ![k] = s]
    /\ keeper' = [keeper EXCEPT ![k] = "tracker"]
    /\ UNCHANGED <<ownerVars, channels, workerVars, sessVars, closed, deferred, agent>>

KidEnds(k) ==
    /\ Alive(k)
    /\ task' = [task EXCEPT ![k] = "done"]
    /\ UNCHANGED <<ownerVars, channels, workerVars, sessVars, closed, kidOf, keeper, deferred, agent>>

\* ChildTaskTracker::shutdown: close, and take the tasks.
CloseTracker(s) ==
    /\ sess[s] = "close"
    /\ closed' = [closed EXCEPT ![s] = TRUE]
    /\ keeper' = [k \in Kids |-> IF k \in KidsAt(s, "tracker") THEN "drain" ELSE keeper[k]]
    /\ sess' = [sess EXCEPT ![s] = "drain"]
    /\ UNCHANGED <<ownerVars, channels, workerVars, handler, sres, task, kidOf, deferred, agent>>

\* drain_owned_tasks, before and after the abort.
JoinKid(k) ==
    /\ task[k] = "done" /\ keeper[k] = "drain" /\ sess[kidOf[k]] \in {"drain", "drain_aborted"}
    /\ keeper' = [keeper EXCEPT ![k] = "nobody"]
    /\ UNCHANGED <<ownerVars, channels, workerVars, sessVars, closed, task, kidOf, deferred, agent>>

AbortKids(s) ==
    /\ sess[s] = "drain" /\ KidsAt(s, "drain") # {}
    /\ task' = [k \in Kids |-> IF k \in KidsAt(s, "drain") /\ Alive(k) THEN "aborted" ELSE task[k]]
    /\ sess' = [sess EXCEPT ![s] = "drain_aborted"]
    /\ UNCHANGED <<ownerVars, channels, workerVars, handler, sres, closed, kidOf, keeper,
                   deferred, agent>>

\* Mutant: tasks that outlive the deadline are only given up.
DrainForgotten(s) ==
    /\ sess[s] = "drain_aborted" /\ KidsAt(s, "drain") # {}
    /\ keeper' = [k \in Kids |-> IF k \in KidsAt(s, "drain") THEN "nobody" ELSE keeper[k]]
    /\ Spoil(s, FALSE)
    /\ UNCHANGED <<ownerVars, channels, workerVars, sess, handler, closed, task, kidOf,
                   deferred, agent>>

\* The deadline of the drain: the rest is deferred, and the session has failed.
DrainDeadline(s) ==
    /\ sess[s] = "drain_aborted" /\ KidsAt(s, "drain") # {}
    /\ keeper' = [k \in Kids |-> IF k \in KidsAt(s, "drain") THEN "reaper" ELSE keeper[k]]
    /\ Spoil(s, FALSE)
    /\ UNCHANGED <<ownerVars, channels, workerVars, sess, handler, closed, task, kidOf,
                   deferred, agent>>

\* The children are drained or deferred; the russh session is over, or its
\* deadline is and it is left to the reaper (ReapOnDrop).
SessionEnds(s) ==
    /\ sess[s] \in {"drain", "drain_aborted"} /\ KidsAt(s, "drain") = {}
    /\ Spoil(s, handler[s] # "alive")
    /\ deferred' = IF handler[s] = "alive" THEN deferred \cup {s} ELSE deferred
    /\ sess' = [sess EXCEPT ![s] = "ended"]
    /\ UNCHANGED <<ownerVars, channels, workerVars, handler, kidVars, agent>>

\* An aborted run_session is dropped: what it was draining goes to the reaper,
\* and so does the russh session.
SessionDropped(s) ==
    /\ sess[s] = "aborting"
    /\ sess' = [sess EXCEPT ![s] = "aborted"]
    /\ keeper' = [k \in Kids |-> IF k \in KidsAt(s, "drain") THEN "reaper" ELSE keeper[k]]
    /\ deferred' = IF handler[s] = "alive" THEN deferred \cup {s} ELSE deferred
    /\ UNCHANGED <<ownerVars, channels, workerVars, handler, sres, closed, task, kidOf, agent>>

\* The last reference to the tracker goes with the handler.
TrackerDropped(s) ==
    /\ sess[s] \in Over /\ handler[s] = "dead" /\ KidsAt(s, "tracker") # {}
    /\ keeper' = [k \in Kids |-> IF k \in KidsAt(s, "tracker") THEN "reaper" ELSE keeper[k]]
    /\ UNCHANGED <<ownerVars, channels, workerVars, sessVars, closed, task, kidOf, deferred, agent>>

\* The process reaper joins what it was left.
ReapKid(k) ==
    /\ keeper[k] = "reaper" /\ task[k] = "done"
    /\ keeper' = [keeper EXCEPT ![k] = "nobody"]
    /\ UNCHANGED <<ownerVars, channels, workerVars, sessVars, closed, task, kidOf, deferred, agent>>

-----------------------------------------------------------------------------
SessionStep(s) == \/ SessionStarts(s) \/ SessionStops(s) \/ SessionCompletes(s)
                  \/ CloseTracker(s) \/ AbortKids(s) \/ DrainDeadline(s) \/ SessionEnds(s)
                  \/ SessionDropped(s) \/ TrackerDropped(s)

WorkerStep == \/ WorkerSetup \/ ShutdownRequested \/ Drained \/ AbortAll
              \/ FallbackDeadline \/ RuntimeShutdown \/ SendCompletion \/ WorkerEnds
              \/ \E s \in Sessions : JoinSession(s)

OwnerStep == \/ StartReady \/ StartTimeout \/ JoinWorker \/ StopCompletion \/ StopTimeout
             \/ StopAgent

Next == \/ OwnerStep \/ Stop \/ AgentDown \/ WorkerStep \/ WorkerPanics \/ AcceptFails
        \/ \E s \in Sessions : \/ Accept(s) \/ HandlerEnds(s)
                               \/ (Running /\ SessionStep(s))
                               \/ \E k \in Kids : Running /\ Spawn(s, k)
        \/ \E k \in Kids : KidEnds(k) \/ JoinKid(k) \/ ReapKid(k)

Spec == Init /\ [][Next]_vars

\* The owner's thread is scheduled and its deadlines expire; nothing is assumed
\* of the worker, the sessions, their tasks or the agent.
FairSpec == Spec /\ WF_vars(OwnerStep)

-----------------------------------------------------------------------------
(* Properties.                                                             *)

\* The type of every variable.
TypeOK ==
    /\ opc \in {"starting", "start_join", "running", "await_completion", "stop_join",
                "agent", "done"}
    /\ primary \in {"none", "ok", "error"} /\ outcome \in {"none", "ok", "error"}
    /\ request \in BOOLEAN
    /\ ready \in {"empty", "ok", "error", "closed"}
    /\ completion \in {"empty", "ok", "error", "closed"}
    /\ wpc \in {"setup", "accept", "drain", "abort", "runtime", "send", "exit",
             "ended", "panicked"}
    /\ sessionError \in BOOLEAN /\ joinSet \subseteq Sessions
    /\ sess \in [Sessions -> {"none", "startup", "serving", "close", "drain",
                              "drain_aborted", "aborting"} \cup Over]
    /\ handler \in [Sessions -> {"none", "alive", "dead"}]
    /\ sres \in [Sessions -> {"ok", "error"}] /\ closed \in [Sessions -> BOOLEAN]
    /\ task \in [Kids -> {"none", "running", "aborted", "done"}]
    /\ kidOf \in [Kids -> Sessions \cup {Nobody}]
    /\ keeper \in [Kids -> {"nobody", "tracker", "drain", "reaper"}]
    /\ deferred \subseteq Sessions \cup {"worker", "agent"}
    /\ agent \in {"up", "stopping", "down"}

\* "Cancels all listeners and sessions and joins the worker within deadline": a
\* stop that succeeds leaves nothing behind, neither child task nor session nor
\* worker nor agent, and has left nothing to the reaper.
StopOkMeansDrained ==
    outcome = "ok" =>
        /\ \A k \in Kids : ~Alive(k)
        /\ \A s \in Sessions : sess[s] \in {"none", "ended"} /\ handler[s] # "alive"
        /\ wpc = "ended" /\ agent = "down" /\ deferred = {}

\* A child task that has not been joined is kept by its tracker, by the drain
\* of its session or by the reaper: none is forgotten on any path of teardown.
NoTaskForgotten == \A k \in Kids : Alive(k) => keeper[k] # "nobody"

\* start, stop and the drop return although the worker, its sessions and the
\* agent never answer.
StopReturns == (opc \notin {"running", "done"}) ~> (opc \in {"running", "done"})

-----------------------------------------------------------------------------
(* What the proofs add to make StopOkMeansDrained inductive.               *)

\* How far a session's teardown is, in its handler and its tracker.
SessionsPlaced ==
    \A s \in Sessions :
        /\ sess[s] \in {"none", "startup"} => handler[s] = "none"
        /\ sess[s] \in {"drain", "drain_aborted", "ended"} => closed[s]
        /\ sess[s] = "ended" /\ sres[s] = "ok" => handler[s] # "alive"

\* A child that still runs is in its session's tracker, then in its drain,
\* unless the session has failed.
ChildrenKept ==
    \A k \in Kids, s \in Sessions : Alive(k) /\ kidOf[k] = s =>
        /\ sess[s] # "none"
        /\ sess[s] \in {"startup", "serving", "close"} => keeper[k] = "tracker"
        /\ sess[s] \in {"drain", "drain_aborted"} => keeper[k] = "drain" \/ sres[s] = "error"
        /\ sess[s] = "ended" => sres[s] = "error"

\* Every running child has a session.
ChildrenOwned == \A k \in Kids : Alive(k) => kidOf[k] \in Sessions

\* As long as no error is recorded, a session is still to be joined, or has
\* ended well; what was deferred is not among the latter.
JoinsPending ==
    /\ wpc \in {"setup", "runtime", "send", "exit", "ended", "panicked"} => joinSet = {}
    /\ ~sessionError => \A s \in Sessions :
           /\ sess[s] # "none" => s \in joinSet \/ (sess[s] = "ended" /\ sres[s] = "ok")
           /\ s \in deferred => \/ sess[s] \in {"aborting", "aborted"}
                                \/ sess[s] = "ended" /\ sres[s] = "error"

\* The worker reports success only without an error, and does nothing after it
\* but end.
CompletionTruthful ==
    /\ completion # "empty" => wpc \in {"exit", "ended", "panicked"}
    /\ completion = "ok" => wpc \in {"exit", "ended"} /\ ~sessionError

\* What the owner has seen when it claims success.
OwnerTruthful ==
    /\ opc \notin {"agent", "done"} => primary = "none"
    /\ opc \in {"agent", "done"} => primary # "none"
    /\ opc # "done" => outcome = "none"
    /\ primary = "ok" => completion = "ok" /\ wpc = "ended"
    /\ outcome = "ok" => primary = "ok" /\ agent = "down"
    /\ "worker" \in deferred => primary = "error"
    /\ "agent" \in deferred => outcome = "error"

ServerInv == /\ NoTaskForgotten /\ SessionsPlaced /\ ChildrenKept /\ ChildrenOwned
             /\ JoinsPending /\ CompletionTruthful /\ OwnerTruthful
=============================================================================
