--------------------------- MODULE RemoteForward ---------------------------
(***************************************************************************)
(* Remote TCP forwarding of rssh-ssh: open_remote_tcpip_forward_with_      *)
(* lifecycle, the forwarded-channel tasks started by the client handler,   *)
(* and the calls of RusshRemoteTcpIpForward (wait, shutdown,               *)
(* wait_until_cancelled, drop).                                            *)
(*                                                                         *)
(* The owner makes one call at a time.  The russh session task, one task   *)
(* per forwarded channel and whoever holds a clone of the cancellation run *)
(* beside it on a multi-threaded runtime.  They meet in three places: the  *)
(* cancellation flag with its Notify, the counter of live tasks with its   *)
(* Notify, and the port the server has bound.                              *)
(***************************************************************************)
EXTENDS Naturals, FiniteSets

CONSTANTS
    Channels,       \* forwarded channels the server may open
    BindHost,       \* bind_host of the plan
    Hosts,          \* addresses the server reports as connected
    RequestedPort,  \* bind_port of the plan; 0 asks the server to choose
    ServerPorts,    \* ports the server may answer to the forward request
    ClaimedPorts,   \* ports (u32) the server reports as connected
    MaxCalls        \* bound: calls the owner makes before the drop

\* u16::MAX
MaxU16 == 65535

ASSUME ChannelsAssumption == IsFiniteSet(Channels) /\ "owner" \notin Channels
ASSUME PortsAssumption ==
    /\ RequestedPort \in 0..MaxU16
    /\ ServerPorts \subseteq Nat /\ ClaimedPorts \subseteq Nat
ASSUME CallsAssumption == MaxCalls \in Nat

\* The forward's own cancellation, and another one that the caller of
\* wait_until_cancelled may pass instead.
Tokens  == {"forward", "caller"}
Waiters == Channels \cup {"owner"}

VARIABLES
    pc,             \* where the owner is
    flow,           \* what its cancel() is part of: "drain" or "shutdown"
    dropping,       \* is it in Drop?
    calls,          \* calls made
    chain,          \* the results of the current call so far, joined by and()
    last,           \* what the last call returned
    terminal,       \* did the last call drain every task?
    handle,         \* the Option around the russh session handle
    joined,         \* has the session's join been polled to completion?
    watched,        \* the cancellation wait_until_cancelled looks at
    session,        \* the russh session task, or how it ended
    resolvedPort,   \* resolved_bind_port: 0 while the server chooses
    bindPort,       \* the port a successful opening reports
    cancelled,      \* the cancellation flags
    canceller,      \* where a concurrent cancel() of each flag is
    wpc,            \* cancelled(): where each waiter is in its loop
    ticket,         \* its Notified future
    task,           \* the forwarded-channel tasks
    endpoint,       \* the endpoint each channel was accepted for
    active,         \* RemoteForwardTaskTracker
    drainTicket     \* the Notified future of wait_for_empty

callVars   == <<flow, dropping, calls, chain, last, terminal, watched>>
handleVars == <<handle, joined>>
portVars   == <<resolvedPort, bindPort>>
waitVars   == <<wpc, ticket>>
taskVars   == <<task, endpoint, active>>
vars == <<pc, callVars, handleVars, session, portVars, cancelled, canceller,
          waitVars, taskVars, drainTicket>>

Ends       == {"ok", "disconnect", "error"}
Starting   == {"connect", "authenticate", "request"}
DrainSteps == {"drain_check", "drain_create", "drain_recheck", "drain_await"}
NoEndpoint == [host |-> "", port |-> 0]

Init ==
    /\ pc = "connect" /\ flow = "drain" /\ dropping = FALSE /\ calls = 0
    /\ chain = "ok" /\ last = "none" /\ terminal = FALSE
    /\ watched = "forward"
    /\ handle = "none" /\ joined = FALSE
    /\ session = "none"
    /\ resolvedPort = RequestedPort /\ bindPort = 0
    /\ cancelled = [t \in Tokens |-> FALSE]
    /\ canceller = [t \in Tokens |-> "idle"]
    /\ wpc = [w \in Waiters |-> IF w = "owner" THEN "check" ELSE "off"]
    /\ ticket = [w \in Waiters |-> "none"]
    /\ task = [c \in Channels |-> "none"]
    /\ endpoint = [c \in Channels |-> NoEndpoint]
    /\ active = 0 /\ drainTicket = "none"

-----------------------------------------------------------------------------
(* Cancellation: a flag and a Notify.  notify_waiters wakes the Notified    *)
(* futures that exist when it is called and leaves no permit behind.       *)

Watches(w) == IF w = "owner" THEN watched ELSE "forward"

Wake(t) == ticket' = [w \in Waiters |->
                IF ticket[w] = "waiting" /\ Watches(w) = t THEN "notified"
                                                           ELSE ticket[w]]

\* cancel() by another holder of the token: the store, then the notification.
CancelStore(t) ==
    /\ canceller[t] = "idle"
    /\ cancelled' = [cancelled EXCEPT ![t] = TRUE]
    /\ canceller' = [canceller EXCEPT ![t] = "stored"]
    /\ UNCHANGED <<pc, callVars, handleVars, session, portVars, waitVars,
                   taskVars, drainTicket>>

CancelNotify(t) ==
    /\ canceller[t] = "stored"
    /\ Wake(t)
    /\ canceller' = [canceller EXCEPT ![t] = "done"]
    /\ UNCHANGED <<pc, callVars, handleVars, session, portVars, cancelled,
                   wpc, taskVars, drainTicket>>

\* Where the code goes when the cancelled() branch of a select is taken: a
\* task shuts its channel down, the opening fails, wait_until_cancelled calls
\* shutdown.
Interrupted(w) ==
    IF w = "owner"
    THEN /\ pc' = IF pc = "watch" THEN "store" ELSE "teardown"
         /\ flow' = "shutdown"
         /\ UNCHANGED task
    ELSE /\ task' = [task EXCEPT ![w] = "shutdown"]
         /\ UNCHANGED <<pc, flow>>

\* cancelled(): look at the flag ...
LookAtFlag(w) ==
    /\ wpc[w] = "check"
    /\ IF cancelled[Watches(w)]
       THEN wpc' = [wpc EXCEPT ![w] = "off"] /\ Interrupted(w)
       ELSE wpc' = [wpc EXCEPT ![w] = "create"] /\ UNCHANGED <<pc, flow, task>>
    /\ UNCHANGED <<dropping, calls, chain, last, terminal, watched, handleVars,
                   session, portVars, cancelled, canceller, ticket, endpoint,
                   active, drainTicket>>

\* Mutant: the flag is not looked at again once the Notified exists.
CreateThenAwait(w) ==
    /\ wpc[w] = "create"
    /\ ticket' = [ticket EXCEPT ![w] = "waiting"]
    /\ wpc' = [wpc EXCEPT ![w] = "await"]
    /\ UNCHANGED <<pc, callVars, handleVars, session, portVars, cancelled,
                   canceller, taskVars, drainTicket>>

\* ... create the Notified ...
CreateNotified(w) ==
    /\ wpc[w] = "create"
    /\ ticket' = [ticket EXCEPT ![w] = "waiting"]
    /\ wpc' = [wpc EXCEPT ![w] = "recheck"]
    /\ UNCHANGED <<pc, callVars, handleVars, session, portVars, cancelled,
                   canceller, taskVars, drainTicket>>

\* ... look at the flag again, and wait.
LookAgain(w) ==
    /\ wpc[w] = "recheck"
    /\ IF cancelled[Watches(w)]
       THEN /\ wpc' = [wpc EXCEPT ![w] = "off"]
            /\ ticket' = [ticket EXCEPT ![w] = "none"]
            /\ Interrupted(w)
       ELSE /\ wpc' = [wpc EXCEPT ![w] = "await"]
            /\ UNCHANGED <<ticket, pc, flow, task>>
    /\ UNCHANGED <<dropping, calls, chain, last, terminal, watched, handleVars,
                   session, portVars, cancelled, canceller, endpoint, active,
                   drainTicket>>

Notified(w) ==
    /\ wpc[w] = "await" /\ ticket[w] = "notified"
    /\ wpc' = [wpc EXCEPT ![w] = "check"]
    /\ ticket' = [ticket EXCEPT ![w] = "none"]
    /\ UNCHANGED <<pc, callVars, handleVars, session, portVars, cancelled,
                   canceller, taskVars, drainTicket>>

WaiterStep(w) == LookAtFlag(w) \/ CreateNotified(w) \/ LookAgain(w) \/ Notified(w)

\* The selects are biased: the other branch is polled only when cancelled() is
\* pending, and taking it drops the cancelled() future.
OtherBranch(w) == wpc[w] = "await"
StopWaiting(w) ==
    /\ wpc' = [wpc EXCEPT ![w] = "off"]
    /\ ticket' = [ticket EXCEPT ![w] = "none"]

-----------------------------------------------------------------------------
(* The session task and its handler.                                       *)

\* The transport ends: by the server, by the network, or after a disconnect.
SessionEnds ==
    /\ session = "up"
    /\ session' \in Ends
    /\ UNCHANGED <<pc, callVars, handleVars, portVars, cancelled, canceller,
                   waitVars, taskVars, drainTicket>>

\* u16::try_from(port).unwrap_or_default()
ToU16(port) == IF port <= MaxU16 THEN port ELSE 0

\* Mutant: a pending port is compared like any other.
MatchesPendingPort(host, port) ==
    /\ resolvedPort = ToU16(port)
    /\ BindHost \in {host, "0.0.0.0", "::"}

MatchesConnectedEndpoint(host, port) ==
    /\ resolvedPort # 0
    /\ resolvedPort = ToU16(port)
    /\ BindHost \in {host, "0.0.0.0", "::"}

\* Mutant: the task is not counted.
Unregistered == UNCHANGED active

Register == active' = active + 1

\* server_channel_open_forwarded_tcpip: a channel for another endpoint is
\* closed; one for ours gets a guard and then its task.
OpenForwarded(c) ==
    /\ session = "up" /\ task[c] = "none"
    /\ \E host \in Hosts, port \in ClaimedPorts :
        \/ /\ ~MatchesConnectedEndpoint(host, port)
           /\ task' = [task EXCEPT ![c] = "closed"]
           /\ UNCHANGED <<wpc, endpoint, active>>
        \/ /\ MatchesConnectedEndpoint(host, port)
           /\ Register
           /\ task' = [task EXCEPT ![c] = "startup"]
           /\ wpc' = [wpc EXCEPT ![c] = "check"]
           /\ endpoint' = [endpoint EXCEPT ![c] = [host |-> host, port |-> port]]
    /\ UNCHANGED <<pc, callVars, handleVars, session, portVars, cancelled,
                   canceller, ticket, drainTicket>>

-----------------------------------------------------------------------------
(* A forwarded-channel task.                                               *)

\* run_forward_startup: the local target answers ...
TargetConnected(c) ==
    /\ task[c] = "startup" /\ OtherBranch(c)
    /\ task' = [task EXCEPT ![c] = "copy"]
    /\ wpc' = [wpc EXCEPT ![c] = "check"]
    /\ ticket' = [ticket EXCEPT ![c] = "none"]
    /\ UNCHANGED <<pc, callVars, handleVars, session, portVars, cancelled,
                   canceller, endpoint, active, drainTicket>>

\* ... refuses, or does not answer within the startup deadline; or
\* copy_bidirectional ends.
TargetFailsOrCopyEnds(c) ==
    /\ task[c] \in {"startup", "copy"} /\ OtherBranch(c)
    /\ task' = [task EXCEPT ![c] = "shutdown"]
    /\ StopWaiting(c)
    /\ UNCHANGED <<pc, callVars, handleVars, session, portVars, cancelled,
                   canceller, endpoint, active, drainTicket>>

\* channel_stream.shutdown(), done or out of time.
ChannelShutdown(c) ==
    /\ task[c] = "shutdown"
    /\ task' = [task EXCEPT ![c] = "leaving"]
    /\ UNCHANGED <<pc, callVars, handleVars, session, portVars, cancelled,
                   canceller, waitVars, endpoint, active, drainTicket>>

\* The guard is dropped: fetch_sub, and a notification by the last one.
DropGuard(c) ==
    /\ task[c] = "leaving"
    /\ active' = active - 1
    /\ task' = [task EXCEPT ![c] = IF active = 1 THEN "last" ELSE "done"]
    /\ UNCHANGED <<pc, callVars, handleVars, session, portVars, cancelled,
                   canceller, waitVars, endpoint, drainTicket>>

NotifyEmpty(c) ==
    /\ task[c] = "last"
    /\ drainTicket' = IF drainTicket = "waiting" THEN "notified" ELSE drainTicket
    /\ task' = [task EXCEPT ![c] = "done"]
    /\ UNCHANGED <<pc, callVars, handleVars, session, portVars, cancelled,
                   canceller, waitVars, endpoint, active>>

\* The runtime is dropped, and the future of the task with it.
KillTask(c) ==
    /\ pc = "teardown" /\ task[c] \in {"startup", "copy", "shutdown"}
    /\ task' = [task EXCEPT ![c] = "leaving"]
    /\ StopWaiting(c)
    /\ UNCHANGED <<pc, callVars, handleVars, session, portVars, cancelled,
                   canceller, endpoint, active, drainTicket>>

TaskStep(c) == ChannelShutdown(c) \/ DropGuard(c) \/ NotifyEmpty(c) \/ KillTask(c)

Holding(c) == task[c] \in {"startup", "copy", "shutdown", "leaving"}

-----------------------------------------------------------------------------
(* Opening: connect, authenticate and request under one deadline.          *)

Connected ==
    /\ pc = "connect" /\ OtherBranch("owner")
    /\ session' = "up"
    /\ pc' = "authenticate"
    /\ UNCHANGED <<callVars, handleVars, portVars, cancelled, canceller,
                   waitVars, taskVars, drainTicket>>

Authenticated ==
    /\ pc = "authenticate" /\ OtherBranch("owner") /\ session = "up"
    /\ pc' = "request"
    /\ UNCHANGED <<callVars, handleVars, session, portVars, cancelled,
                   canceller, waitVars, taskVars, drainTicket>>

\* resolved_remote_forward_bound_port, 0 standing for its error.
BoundPort(returned) ==
    IF RequestedPort # 0 /\ returned \in {0, RequestedPort} THEN RequestedPort
    ELSE ToU16(returned)

\* The server grants the request: its port is resolved for the handler and
\* the lifecycle handle is returned.
ForwardGranted ==
    /\ pc = "request" /\ OtherBranch("owner") /\ session = "up"
    /\ \E returned \in ServerPorts :
        /\ BoundPort(returned) # 0
        /\ resolvedPort' = BoundPort(returned)
        /\ bindPort' = BoundPort(returned)
    /\ handle' = "some"
    /\ pc' = "ready"
    /\ StopWaiting("owner")
    /\ UNCHANGED <<callVars, joined, session, cancelled, canceller, taskVars,
                   drainTicket>>

\* A step of the opening fails (the session may have ended), an invalid port
\* comes back, or the startup deadline passes: the runtime is dropped.
OpeningFails ==
    /\ pc \in Starting /\ OtherBranch("owner")
    /\ pc' = "teardown"
    /\ StopWaiting("owner")
    /\ UNCHANGED <<callVars, handleVars, session, portVars, cancelled,
                   canceller, taskVars, drainTicket>>

-----------------------------------------------------------------------------
(* The calls of the owner.                                                 *)

Begin(next) ==
    /\ pc' = next
    /\ chain' = "ok" /\ terminal' = FALSE

MayCall == pc = "ready" /\ ~dropping /\ calls < MaxCalls

\* Without a session handle every call cancels and drains.
WaitCall ==
    /\ MayCall
    /\ calls' = calls + 1
    /\ Begin(IF handle = "some" THEN "wait" ELSE "store")
    /\ flow' = "drain"
    /\ UNCHANGED <<dropping, last, watched, handleVars, session, portVars,
                   cancelled, canceller, waitVars, taskVars, drainTicket>>

ShutdownCall ==
    /\ MayCall
    /\ calls' = calls + 1
    /\ Begin("store")
    /\ flow' = "shutdown"
    /\ UNCHANGED <<dropping, last, watched, handleVars, session, portVars,
                   cancelled, canceller, waitVars, taskVars, drainTicket>>

WaitUntilCancelledCall(t) ==
    /\ MayCall
    /\ calls' = calls + 1
    /\ Begin(IF handle = "some" THEN "watch" ELSE "store")
    /\ flow' = "drain"
    /\ watched' = t
    /\ wpc' = [wpc EXCEPT !["owner"] = IF handle = "some" THEN "check" ELSE "off"]
    /\ UNCHANGED <<dropping, last, handleVars, session, portVars, cancelled,
                   canceller, ticket, taskVars, drainTicket>>

\* Drop shuts down when a handle or a task is left, then the runtime goes.
DropCall ==
    /\ pc = "ready" /\ ~dropping
    /\ dropping' = TRUE
    /\ Begin(IF handle = "some" \/ active > 0 THEN "store" ELSE "teardown")
    /\ flow' = "shutdown"
    /\ UNCHANGED <<calls, last, watched, handleVars, session, portVars,
                   cancelled, canceller, waitVars, taskVars, drainTicket>>

\* cancel() by the owner.
StoreOwn ==
    /\ pc = "store"
    /\ cancelled' = [cancelled EXCEPT !["forward"] = TRUE]
    /\ pc' = "notify"
    /\ UNCHANGED <<callVars, handleVars, session, portVars, canceller, waitVars,
                   taskVars, drainTicket>>

\* Shutdown without a handle goes on as a drain, which cancels again.
NotifyOwn ==
    /\ pc = "notify"
    /\ Wake("forward")
    /\ \/ flow = "drain" /\ pc' = "drain_check" /\ UNCHANGED flow
       \/ flow = "shutdown" /\ handle = "some" /\ pc' = "cancel_forward" /\ UNCHANGED flow
       \/ flow = "shutdown" /\ handle = "none" /\ pc' = "store" /\ flow' = "drain"
    /\ UNCHANGED <<dropping, calls, chain, last, terminal, watched, handleVars,
                   session, portVars, cancelled, canceller, wpc, taskVars,
                   drainTicket>>

\* result.and(next): the first error stays.
And(next) == chain' = IF chain = "ok" THEN next ELSE chain

\* cancel_tcpip_forward: granted or refused by a live session, refused by an
\* ended one.
CancelForward ==
    /\ pc = "cancel_forward"
    /\ \/ session = "up" /\ \E r \in {"ok", "err"} : And(r)
       \/ session # "up" /\ And("err")
    /\ pc' = "disconnect"
    /\ UNCHANGED <<flow, dropping, calls, last, terminal, watched, handleVars,
                   session, portVars, cancelled, canceller, waitVars, taskVars,
                   drainTicket>>

Disconnect ==
    /\ pc = "disconnect"
    /\ And(IF session = "up" THEN "ok" ELSE "err")
    /\ pc' = "join"
    /\ UNCHANGED <<flow, dropping, calls, last, terminal, watched, handleVars,
                   session, portVars, cancelled, canceller, waitVars, taskVars,
                   drainTicket>>

\* wait_after_disconnect: the end by disconnect is the expected one.
JoinSession ==
    /\ pc = "join" /\ session \in Ends
    /\ And(IF session = "error" THEN "err" ELSE "ok")
    /\ joined' = TRUE
    /\ pc' = "drain_check"
    /\ UNCHANGED <<flow, dropping, calls, last, terminal, watched, handle,
                   session, portVars, cancelled, canceller, waitVars, taskVars,
                   drainTicket>>

\* wait, and the session branch of wait_until_cancelled: any error counts.
SessionOver ==
    /\ session \in Ends
    /\ \/ pc = "wait" /\ UNCHANGED waitVars
       \/ pc = "watch" /\ OtherBranch("owner") /\ StopWaiting("owner")
    /\ And(IF session = "ok" THEN "ok" ELSE "err")
    /\ joined' = TRUE
    /\ handle' = "none"
    /\ flow' = "drain"
    /\ pc' = "store"
    /\ UNCHANGED <<dropping, calls, last, terminal, watched, session, portVars,
                   cancelled, canceller, taskVars, drainTicket>>

Return(result, drained) ==
    /\ last' = result
    /\ terminal' = drained
    /\ drainTicket' = "none"
    /\ pc' = IF dropping THEN "teardown" ELSE "ready"

\* Mutant: the handle is given up whatever the outcome.
GiveUpHandle == handle' = "none"

\* handle is taken when the session is terminal.
ForgetJoined == handle' = IF joined THEN "none" ELSE handle

\* wait_for_empty, in the same shape as cancelled().
DrainLook(here, next) ==
    /\ pc = here
    /\ IF active = 0
       THEN Return(chain, TRUE) /\ ForgetJoined
       ELSE pc' = next /\ UNCHANGED <<last, terminal, drainTicket, handle>>
    /\ UNCHANGED <<flow, dropping, calls, chain, watched, joined, session,
                   portVars, cancelled, canceller, waitVars, taskVars>>

DrainCheck   == DrainLook("drain_check", "drain_create")
DrainRecheck == DrainLook("drain_recheck", "drain_await")

DrainCreate ==
    /\ pc = "drain_create"
    /\ drainTicket' = "waiting"
    /\ pc' = "drain_recheck"
    /\ UNCHANGED <<callVars, handleVars, session, portVars, cancelled,
                   canceller, waitVars, taskVars>>

DrainNotified ==
    /\ pc = "drain_await" /\ drainTicket = "notified"
    /\ drainTicket' = "none"
    /\ pc' = "drain_check"
    /\ UNCHANGED <<callVars, handleVars, session, portVars, cancelled,
                   canceller, waitVars, taskVars>>

\* Mutant: only the join is bounded.
DeadlineOfJoin ==
    /\ pc = "join"
    /\ Return("err", FALSE)
    /\ ForgetJoined
    /\ UNCHANGED <<flow, dropping, calls, chain, watched, joined, session,
                   portVars, cancelled, canceller, waitVars, taskVars>>

\* The deadline of shutdown or of the drain passes while it is pending.
Deadline ==
    /\ pc \in {"cancel_forward", "disconnect", "join", "drain_await"}
    /\ Return("err", FALSE)
    /\ ForgetJoined
    /\ UNCHANGED <<flow, dropping, calls, chain, watched, joined, session,
                   portVars, cancelled, canceller, waitVars, taskVars>>

\* The runtime's drop ends when every task and the session task are gone.
TornDown ==
    /\ pc = "teardown"
    /\ \A c \in Channels : task[c] \in {"none", "closed", "done"}
    /\ pc' = "gone"
    /\ session' = IF session = "up" THEN "error" ELSE session
    /\ UNCHANGED <<callVars, handleVars, portVars, cancelled, canceller,
                   waitVars, taskVars, drainTicket>>

OwnerStep ==
    \/ StoreOwn \/ NotifyOwn \/ Disconnect \/ JoinSession \/ SessionOver
    \/ DrainCheck \/ DrainCreate \/ DrainRecheck \/ DrainNotified \/ TornDown

Calls == WaitCall \/ ShutdownCall \/ DropCall
         \/ \E t \in Tokens : WaitUntilCancelledCall(t)

Opening == Connected \/ Authenticated \/ ForwardGranted \/ OpeningFails

Next ==
    \/ Opening \/ Calls \/ OwnerStep \/ CancelForward \/ Deadline \/ SessionEnds
    \/ \E t \in Tokens : CancelStore(t) \/ CancelNotify(t)
    \/ \E w \in Waiters : WaiterStep(w)
    \/ \E c \in Channels : \/ OpenForwarded(c) \/ TargetConnected(c)
                          \/ TargetFailsOrCopyEnds(c) \/ TaskStep(c)

Spec == Init /\ [][Next]_vars

\* The runtime polls every woken task and the owner's thread runs.  Nothing is
\* assumed of the server, of the local target or of the deadlines, so what
\* must happen has to happen through the notifications alone.
FairSpec ==
    /\ Spec
    /\ WF_vars(OwnerStep)
    /\ \A t \in Tokens : WF_vars(CancelNotify(t))
    /\ \A w \in Waiters : WF_vars(WaiterStep(w))
    /\ \A c \in Channels : WF_vars(TaskStep(c))

-----------------------------------------------------------------------------
(* Properties.                                                             *)

OwnerSteps == Starting \cup DrainSteps \cup
    {"ready", "wait", "watch", "store", "notify", "cancel_forward",
     "disconnect", "join", "teardown", "gone"}
TaskSteps == {"none", "closed", "startup", "copy", "shutdown", "leaving", "last",
              "done"}
Tickets == {"none", "waiting", "notified"}

\* The type of every variable of the forward, its tasks and its waiters.
TypeOK ==
    /\ pc \in OwnerSteps /\ flow \in {"drain", "shutdown"} /\ dropping \in BOOLEAN
    /\ calls \in 0..MaxCalls /\ chain \in {"ok", "err"}
    /\ last \in {"none", "ok", "err"} /\ terminal \in BOOLEAN
    /\ handle \in {"none", "some"} /\ joined \in BOOLEAN /\ watched \in Tokens
    /\ session \in {"none", "up"} \cup Ends
    /\ resolvedPort \in 0..MaxU16 /\ bindPort \in 0..MaxU16
    /\ cancelled \in [Tokens -> BOOLEAN]
    /\ canceller \in [Tokens -> {"idle", "stored", "done"}]
    /\ wpc \in [Waiters -> {"off", "check", "create", "recheck", "await"}]
    /\ ticket \in [Waiters -> Tickets]
    /\ task \in [Channels -> TaskSteps]
    /\ endpoint \in [Channels -> [host : Hosts \cup {""}, port : Nat]]
    /\ active \in Nat /\ drainTicket \in Tickets

\* A call that reports itself terminal leaves nothing running: the session has
\* been joined and no forwarded-channel task holds its guard, then or later,
\* whatever channels the server was opening meanwhile.  (The debug assertion
\* of shutdown, for every call and for as long as the handle lives.)
TerminalMeansDrained ==
    terminal => joined /\ active = 0 /\ \A c \in Channels : ~Holding(c)

\* The session handle is a join handle and the only way to the session.  It is
\* kept as long as the session has not been joined, so that a shutdown that ran
\* out of time can be repeated and Drop still disconnects; and a joined one is
\* given up before the call returns, so that no later call polls it again.
HandleMeansUnjoined ==
    /\ bindPort # 0 /\ handle = "none" => joined
    /\ handle = "some" /\ joined => pc \in DrainSteps

\* No channel is accepted for an endpoint the forward does not own: not while
\* the server's choice of port is pending, nor for a port that is no u16.
AcceptedOnlyBound ==
    \A c \in Channels : endpoint[c] # NoEndpoint =>
        /\ endpoint[c].port \in {RequestedPort, bindPort} \ {0}
        /\ BindHost \in {endpoint[c].host, "0.0.0.0", "::"}

\* No wake-up is lost, however a cancel() or the end of the last task falls
\* between the steps of a wait: whoever sleeps on a cancellation that has
\* happened, or on a drain that is complete, will still be notified.
NoLostWakeup ==
    /\ \A w \in Waiters :
        wpc[w] = "await" /\ ticket[w] = "waiting" /\ cancelled[Watches(w)] =>
            canceller[Watches(w)] = "stored" \/ (Watches(w) = "forward" /\ pc = "notify")
    /\ pc = "drain_await" /\ drainTicket = "waiting" =>
            active > 0 \/ \E c \in Channels : task[c] = "last"

\* When deadlines do pass, shutdown and Drop return even if the server answers
\* neither the cancellation nor the disconnect.
ShutdownReturns ==
    WF_vars(Deadline) => ((pc = "store" /\ flow = "shutdown") ~> (pc \in {"ready", "gone"}))

-----------------------------------------------------------------------------
(* Strengthenings that make the properties above inductive.                *)

\* The counter of the tracker is the number of tasks that hold a guard.
CounterExact == active = Cardinality({c \in Channels : Holding(c)})

\* Only an opening or a wait_until_cancelled of the owner, and a task that has
\* not been told to shut down, have a cancelled() future.
WaitersPlaced ==
    /\ wpc["owner"] # "off" => pc \in Starting \cup {"watch"}
    /\ \A c \in Channels : wpc[c] # "off" => task[c] \in {"startup", "copy"}

\* What the owner knows at each point of its calls: it drains only after the
\* session was joined, and joins only what has ended.
OwnerKnows ==
    /\ pc \in Starting => bindPort = 0 /\ handle = "none" /\ ~joined /\ ~terminal
    /\ pc \notin Starting \cup {"teardown", "gone"} => bindPort # 0
    /\ pc \in DrainSteps => joined
    /\ pc \in {"store", "notify"} /\ flow = "drain" => joined
    /\ joined => session \in Ends

\* The handler compares with the port of the plan until the server has bound
\* one.
PortResolved == resolvedPort = IF bindPort = 0 THEN RequestedPort ELSE bindPort

ForwardInv ==
    /\ CounterExact /\ WaitersPlaced /\ OwnerKnows /\ PortResolved
    /\ TerminalMeansDrained /\ HandleMeansUnjoined /\ AcceptedOnlyBound
    /\ NoLostWakeup
=============================================================================
