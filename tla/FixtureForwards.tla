-------------------------- MODULE FixtureForwards --------------------------
(***************************************************************************)
(* Remote forwarding in the hermetic SSH server: the session's handler     *)
(* with its registry of accepted forwards, one run_remote_forward task per *)
(* forward with its listener, and one bridge task per connection accepted  *)
(* by a listener.                                                          *)
(*                                                                         *)
(* The handler serves one request at a time and is inside a request while  *)
(* it waits for a forward to stop.  Its session may end at any moment,     *)
(* which drops the handler wherever it is.  An aborted task is dropped at  *)
(* its next await and not before: a task in the middle of a poll, or a     *)
(* bridge that is slow to die, may outlive every deadline.                 *)
(***************************************************************************)
EXTENDS Naturals, FiniteSets

CONSTANTS
    Forwards,       \* forward tasks that may be started
    Links,          \* connections the listeners may accept
    Addresses,      \* addresses clients ask to forward
    Ports,          \* ports they ask for; 0 leaves the choice to the server
    FreePorts       \* ports the system may choose

\* u16::MAX
MaxPort == 65535

ASSUME FreePortsAssumption == FreePorts \subseteq 1..MaxPort
ASSUME PortsAssumption == Ports \subseteq Nat

VARIABLES
    handler,        \* where the session's handler is: idle, waiting, gone
    stopping,       \* the forward whose stop() it is in
    registry,       \* remote_forwards: the forward kept under each key
    closed,         \* has the session's ChildTaskTracker been closed?
    reply,          \* the port of the last forward request, and its answer
    fpc,            \* where each forward task is
    key,            \* its address and port
    socket,         \* the socket address its listener is bound to
    cancel,         \* its watch channel
    abort,          \* has it been aborted?
    link,           \* each bridge task
    of,             \* the forward it belongs to
    keeper          \* who joins it: the forward's JoinSet, the reaper, nobody

handlerVars == <<handler, stopping, registry, closed, reply>>
taskVars == <<fpc, key, socket, cancel, abort>>
linkVars == <<link, of, keeper>>
forwardsVars == <<handlerVars, taskVars, linkVars>>

None == "none"
NoKey == <<"", 0>>
Nothing == [requested |-> 0, port |-> 0, answer |-> None]
LiveLink == {"opening", "copying", "aborting"}
LinksOf(f) == {l \in Links : of[l] = f /\ link[l] \in LiveLink}
Kept(f) == {l \in LinksOf(f) : keeper[l] = "task"}
Registered == {registry[k] : k \in DOMAIN registry}

TypeOK ==
    /\ handler \in {"idle", "wait", "wait_abort", "gone"}
    /\ stopping \in Forwards \cup {None}
    /\ DOMAIN registry \subseteq Addresses \X Nat /\ Registered \subseteq Forwards
    /\ closed \in BOOLEAN /\ reply \in [requested : Nat, port : Nat, answer : {None, "yes", "no"}]
    /\ fpc \in [Forwards -> {None, "select", "accept", "drain", "done"}]
    /\ cancel \in [Forwards -> BOOLEAN] /\ abort \in [Forwards -> BOOLEAN]
    /\ link \in [Links -> {None, "done"} \cup LiveLink]
    /\ of \in [Links -> Forwards \cup {None}]
    /\ keeper \in [Links -> {"task", "reaper", "nobody"}]

ForwardsInit ==
    /\ handler = "idle" /\ stopping = None /\ closed = FALSE /\ reply = Nothing
    /\ registry = [k \in {} |-> None]
    /\ fpc = [f \in Forwards |-> None] /\ key = [f \in Forwards |-> NoKey]
    /\ socket = [f \in Forwards |-> NoKey]
    /\ cancel = [f \in Forwards |-> FALSE] /\ abort = [f \in Forwards |-> FALSE]
    /\ link = [l \in Links |-> None] /\ of = [l \in Links |-> None]
    /\ keeper = [l \in Links |-> "nobody"]

-----------------------------------------------------------------------------
(* Sockets.                                                                *)

\* LoopbackEndpoint::new: the addresses of a loopback host; none for others.
SocketAddrs(address) ==
    CASE address = "localhost" -> <<"127.0.0.1", "::1">>
      [] address \in {"127.0.0.1", "::1"} -> <<address>>
      [] OTHER -> <<>>

Bound == {socket[f] : f \in {g \in Forwards : fpc[g] \in {"select", "accept"}}}

\* The sockets a bind of one address may produce: port 0 is any free one.
Bindable(ip, port) ==
    {ip} \X (IF port = 0 THEN FreePorts ELSE {port}) \ Bound

\* bind_first: the first address that can be bound.
BindFirst(addrs, port) ==
    LET ok == {i \in DOMAIN addrs : Bindable(addrs[i], port) # {}}
    IN  IF ok = {} THEN {}
        ELSE Bindable(addrs[CHOOSE i \in ok : \A j \in ok : i <= j], port)

-----------------------------------------------------------------------------
(* Dropping registry entries.                                              *)

\* Mutant: the entry is only a join handle, whose drop detaches the task.
Detach(fs) == UNCHANGED <<cancel, abort>>

\* Drop of RemoteForwardTask: cancelled and aborted.
DropEntries(fs) ==
    /\ cancel' = [f \in Forwards |-> cancel[f] \/ f \in fs]
    /\ abort' = [f \in Forwards |-> abort[f] \/ f \in fs]

-----------------------------------------------------------------------------
(* The handler.                                                            *)

\* tcpip_forward that is refused: not a loopback endpoint, nothing to bind
\* (the system may refuse any bind), or the session is being torn down.  The
\* client sees the port it asked for.
RefuseForward ==
    /\ handler = "idle"
    /\ \E p \in Ports : reply' = [requested |-> p, port |-> p, answer |-> "no"]
    /\ UNCHANGED <<handler, stopping, registry, closed, taskVars, linkVars>>

\* tcpip_forward: bind, spawn the task, and keep it under the address and the
\* port the listener got.  An entry already there is dropped.
TcpipForward(f) ==
    /\ handler = "idle" /\ ~closed /\ fpc[f] = None
    /\ \E a \in Addresses, p \in Ports :
        /\ p <= MaxPort
        /\ \E s \in BindFirst(SocketAddrs(a), p) :
            LET k == <<a, s[2]>>
                old == IF k \in DOMAIN registry THEN {registry[k]} ELSE {}
            IN  /\ fpc' = [fpc EXCEPT ![f] = "select"]
                /\ key' = [key EXCEPT ![f] = k] /\ socket' = [socket EXCEPT ![f] = s]
                /\ registry' = [x \in DOMAIN registry \cup {k} |->
                                    IF x = k THEN f ELSE registry[x]]
                /\ reply' = [requested |-> p, port |-> s[2], answer |-> "yes"]
                /\ DropEntries(old)
    /\ UNCHANGED <<handler, stopping, closed, linkVars>>

Unregister(k) == [x \in DOMAIN registry \ {k} |-> registry[x]]

\* cancel_tcpip_forward: remove the entry, tell its task, and wait (a key that
\* is not there is refused, and nothing changes) ...
CancelTcpipForward(k) ==
    /\ handler = "idle" /\ k \in DOMAIN registry
    /\ stopping' = registry[k] /\ registry' = Unregister(k)
    /\ cancel' = [cancel EXCEPT ![registry[k]] = TRUE]
    /\ handler' = "wait"
    /\ UNCHANGED <<closed, reply, fpc, key, socket, abort, linkVars>>

\* ... for its completion, or its end, which drops the sender.  The entry is
\* dropped at the end of stop().
StopEnds ==
    /\ handler \in {"wait", "wait_abort"} /\ fpc[stopping] = "done"
    /\ handler' = "idle" /\ stopping' = None
    /\ DropEntries({stopping})
    /\ UNCHANGED <<registry, closed, reply, fpc, key, socket, linkVars>>

\* SESSION_TEARDOWN expires: the task is aborted and given SECONDARY_DRAIN.
StopAborts ==
    /\ handler = "wait" /\ fpc[stopping] # "done"
    /\ abort' = [abort EXCEPT ![stopping] = TRUE]
    /\ handler' = "wait_abort"
    /\ UNCHANGED <<stopping, registry, closed, reply, fpc, key, socket, cancel, linkVars>>

StopGivesUp ==
    /\ handler = "wait_abort" /\ fpc[stopping] # "done"
    /\ handler' = "idle" /\ stopping' = None
    /\ DropEntries({stopping})
    /\ UNCHANGED <<registry, closed, reply, fpc, key, socket, linkVars>>

\* The session's tracker is closed, then aborts what does not end in time.
TrackerCloses ==
    /\ ~closed /\ closed' = TRUE
    /\ UNCHANGED <<handler, stopping, registry, reply, taskVars, linkVars>>

TrackerAborts(f) ==
    /\ closed /\ fpc[f] \notin {None, "done"} /\ ~abort[f]
    /\ abort' = [abort EXCEPT ![f] = TRUE]
    /\ UNCHANGED <<handlerVars, fpc, key, socket, cancel, linkVars>>

\* The russh session ends: the handler is dropped with all it holds, a request
\* it is in the middle of included.
SessionEnds ==
    /\ handler # "gone"
    /\ handler' = "gone" /\ stopping' = None
    /\ registry' = [k \in {} |-> None]
    /\ DropEntries(Registered \cup (IF stopping = None THEN {} ELSE {stopping}))
    /\ UNCHANGED <<closed, reply, fpc, key, socket, linkVars>>

-----------------------------------------------------------------------------
(* run_remote_forward.                                                     *)

\* The task's future is dropped: its listener closes, and the JoinSet aborts
\* the bridges and forgets them.
TaskDropped(f) ==
    /\ abort[f] /\ fpc[f] \in {"select", "drain"}
    /\ fpc' = [fpc EXCEPT ![f] = "done"]
    /\ link' = [l \in Links |-> IF l \in Kept(f) THEN "aborting" ELSE link[l]]
    /\ keeper' = [l \in Links |-> IF l \in Kept(f) THEN "nobody" ELSE keeper[l]]
    /\ UNCHANGED <<handlerVars, key, socket, cancel, abort, of>>

\* Mutant: the bridges are left to end by themselves.
UnlistenGently(f) == fpc' = [fpc EXCEPT ![f] = "drain"] /\ UNCHANGED link

\* After the loop: the listener is dropped, every bridge aborted.
Unlisten(f) ==
    /\ fpc' = [fpc EXCEPT ![f] = "drain"]
    /\ link' = [l \in Links |-> IF l \in Kept(f) THEN "aborting" ELSE link[l]]

\* The biased select: the cancellation first ...
SelectCancelled(f) ==
    /\ fpc[f] = "select" /\ ~abort[f] /\ cancel[f]
    /\ Unlisten(f)
    /\ UNCHANGED <<handlerVars, key, socket, cancel, abort, of, keeper>>

\* ... then a connection, or an error, or a bridge that has ended.
SelectAccepts(f) ==
    /\ fpc[f] = "select" /\ ~abort[f] /\ ~cancel[f]
    /\ fpc' = [fpc EXCEPT ![f] = "accept"]
    /\ UNCHANGED <<handlerVars, key, socket, cancel, abort, linkVars>>

SpawnBridge(f) ==
    /\ fpc[f] = "accept"
    /\ \E l \in Links :
        /\ link[l] = None
        /\ link' = [link EXCEPT ![l] = "opening"] /\ of' = [of EXCEPT ![l] = f]
        /\ keeper' = [keeper EXCEPT ![l] = "task"]
    /\ fpc' = [fpc EXCEPT ![f] = "select"]
    /\ UNCHANGED <<handlerVars, key, socket, cancel, abort>>

AcceptNothing(f) ==
    /\ fpc[f] = "accept"
    /\ fpc' = [fpc EXCEPT ![f] = "select"]
    /\ UNCHANGED <<handlerVars, key, socket, cancel, abort, linkVars>>

AcceptFails(f) ==
    /\ fpc[f] = "accept"
    /\ Unlisten(f)
    /\ UNCHANGED <<handlerVars, key, socket, cancel, abort, of, keeper>>

\* The drain: done when no bridge is left, or when SECONDARY_DRAIN expires, the
\* rest going to the process reaper.
DrainEnds(f) ==
    /\ fpc[f] = "drain" /\ ~abort[f]
    /\ fpc' = [fpc EXCEPT ![f] = "done"]
    /\ keeper' = [l \in Links |-> IF l \in Kept(f) THEN "reaper" ELSE keeper[l]]
    /\ UNCHANGED <<handlerVars, key, socket, cancel, abort, link, of>>

\* A bridge: the forwarded channel is opened, the bytes copied both ways.
BridgeStep(l) ==
    /\ \/ link[l] = "opening" /\ link' = [link EXCEPT ![l] = "copying"]
       \/ link[l] \in LiveLink /\ link' = [link EXCEPT ![l] = "done"]
    /\ UNCHANGED <<handlerVars, taskVars, of, keeper>>

Handler == (\E f \in Forwards : TcpipForward(f)) \/ RefuseForward
           \/ (\E k \in Addresses \X FreePorts : CancelTcpipForward(k))
Stopper == StopEnds \/ StopAborts \/ StopGivesUp
Tracker == TrackerCloses \/ \E f \in Forwards : TrackerAborts(f)
Task(f) == TaskDropped(f) \/ SelectCancelled(f) \/ SpawnBridge(f)
           \/ AcceptNothing(f) \/ AcceptFails(f) \/ DrainEnds(f)
Bridge(l) == BridgeStep(l)

ForwardsNext ==
    \/ Handler \/ Stopper \/ Tracker \/ SessionEnds
    \/ \E f \in Forwards : Task(f) \/ SelectAccepts(f)
    \/ \E l \in Links : Bridge(l)

\* A request in progress goes on, tasks run, aborted bridges die.  Nothing says
\* that clients connect, that a copy ends by itself or that a session does.
ForwardsFairness ==
    /\ WF_forwardsVars(Stopper)
    /\ \A f \in Forwards : WF_forwardsVars(Task(f))
    /\ \A l \in Links : WF_forwardsVars(link[l] = "aborting" /\ Bridge(l))

ForwardsSpec == ForwardsInit /\ [][ForwardsNext]_forwardsVars /\ ForwardsFairness

-----------------------------------------------------------------------------
\* Nobody but a registered forward, or one that is told to end, has a listener:
\* a client can always cancel what it was granted, and the end of its session
\* leaves no port behind.
NoOrphanListener ==
    \A f \in Forwards :
        fpc[f] \in {"select", "accept"} /\ ~cancel[f] /\ ~abort[f] => f \in Registered

\* A bridge outlives its forward's listener only on its way out, whether the
\* forward was cancelled, aborted, replaced or failed to accept: whoever had its
\* listener closed has its connections broken off too.
BridgesFollow ==
    \A l \in Links :
        link[l] \in LiveLink /\ fpc[of[l]] \in {"drain", "done"} => link[l] = "aborting"

\* Once the session is gone, its listeners close and its bridges end.
SessionEndEndsAll ==
    handler = "gone" ~> /\ \A f \in Forwards : fpc[f] \in {None, "done"}
                        /\ \A l \in Links : link[l] \in {None, "done"}

-----------------------------------------------------------------------------
\* Strengthening that makes BridgesFollow inductive: a bridge that has not been
\* aborted belongs to a forward that still listens, and is in its JoinSet.
BridgesKept ==
    \A l \in Links : link[l] \in {"opening", "copying"} =>
        of[l] \in Forwards /\ fpc[of[l]] \in {"select", "accept"} /\ keeper[l] = "task"

ForwardsInv == NoOrphanListener /\ BridgesFollow /\ BridgesKept
=============================================================================
