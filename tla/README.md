# A TLA+ model of R-SSH

R-SSH is a native SSH client: a library (`rssh-ssh`) over the russh crate, a
command (`rssh`), and a test-support crate with a hermetic SSH server and
guarded child processes. The modules here model its threads, tasks and
processes, the protocols they speak and the few pure algorithms that are easy
to get wrong. TLC checks them on small instances, and TLAPS proves every safety
invariant that the passing runs check, and that the session runner implements its abstract
specification, for every instance.

Paths below are relative to the repository; `lib.rs` and `russh_client.rs` are
those of `crates/rssh-ssh/src`.

## 1. Inventory

| Part | State | Operations | Meets | What is hard | What makes it correct |
|---|---|---|---|---|---|
| **Session runner** (`lib.rs` 1170-1420) | cancellation flag, byte counts, results of two pumps | `run_split_shell_with_events`, `pump_input_events`, `copy_session_to_output` | two threads share the flag; the application feeds a bounded queue; both use one channel | joining a pump that may be idle or out of window; a write cut by the flag; errors on either side | output complete and in order, input in order and counted, channel closed on every path, return guaranteed |
| **Channel halves** (`russh_client.rs` 2300-2800) | `pending_read`, exit metadata, `RusshWriterLifecycle` | cancellable read, write, resize, EOF, close | the remote, over flow control | messages larger than the buffer, metadata after EOF, closing twice | nothing follows Close; only Close follows EOF |
| **Remote TCP forwarding** (`russh_client.rs` 470-770, 1400-1500, 1888-2290) | session handle, cancellation flag and `Notify`, counter of live tasks and `Notify`, bound port | open, `wait`, `shutdown`, `wait_until_cancelled`, drop; one task per channel | owner, session task, channel tasks, concurrent `cancel()` | wake-ups between a check and a wait; channels arriving during the drain; retry after a deadline | a terminal call leaves nothing running; a handle is neither lost nor polled twice; no wake-up is lost |
| **Host keys** (`russh_client.rs` 24-107, 1745-1886) | the `known_hosts` file | `check_server_key`, `matches`, `learn`; a verifier that may take minutes | other connections, other processes, crashes | a look at the file that is stale when used; half-written lines | a key that is not on record is never accepted while another is (with the default file only within its algorithm, finding 8); a learned key is known |
| **Opener** (`russh_client.rs` 520-560, 980-1400, 1510-1740, 2815-2860) | milestones, cancellation handle, deadline | `open_channel`, `open_direct_tcpip_channel`, `forward_direct_tcpip_stream_with_ready` | server, agent, secret provider, `cancel()` on another thread | silence anywhere, cancellation at any step, failures during cleanup | milestones and results are truthful; deadlines and cancellation end every wait; an established forward is cleaned up |
| **Child guard and reaper** (`rssh-test-support/src/process.rs`) | the child, the reaper's queue, mutex and condition variable | spawn, `wait`, `terminate`, drop; the reaper's loop | guards in several threads, one reaper, the operating system | failing system calls, unkillable children, a notification sent outside the lock | every live child has one owner; results are truthful; calls return; what is deferred is reaped |
| **Fixture server** (`rssh-test-support/src/ssh/server.rs`, `lifecycle.rs`) | watch and completion channels, `JoinSet`, trackers of child tasks, reaper | start, `stop`, drop; accept loop; `run_session` | owner, worker, sessions, child tasks, agent | tasks that ignore their abort, a session aborted in the middle of its own drain | a successful stop leaves nothing; no task is forgotten; stop returns |
| **Process-wide runtime** (`russh_client.rs` 775-822) | `OnceLock` and mutex | `get_or_try_init` | any thread | concurrent first use, a construction that fails or panics | one runtime, however many callers; a failure is not final |
| **Compatibility halves** (`lib.rs` 880-1000) | a mutex around the session | read, write, resize, close | both pumps | a read that blocks inside the lock | once the remote closes, the run ends with the lock free and the session closed |
| **Sequential runner** (`lib.rs` 1024-1170) | a buffer | `run_shell_with_io` | a session | short writes, errors | Ok means all input written, all output shown, session closed |
| **Quoting** (`russh_client.rs` 392-410) | none | `encode_posix_remote_command` | the remote shell, the fixture's `parse_shell_words` | quotes, empty words | every argument vector reads back as it was |
| **CLI** (`rssh-cli`) | parsed arguments | parse, run, exit code | opener and runner | options without a value, a remote that reports nothing or a code outside a byte | an exit code is never mistaken; what is typed is what is asked for |
| **Configuration, secrets** (`lib.rs`) | values | builders, validation | none | boundaries | nothing invalid reaches the opener |
| **Fixture handler and forwards** (`ssh/server/handler.rs`, `ssh/server/forwarding.rs`) | map of channels, shells and line buffers, registry of forwards | every request of a client; one task per forward, one per bridged connection | client, forward tasks, end of session | requests in any order, cancelling while bridges run, a session dropped in the middle of a request | a channel has one owner and a shell request runs one command; no listener without an owner; no bridge outlives its forward |
| **Fixture SCP and SFTP** (`ssh/scp.rs`, `ssh/sftp.rs`) | the sandbox on disk, a stack of directories, a table of handles | sink, source; SFTP requests | one client, the file system | links that loop, dangle or lead outside, truncated transfers, limits | nothing outside the sandbox changes; success means the whole file |
| **Echo server** (`ssh/forward.rs`) | cancellation, readiness and completion, threads of connections | start, stop, drop | owner, listener, connections, reaper | threads that fail or do not end in time | a successful stop leaves nothing; no thread is forgotten |

The CLI connects through the opener (which verifies the host key on the way),
hands the session to the runner and its stdin to the runner's queue, and maps
the outcome to an exit code. Remote forwarding uses the same connection code.
The test crates use the guard for OpenSSH processes and the fixture server for
everything else.

`PROJECT.json` lists the components, the hazards with their lines, and the
correspondence of every definition with the source.

## 2. The modules

### SessionPump

`run_split_shell_with_events` over the native halves. Data is abstracted to
byte numbers: the *n*-th byte handed over is *n*, so order, loss and
duplication are visible; a byte is one packet and one unit of window.

* `InputPump` is the spawned thread: `CheckCancelled`, the three outcomes of
  `recv_timeout`, the second look at the flag (`Dispatch`), one action per
  packet written, the cut of a write by the flag, resize, the two steps of
  Cancel, EOF, the emergency close after an error.
* `OutputPump` is the calling thread: reads out of `pending_read`, of data, of
  metadata and of the end; the inactivity deadline; the local write and its
  failure; cancel, join, close and return.
* `CloseChannel` and `FinishInput` are the lifecycle of the writer, with the
  case in which the transport refuses and the mark is taken back.
* The environment sends events, drops its sender, sends data, status, signals,
  EOF and Close, grants window, and breaks the link.

A link that goes down makes later writes fail and the read end after what was
already received, which is what russh's channel does when its session is gone.
Panics of the pumps and allocation failures are left out.

### RemoteForward

The opening of a remote forward, the calls of `RusshRemoteTcpIpForward` one at
a time, and beside them the session task, one task per forwarded channel and a
concurrent `cancel()`. `cancelled()` and `wait_for_empty` are taken apart into
check, creation of the `Notified`, second check and await, because a wake-up
can only be lost between these. A `Notified` receives every `notify_waiters`
after its creation, as in tokio. Ports keep their width: a connected port
outside u16 becomes 0, as in the code.

### HostKey

`check_server_key` with all four policies, with and without a configured file
and a verifier, and `learn` write by write. The file is the sequence of what
was appended; what a line is, which key it records and when it does not parse
follow from it. A configured file is looked at twice, by `matches` and by
`known_hosts_contains_endpoint`; the user's default file, which stands in for it,
once (`Consulted`). A host and its port are one value; hashed and wildcard lines
are left out.

`RecordedKeyOnly` is what the comment at line 1841 says: an accepted key is on
record for its endpoint, or none is. The code does not keep to it in two cases,
findings 4 and 8. `ChangedNeverAccepted` is what it does keep to when one attempt
is verified at a time: all of it with a configured file, and with the default
file that a key is not accepted in the place of another of its algorithm.

### Opener

One call of the three kinds, with every authentication method, provider, PTY
and startup, through connect, prompt, authentication (identity by identity for
the agent), open, startup requests and, for a forward, ready, transfer and the
three cleanup steps. The cancellation is taken apart as in RemoteForward.
Connecting includes the host-key verification as a reason to fail.

### ChildGuard

Guards, each with its process, and the reaper thread: its start, lock, timed
and untimed wait and its pass over the children it holds. `enqueue` pushes
under the lock and notifies after it. `Failures` bounds the calls of the
operating system that fail. Captured output and its redaction are left out.

### FixtureServer

The owner's start, stop and drop, the worker with its accept loop, the teardown
of sessions (close the tracker, drain, abort, drain again, defer), the child
tasks, the agent's worker, and the process reaper as a place where handles are
kept. The worker's completion and the end of its thread are two steps,
so that the join after a completion may have to wait or be deferred. An abort may
hit `run_session` at each of its awaits. Channel requests only
matter here as reasons to spawn a child; what they do is in FixtureChannels and
FixtureForwards.

### Session and SessionRefinement

Session says what a run promises without threads, queues, windows or buffers:
the channel accepts a prefix of what the application handed over, the output
gets a prefix of what the remote sent, the client's side goes from open to
finished to closed, the run returns once, and Ok means that the remote is over,
everything it sent was shown and the channel is closed. SessionRefinement maps
SessionPump to it: `accepted` is the data among the packets on the wire
(`DataOf`), `phase` the writer's lifecycle, `over` the remote's Close or the
loss of the link. `ImplementsSession` is the abstract specification.

### FixtureForwards

The handler's `tcpip_forward` and `cancel_tcpip_forward`, one
`run_remote_forward` task per forward (select, accept, cancel, drain, abort) and
one bridge per accepted connection. The handler stays inside a request while it
waits for a forward to stop, and its session may end at any of these awaits.

### FixtureServices

Composes the services of the hermetic server; a behaviour is about one session
or about the echo server.

* **FixtureChannels**: authentication, the channels the handler holds, shells
  with their line buffers, commands, and the hand-over of a channel to a
  service. A client sends any request in any order.
* **FixtureTree**: the file system and the path checks of both services. A path
  is a sequence of names, and resolving follows links as the system does, up to
  `MaxLinks` of them; an open file keeps its place on the disk when its path is
  moved or removed.
* **ScpService**: `serve_scp`, sink and source, unit by unit of what it reads
  (control line, byte, acknowledgement, end of input). A control line is read in
  two steps, its first bytes and the rest, because the input may end between
  them (`incomplete_control`). The recursion of
  `send_entry` is an agenda of what is still to be sent. What the records mean
  to a client (`Seen`) and what there was to send (`FilesBelow`, by following
  names from the target, one name further than the depth bound lets a transfer
  go) are defined independently of the agenda. A file is sent or it is not: that
  it is sent only once is not checked.
* **SftpSession**: the requests that change something, and the handle table.
* **EchoServer**: owner, listener thread, connection threads and the reaper
  that is left the threads which did not end in time.

### ClientLibrary

Composes what stands around the session; a behaviour is about one part.

* **LazyRuntime**: `get_or_try_init` step by step: first look, lock, second
  look, construction that succeeds, fails or panics, poisoned lock.
* **SharedHalves**: the runner over the halves that share a mutex. A read waits
  with the mutex held, so the input pump waits for the remote too; and so does
  a write, of which an event may need several.
* **LegacyRunner**: `run_shell_with_io` write by write, with short writes.
* **RemoteCommand**: the quoting, and two readers of its result: a POSIX shell
  and the fixture's `parse_shell_words`. Characters are the seven a shell tells
  apart; writer and readers go over the text from the left (`Scan`).
* **CommandLine**: parsing, validation, connection, session and exit code. An
  argument is one of the strings the parser tells apart.

## 3. Runs

| Run | Instance | Shows |
|---|---|---|
| `session_pump` | queue of capacity 0 (normalised to 1), two events of all kinds, chunks of 0 and 2 bytes, two messages of 2 bytes for a buffer of 1, window 1, deadline | the runner's safety: wire discipline, order and count of input, completeness of an Ok outcome, channel released, silence after return |
| `session_pump_live` | as above, one message, no deadline | the end of the remote, a failure of the output and an answered Cancel end the run; every behaviour is one of Session, so that the output is a prefix in any case |
| `cancel_leaves_output_pump` | one event, one message | the first finding below |
| `remote_forward` | two channels, one call and the drop, a server-chosen port | terminal calls, the handle, the endpoints; no wake-up is lost; the call returns |
| `host_key` | two connections, two endpoints, three keys of two algorithms, five initial files, one verification at a time | no key accepted in the place of a recorded one (default file: of its algorithm), learned keys known, after any partial write |
| `host_key_race` | two verifications at once, with a configured file | the fourth finding |
| `opener` | every sensible call, up to three identities | milestones, cancellation, deadlines, cleanup |
| `child_guard` | two guards, one failing call | one owner per child, truthful results, return, reaping |
| `fixture_server` | two connections, two child tasks, a worker that may panic | drained stop, no task forgotten, stop returns |
| `fixture_forwards` | two forward tasks, two bridged connections, three addresses, a fixed, a chosen and an invalid port | no orphan listener, no bridge beyond its forward, nothing left after the session |
| `fixture_services` | two shell requests; a tree with a file, a nested directory, a directory with a file and a link to itself, and links to a file, outside and nowhere; depth 3, size 1, three control lines, three SFTP requests, two handles; two echo clients | one owner per channel and one command per shell request, the sandbox holds, SCP success means the whole tree or file, echo threads owned and ended |
| `library` | three threads and three constructions; three events of up to two writes and two chunks; four input bytes for a buffer of three; up to three words of together four characters; up to four arguments of thirteen strings | one runtime, the mutex halves end, the sequential Ok is complete, quoting round-trips, exit codes are truthful |

**Bounds.** Capacity 1 makes the queue full and empty; a two-byte chunk against
a window of one is the smallest write that can be cut in the middle; a two-byte
message against a one-byte buffer leaves a remainder in `pending_read`; two
messages let metadata come before and after data and EOF. Two channels allow one
task to hold the drain while another arrives; the drop after a call finds every
state that a call leaves, an expired deadline included. Two connections one
after the other are what it takes for a cut line to meet the next record, and
three keys give a same-algorithm and an other-algorithm change. Two guards are
needed for one to be enqueued while the reaper holds the other. Two child tasks
allow one to be in a drain while another is being spawned. Two forwards on the
same port allow one to replace the other while its bridge still runs, and two
bridges let one end while the other holds the drain. The links of the tree are
one of each kind that the path checks tell apart, and no path has more than two
of them to follow (`MaxLinks`); with depth 3 the file `d/n/b` is
at the last level a source still sends, and the loop, which has a file at every
turn, goes beyond it: a source that stopped there and reported success would be
missing one. Two shell requests are what it takes for one to find a shell that
was opened before. Three threads
let one fail, one build and one find; four bytes and a buffer of three make a full
and a partial read; words of four characters hold every pair of quote, escape
and blank inside other text; four arguments hold an option, its value, the
destination and a command.

The runs of the session runner leave empty data messages out, because of
finding 3: with them an Ok outcome is not complete.

**Deadlock checking** is off because all of these systems end: calls return,
or nobody asks for more, and then nothing is enabled. That they do not end early is what the liveness
properties say.

**Fairness.** The client's own threads and woken tasks are weakly fair: they
are scheduled by the operating system and by tokio. Nothing is assumed of the
remote, the application, the local target, the agent or the provider. Deadlines
are not fair either, except where a property is about them:
`ShutdownReturns` and `CallEnds` are implications from the fairness of the
deadline, `CancelReturns` from a remote that answers Close with Close,
`DeferredReaped` from processes that exit once killed. In ChildGuard and in the
owner of FixtureServer the clock is part of the loop itself, so that its expiry
is a fair step there (`Defer` strongly, as the loop passes its clock again and
again). In FixtureForwards the forward tasks, a request in progress and aborted
bridges are fair; clients, copies and the end of the session are not. In the
echo server the owner's calls, the listener and the connections are fair, the
wish to stop is not. Over the mutex halves the two threads of the runner are
fair, except that a write inside the mutex is only sure to return once the channel
is closed; taking an event, a failure of the output and everything the remote does
are not.

**Refinement.** `ImplementsSession` is checked in `session_pump_live`. The
abstract specification is safety: that the run returns is what `EndReturns` and
`CancelReturns` say.

Every property has a mutant in `PROJECT.json`: a form of the modelled code with
a plausible mistake, under which TLC finds the property violated. The mutants
stand before the definitions they replace and are not used by any `Next`.

## 4. Proofs

Eight modules hold theorems, each beside the module it is about, which it
EXTENDS; `FixtureProofs` is about both FixtureServices and FixtureForwards, which
share no variable. The strengthenings that make an invariant inductive stand
at the end of the component's module, where TLC can check them (each was checked
on the component's instance before it was proved). Two that only a proof has use
for, because they speak of a whole agenda or a whole line at once, stand in the
proof modules (`SourceInv`, `QuotingInv`). Every proof has the same shape: the
initial state satisfies the invariant, each action preserves it (a lemma per
group of actions, a step per action), and the properties follow.

| Module | Theorem | Says |
|---|---|---|
| `SessionPumpProofs` | `TypeCorrect` | `TypeOK`; the queue never exceeds its capacity |
| | `WireDisciplineHolds` | nothing follows Close, only Close follows EOF |
| | `ChannelReleasedHolds` | the channel is closed on every path out of the runner, if the link stands |
| | `QuietAfterReturnHolds` | nothing is touched after the return |
| | `InputAccountingHolds`, `InputInOrderHolds` | accepted bytes are the first ones handed over, in order; the count lags by less than a chunk |
| | `OutputInvCorrect` | what is under way to the local output is one stretch of the remote's bytes |
| | `OkIsCompleteHolds`, `OutputIsPrefixHolds` | Ok means that everything was shown and the last metadata reported; in any case the output is a prefix |
| | `SessionImplemented` | every behaviour of the runner is one of Session |
| `HostKeyProofs` | `KnownHostsInvariant` | an attempt acts on a file that is as it found it |
| | `StoredStaysKnown` | a learned key is known from then on |
| | `ChangedKeysRejected` | `ChangedNeverAccepted`: a key is accepted only when it, or none, is on record; with the default file also when only keys of other algorithms are |
| `RemoteForwardProofs` | `ForwardInvariant` | types and invariant |
| | `ForwardDrained`, `ForwardHandle`, `ForwardAccepts`, `ForwardWakeups` | `TerminalMeansDrained`, `HandleMeansUnjoined`, `AcceptedOnlyBound`, `NoLostWakeup` |
| `OpenerProofs` | `OpenerInvariant` | types and invariant |
| | `OpenerPhases`, `OpenerCancelled`, `OpenerCleanup` | `PhasesTruthful`, `CancelledBeforeCall`, `ForwardCleanedUp` |
| `ChildGuardProofs` | `GuardInvariant` | types and invariant |
| | `GuardsLoseNoChild`, `GuardResults` | `NoChildLost`, `ResultTruthful` |
| `FixtureServerProofs` | `ServerInvariant` | types and invariant |
| | `ServerStops`, `ServerForgetsNoTask` | `StopOkMeansDrained`, `NoTaskForgotten` |
| `FixtureProofs` | `ServicesInvariant` | invariants of channels, sink and echo server, together |
| | `ServicesDiscipline`, `ServicesSinkStored`, `ServicesEchoOwned` | `ChannelDiscipline`, `ScpSinkOkMeansStored`, `EchoThreadsOwned` |
| | `ServicesSandbox`, `ServicesSandboxOneChannel` | `SandboxHolds`: nothing outside the root is changed or opened, for every tree with its links |
| | `ServicesSourceMirrors`, `ServicesSourceOneChannel` | `ScpSourceOkMirrors`: status 0 means exactly the files below the target, for every tree and depth |
| | `ForwardsInvariant` | types and invariant of forwarding |
| | `ForwardsRegistered`, `ForwardsTakeBridges` | `NoOrphanListener`, `BridgesFollow` |
| `ClientLibraryProofs` | `ClientInvariant` | the invariants of three parts, together |
| | `ClientSharesRuntime`, `LegacyCopiesAll`, `CommandLineTruthful` | `OneRuntime`, `LegacyOkMeansAll`, `ExitCodeTruthful` |
| | `QuotingReadBack` | `QuotingRoundTrip`, for argument vectors of any length |

**Assumptions.** Those of the modules, all about types and names: bounds are
natural numbers, the copy buffer is not empty, ports are in range, the channels
and connection attempts are finitely many (their number is counted), and the
names of channels, sessions and threads are not those the model gives to the
owner, the worker, the agent or nobody. Of the file system a session starts with
they say what every file system satisfies: the root is a directory, what a path
names is in directories all the way down, a node is a directory, a link or a
file with a place on the disk, and no file of the sandbox is also one outside
(no hard links across the border, which the fixture never makes). Some theorems
need one more, which is part of their statement:

* what SessionPump says about its output (`OutputInvCorrect`, `OkIsCompleteHolds`,
  `OutputIsPrefixHolds`, `SessionImplemented`) holds for remotes that send no
  empty data message (`0 \notin MsgLens`), because of finding 3;
* what HostKey says holds for attempts verified one after the other
  (`Parallel = 1`), because of finding 4;
* `SandboxHolds` and `ScpSourceOkMirrors` hold while at most one of SCP and SFTP
  has been started (`OneService`): `resolve_for_create` of both asks that nobody
  changes the tree between the check of a path and its use (`scp.rs` 569-571,
  `sftp.rs` 71-73). A session with one channel needs no such hypothesis, as the
  second theorem of each pair says; that is the instance TLC checks.

**The arguments.**

*SessionPump, wire.* `WireDiscipline` is not inductive: a write may only be
refused because the lifecycle remembers what was sent. `WireInv` adds that the
lifecycle agrees with the wire (`LifecycleMatchesWire`), that the writer belongs
to one thread at a time (`Ownership`: the caller takes it only after the join),
and that a pump that ended in error has tried to close (`CloseAttempted`).
`ChannelReleased` and `QuietAfterReturn` follow.

*SessionPump, input.* `InputAccounting` needs to know where the next bytes are.
`QueueIsConsecutive` says that the event in hand and the queue are consecutive
stretches following the bytes already written; receiving moves a stretch from
the queue to the hand, sending a packet moves one byte from the hand to the
wire, and appending an event extends the last stretch.

*SessionPump, output.* `OutputIsConsecutive` says the same of the other
direction: the sink, the chunk in hand, the bytes a read left over and the data
messages in the channel are one stretch that ends where the remote is. The
message boundaries are a function `start` from positions in the channel to byte
numbers; delivering a message extends it, taking one shifts it. `MetadataKept`
follows the last status and signal, and `CopyProgress` says that a copy which
ended well has seen the end and left nothing.

*SessionPump, refinement.* `SimulationInv` puts these together with `HandedOver`
(no event reaches beyond what was handed over). By `InputInv` the data packets
carry the numbers 1 to n in order, so that the bytes on the wire *are* the first
n (`DataInOrder`, by counting). A packet is then `Accept`, a write to the output
`Show`, the end of the run `Return`; every other step changes nothing that
Session sees.

*HostKey.* The file is only appended to, so four lemmas say all about its lines:
a newline adds none (`LinesAfterNewline`); after a newline, one part is a line
(`LinesAfterPart`) and two are one line (`LinesAfterTwo`); the earlier lines stay
(`EarlierLines`). `KnownHostsInv` says that between the second look and the host
part the endpoint has no line, that the newline owed by a cut write is noticed and
then written, and that a stored record is its endpoint's only line. Of an attempt
with the default file, which no connection writes to, it says that no key of the
algorithm is on record when its status is unknown: that is what `matches` answers
there (`NoMatchIsOther`), and all that `ChangedNeverAccepted` claims.

*RemoteForward.* The counter is the number of tasks with a guard
(`CounterExact`), the waiters are where the owner and the tasks wait
(`WaitersPlaced`), and the owner drains only what it has joined (`OwnerKnows`).
`NoLostWakeup` then has two cases, the flag that is set before the notification
and the counter that reaches zero before it.

*Opener.* `OpenerInv` says for each point of the call how many milestones were
reported, which requests and identities were tried and which cleanup steps were
made. A handle that was cancelled before the call is seen by its first check
(`EarlySeen`).

*ChildGuard.* Queue and reaper hold each child they own once and no others
(`QueuesExact`), and a guard's thread is inside a cleanup only while it owns its
child (`OwnersPlaced`); `NoChildLost` follows by counting occurrences.

*FixtureServer.* `ServerInv` follows a child from its tracker to the drain of its
session and on to the reaper, and an error from the session that had it to the
worker's completion and the owner's result: success is only claimed when no such
error was recorded.

*FixtureForwards.* A bridge that was not aborted belongs to a forward that still
listens (`BridgesKept`).

*FixtureServices, channels, sink, echo server.* The handler holds only open
channels, and an open shell is a request that has not run its command. A sink
between two lines has stored what it announced, and inside a file one less. Of
the echo server's threads, `EchoInv` says at each point of the stop who has
them.

*FixtureServices, sandbox.* `SandboxInv` says that what is outside is there as it
was, path by path and place by place; that neither a path inside nor an open
handle shares a place with a file outside; and that a path the sink has resolved
and not yet written is inside and no link. Each request is then three facts: what
it does to the tree (`TreeStep`), to the disk (`DiskStep`) and to the handles
(`HandleStep`). A rename moves paths, for which the lemmas on prefixes show that
what is moved stays inside.

*FixtureServices, source.* The agenda is the rest of a depth-first walk.
`Mirroring` says that there is a directory before each item (`pre`) such that the
first is where the client is, each item leads to the next one's, the last to the
top; and that the files seen together with those the items will bring (`Pending`)
are the files below the target. A C record moves one file from pending to seen
(`AdvanceFile`); a D record replaces an item by its entries and the closing E,
which bring the same files, because a name list that leads from a directory to a
file is a name of an entry and a list that leads on from there (`AdvanceDir`,
`LeadingDir`); an E record brings none (`AdvanceEnd`). With the agenda empty the
client has seen everything and is at the top.

*ClientLibrary.* The parts share no variable, so their invariants are proved one
by one: the runtime's lock is held by at most the one thread that builds, the
sequential runner's bytes are consecutive, and what the parser has stored is what
was typed so far (`ParsedSoFar`).

*ClientLibrary, quoting.* `QuotingInv` is kept character by character as the
arguments are typed: just before the last closing quote each reader is inside the
quotes, with all the arguments but the last as words and the last one in hand.
One more character goes in at that place, and one more argument after the closing
quote; lemmas say what the readers make of either.

*Recursion.* The library's induction takes a predicate, which the provers cannot
instantiate. `SetInduction` states it for a set: one that contains 0 and with n
also n + 1 contains every number. From it follows that a recursive function over
0..n exists, is unique and grows with the sequence it reads, which is all that
the proofs about `Scan`, `Seen`, `Walk`, `Listed` and `Canonical` need.

`TypeOK`, `InputInOrder` and `OutputIsPrefix` are proved and have no run of their
own: every instance is covered by the theorem, and `ImplementsSession` contains
the order of both directions.

**Model-checked only.**

* All liveness (`EndReturns`, `CancelReturns`, `ShutdownReturns`, `CallEnds`,
  `CallsReturn`, `DeferredReaped`, `StopReturns`, `SessionEndEndsAll`,
  `EchoStopEndsAll`, `CloseEndsRun`): fairness and ENABLED are outside what the
  proof system handles.

Every safety invariant of a passing run, and the refinement, have a theorem.

## 5. Findings

1. A Cancel event does not stop the output pump: it reads without looking at the
   flag, so that a silent remote keeps the runner for ever, although the doc
   says that Cancel stops both pumps (`lib.rs:609`).
2. `input_bytes` is not exact: packets of a chunk whose write was cut by the
   cancellation are not counted (`lib.rs:637`).
3. An empty data message ends the copy, because a read of 0 means the end; what
   follows, exit metadata included, is lost from an Ok outcome (`lib.rs:593`).
   Findings 2 and 3 have no run of their own; SessionPump keeps the behaviour:
   `InputAccounting` allows the lag of finding 2 and no more, and setting
   `MsgLens` to {0, 2} shows finding 3 as a violation of `OkIsComplete`.
4. Two connections verified at once may both find the endpoint unknown; the
   second key is then accepted although the first is on record by
   then (`russh_client.rs:1841`).
5. `open_direct_tcpip_channel` does not look at the cancellation handle
   installed for "the complete connection operation" (`russh_client.rs:988`).
   It has no run of its own: `Cancellable` in Opener shows the difference.
6. `finish_input` of the compatibility halves sends nothing, although the trait
   says that it sends EOF (`lib.rs:934`, `lib.rs:770`).
7. A command of whitespace only is refused, while the doc speaks of empty tokens
   (`lib.rs:418`, `lib.rs:414`).
8. Without a configured `known_hosts`, a key of an algorithm that has no record is
   unknown and may be accepted, although the endpoint has a key of another
   algorithm on record: the look that finds this in a configured file
   (`russh_client.rs:1802`) is missing at line 1816, and the comment at line 1841
   says that a changed key must never be accepted. It has no run of its own:
   `RecordedKeyOnly` in the place of `ChangedNeverAccepted` in `HostKey.cfg` fails
   in three steps.

## 6. Not modelled

* Configuration and secrets beyond what the command line calls: plain values,
  builders and a `Debug` that redacts.
* Shared types, discovery of OpenSSH, temporary homes, markers, `redirect.rs` and
  the CI script: set-up done once, without state that two parties share.
* The agent fixture beyond its tasks in FixtureServer, and the set-up of the
  fixture server before its worker is spawned.
* Data without consequence for control: captured output and its redaction, bytes
  copied by bridges, permissions and times of files, the wording of control
  lines and messages.
* Requests of a client of the fixture server once SCP or SFTP has begun on one of
  its channels: the handler goes on serving the others, which the service never
  meets.
* What becomes of a channel after its close: a further request, or data, may
  finish a command on it again, in the code as in the model, and nothing is
  claimed about that.
* Of `wait`'s promise of TimedOut "only after killing and reaping" a child, the
  killing: a kill may fail before the child exits by itself. `ResultTruthful`
  speaks of the reaping.
* Blanks around user or host, which `try_new` trims off: the destinations of
  CommandLine have none, or nothing but a blank.
* Keepalive and the uncancellable writes, which no runner calls; panics of the
  session's pumps; poisoned locks of the mutex halves.
* russh, tokio, threads and the operating system are external: they appear as
  what they may answer.

## 7. Plan

Every module of the plan is written, every safety invariant of a passing run is
proved, and so is the refinement. What is left to TLC is liveness. The next
parts worth a model, if the code grows, are the configuration of captured output
in the child guard and the agent fixture's protocol.
