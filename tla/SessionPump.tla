---------------------------- MODULE SessionPump ----------------------------
(***************************************************************************)
(* The full-duplex shell runner of rssh-ssh: run_split_shell_with_events   *)
(* over the native russh halves.  Two threads share one cancellation flag: *)
(*                                                                         *)
(*   - the input pump takes events from the bounded local queue and drives *)
(*     the channel writer (RusshChannelWriter, RusshWriterLifecycle);      *)
(*   - the calling thread copies the channel reader (RusshChannelReader)   *)
(*     to the local output, then cancels and joins the input pump, closes  *)
(*     the writer and returns.                                             *)
(*                                                                         *)
(* The application that feeds the queue, the remote peer and the link are  *)
(* the environment.  Data is abstracted to byte numbers: the n-th byte the *)
(* application hands over is n, the n-th byte the remote sends is n, and   *)
(* one byte is one channel packet and one unit of flow-control window.     *)
(***************************************************************************)
EXTENDS Naturals, Sequences

CONSTANTS
    QueueCapacity,      \* the capacity asked of ssh_input_event_channel
    EventKinds,         \* the kinds of event the application sends
    DataLens,           \* lengths of local data chunks
    MaxEvents,          \* bound: events the application sends
    MsgLens,            \* lengths of the data messages the remote sends
    BufLen,             \* length of copy_session_to_output's buffer
    MaxMsgs,            \* bound: messages the remote sends before Close
    MaxWindow,          \* bound: unused flow-control window
    ExitStatuses,       \* remote exit statuses
    ExitSignals,        \* remote exit signals
    InactivityTimeout   \* is a channel inactivity timeout configured?

ASSUME CapacityAssumption == QueueCapacity \in Nat
ASSUME KindsAssumption ==
    EventKinds \subseteq {"data", "resize", "cancel", "eof", "error"}
ASSUME LensAssumption == DataLens \subseteq Nat /\ MsgLens \subseteq Nat
ASSUME BufLenAssumption == BufLen \in Nat \ {0}
ASSUME BoundsAssumption ==
    MaxEvents \in Nat /\ MaxMsgs \in Nat /\ MaxWindow \in Nat
ASSUME TimeoutAssumption == InactivityTimeout \in BOOLEAN

VARIABLES
    queue,          \* the bounded local-input channel
    sender,         \* does the application still hold the sending half?
    events,         \* events the application has sent
    offered,        \* bytes the application has handed over
    cancelled,      \* SshCancellation
    ipc,            \* where the input pump is
    ev,             \* the event it is handling
    written,        \* bytes of ev already given to the channel
    inputBytes,     \* its byte count
    inputResult,    \* what pump_input_events returned
    emergency,      \* result of the close the pump makes on an error
    writer,         \* RusshWriterLifecycle: closed implies input_finished
    toServer,       \* what the writer half has handed to the transport
    window,         \* flow-control window the remote has granted
    link,           \* is the SSH transport alive?
    fromServer,     \* channel messages not yet taken by the reader half
    served,         \* what the remote has sent so far
    msgs,           \* messages it has sent
    opc,            \* where the calling thread is
    pending,        \* pending_read of the reader half
    finished,       \* the reader half has seen the end of the channel
    result,         \* exit metadata kept by the reader half
    chunk,          \* bytes read and not yet written to the local output
    sink,           \* the local output
    outputBytes,    \* the runner's byte count
    outputResult,   \* what copy_session_to_output returned
    returned        \* what the runner returned

appVars    == <<queue, sender, events, offered>>
pumpVars   == <<ipc, ev, written, inputBytes, inputResult, emergency>>
wireVars   == <<toServer, window, link>>
remoteVars == <<fromServer, served, msgs>>
readVars   == <<pending, finished, result>>
outVars    == <<opc, chunk, sink, outputBytes, outputResult, returned>>
vars == <<appVars, cancelled, pumpVars, writer, wireVars, remoteVars,
          readVars, outVars>>

None == "none"

\* Events carry the first byte and the length of their data; the other kinds
\* have length 0.
Events == [kind : {"data", "resize", "cancel", "eof", "error"},
           first : Nat, len : Nat]
NoEvent == [kind |-> "eof", first |-> 1, len |-> 0]
Results == [status : ExitStatuses \cup {None}, signal : ExitSignals \cup {None}]
Messages == [kind : {"data"}, bytes : Seq(Nat)]
       \cup [kind : {"status"}, value : ExitStatuses]
       \cup [kind : {"signal"}, value : ExitSignals]
       \cup [kind : {"other", "close"}]
Packets == [kind : {"data", "resize", "eof", "close"}, byte : Nat]

\* sync_channel(capacity.max(1)): a capacity of zero is normalised to one.
Capacity == IF QueueCapacity = 0 THEN 1 ELSE QueueCapacity

Init ==
    /\ queue = <<>> /\ sender = "held" /\ events = 0 /\ offered = 0
    /\ cancelled = FALSE
    /\ ipc = "check" /\ ev = NoEvent /\ written = 0 /\ inputBytes = 0
    /\ inputResult = None /\ emergency = None
    /\ writer = "open"
    /\ toServer = <<>> /\ window = 0 /\ link = "up"
    /\ fromServer = <<>>
    /\ served = [bytes |-> 0, phase |-> "open", status |-> None,
                 signal |-> None]
    /\ msgs = 0
    /\ pending = <<>> /\ finished = FALSE
    /\ result = [status |-> None, signal |-> None]
    /\ opc = "read" /\ chunk = <<>> /\ sink = <<>> /\ outputBytes = 0
    /\ outputResult = None /\ returned = None

-----------------------------------------------------------------------------
(* The application (for the rssh command, its stdin broker thread).  The   *)
(* receiver lives as long as the input pump's closure, so send fails, and  *)
(* the broker stops, once the pump is done.                                *)

Send(kind, len) ==
    /\ sender = "held" /\ ipc # "done"
    /\ events < MaxEvents
    /\ Len(queue) < Capacity
    /\ queue' = Append(queue, [kind |-> kind, first |-> offered + 1, len |-> len])
    /\ offered' = offered + len
    /\ events' = events + 1
    /\ UNCHANGED <<sender, cancelled, pumpVars, writer, wireVars, remoteVars,
                   readVars, outVars>>

SendEvent == \E kind \in EventKinds :
                \E len \in IF kind = "data" THEN DataLens ELSE {0} :
                    Send(kind, len)

\* The sending half is dropped: after Eof or Error, after a failed send, or
\* whenever the embedding application lets go of it.
DropSender ==
    /\ sender = "held"
    /\ sender' = "dropped"
    /\ UNCHANGED <<queue, events, offered, cancelled, pumpVars, writer,
                   wireVars, remoteVars, readVars, outVars>>

-----------------------------------------------------------------------------
(* The remote peer and the link.                                           *)

Deliver(msg) == fromServer' = Append(fromServer, msg)

RemoteMayTalk == link = "up" /\ served.phase # "closed" /\ msgs < MaxMsgs

RemoteData ==
    /\ RemoteMayTalk /\ served.phase = "open"
    /\ \E n \in MsgLens :
        /\ Deliver([kind |-> "data",
                    bytes |-> [i \in 1..n |-> served.bytes + i]])
        /\ served' = [served EXCEPT !.bytes = @ + n]
    /\ msgs' = msgs + 1
    /\ UNCHANGED <<appVars, cancelled, pumpVars, writer, wireVars, readVars,
                   outVars>>

RemoteExitStatus ==
    /\ RemoteMayTalk
    /\ \E s \in ExitStatuses :
        /\ Deliver([kind |-> "status", value |-> s])
        /\ served' = [served EXCEPT !.status = s]
    /\ msgs' = msgs + 1
    /\ UNCHANGED <<appVars, cancelled, pumpVars, writer, wireVars, readVars,
                   outVars>>

RemoteExitSignal ==
    /\ RemoteMayTalk
    /\ \E s \in ExitSignals :
        /\ Deliver([kind |-> "signal", value |-> s])
        /\ served' = [served EXCEPT !.signal = s]
    /\ msgs' = msgs + 1
    /\ UNCHANGED <<appVars, cancelled, pumpVars, writer, wireVars, readVars,
                   outVars>>

RemoteEof ==
    /\ link = "up" /\ served.phase = "open"
    /\ Deliver([kind |-> "other"])
    /\ served' = [served EXCEPT !.phase = "eof"]
    /\ UNCHANGED <<msgs, appVars, cancelled, pumpVars, writer, wireVars, readVars,
                   outVars>>

RemoteClose ==
    /\ link = "up" /\ served.phase # "closed"
    /\ Deliver([kind |-> "close"])
    /\ served' = [served EXCEPT !.phase = "closed"]
    /\ UNCHANGED <<msgs, appVars, cancelled, pumpVars, writer, wireVars, readVars,
                   outVars>>

GrantWindow ==
    /\ link = "up" /\ window < MaxWindow
    /\ window' = window + 1
    /\ UNCHANGED <<appVars, cancelled, pumpVars, writer, toServer, link,
                   remoteVars, readVars, outVars>>

LinkDown ==
    /\ link = "up"
    /\ link' = "down"
    /\ UNCHANGED <<appVars, cancelled, pumpVars, writer, toServer, window,
                   remoteVars, readVars, outVars>>

-----------------------------------------------------------------------------
(* The writer half.                                                        *)

WriteAllowed == writer = "open"

Transmit(kind, byte) ==
    toServer' = Append(toServer, [kind |-> kind, byte |-> byte])

\* Mutant: close is not remembered.
ForgetClosed == writer' = "input_finished"

MarkClosed == writer' = "closed"

MarkInputFinished == writer' = "input_finished"

\* close_channel: nothing to do when already closed; otherwise the close is
\* sent and recorded, or fails (and is not recorded) when the link is gone.
CloseChannel(outcome) ==
    \/ /\ writer = "closed"
       /\ outcome = "ok"
       /\ UNCHANGED <<writer, toServer>>
    \/ /\ writer # "closed" /\ link = "up"
       /\ outcome = "ok"
       /\ Transmit("close", 0)
       /\ MarkClosed
    \/ /\ writer # "closed" /\ link = "down"
       /\ outcome = "err"
       /\ UNCHANGED <<writer, toServer>>

\* finish_input_blocking: channel EOF, once and never after close.
FinishInput(outcome) ==
    \/ /\ ~WriteAllowed
       /\ outcome = "ok"
       /\ UNCHANGED <<writer, toServer>>
    \/ /\ WriteAllowed /\ link = "up"
       /\ outcome = "ok"
       /\ Transmit("eof", 0)
       /\ MarkInputFinished
    \/ /\ WriteAllowed /\ link = "down"
       /\ outcome = "err"
       /\ UNCHANGED <<writer, toServer>>

-----------------------------------------------------------------------------
(* The input pump.                                                         *)

PumpReturns(outcome) ==
    /\ inputResult' = outcome
    /\ ipc' = IF outcome = "ok" THEN "done" ELSE "emergency"

\* recv_cancellable: look at the flag, then wait for an event for 20 ms.
CheckCancelled ==
    /\ ipc = "check"
    /\ IF cancelled THEN PumpReturns("ok")
                    ELSE ipc' = "recv" /\ UNCHANGED inputResult
    /\ UNCHANGED <<appVars, cancelled, ev, written, inputBytes, emergency,
                   writer, wireVars, remoteVars, readVars, outVars>>

RecvEvent ==
    /\ ipc = "recv" /\ queue # <<>>
    /\ ev' = Head(queue)
    /\ queue' = Tail(queue)
    /\ ipc' = "recheck"
    /\ UNCHANGED <<sender, events, offered, cancelled, written, inputBytes,
                   inputResult, emergency, writer, wireVars, remoteVars,
                   readVars, outVars>>

RecvDisconnected ==
    /\ ipc = "recv" /\ queue = <<>> /\ sender = "dropped"
    /\ ev' = [kind |-> "eof", first |-> offered + 1, len |-> 0]
    /\ ipc' = "recheck"
    /\ UNCHANGED <<appVars, cancelled, written, inputBytes, inputResult,
                   emergency, writer, wireVars, remoteVars, readVars, outVars>>

RecvTimeout ==
    /\ ipc = "recv" /\ queue = <<>> /\ sender = "held"
    /\ ipc' = "check"
    /\ UNCHANGED <<appVars, cancelled, ev, written, inputBytes, inputResult,
                   emergency, writer, wireVars, remoteVars, readVars, outVars>>

\* Where pump_input_events goes for an event: an empty chunk is written
\* without a call of the writer.
Handler(e) ==
    CASE e.kind = "data" /\ e.len > 0 -> "write"
      [] e.kind = "data" /\ e.len = 0 -> "check"
      [] e.kind = "resize"            -> "resize"
      [] e.kind = "cancel"            -> "cancel"
      [] e.kind = "eof"               -> "finish"

\* input_event_after_wakeup looks at the flag again; an Error event ends the
\* pump without a call of the writer.
Dispatch ==
    /\ ipc = "recheck"
    /\ \/ cancelled /\ PumpReturns("ok")
       \/ ~cancelled /\ ev.kind = "error" /\ PumpReturns("err")
       \/ ~cancelled /\ ev.kind # "error" /\ ipc' = Handler(ev)
                                          /\ UNCHANGED inputResult
    /\ UNCHANGED <<appVars, cancelled, ev, written, inputBytes, emergency,
                   writer, wireVars, remoteVars, readVars, outVars>>

\* Mutant: every write starts again at the beginning of the chunk.
RestartedByte == ev.first

\* The byte &bytes[written..] begins with.
NextByte == ev.first + written

\* Mutant: the last packet is left out of the count.
CountedShort == inputBytes + written

\* input_bytes once a whole chunk has been written.
Counted == inputBytes + ev.len

\* write_all_to_shell through write_cancellable: one packet of the chunk is
\* sent as the window allows.  The flag is loaded before each poll of the
\* write, so the calling thread may set it between the load and the packet.
SendPacket ==
    /\ ipc = "write"
    /\ WriteAllowed /\ link = "up" /\ window > 0
    /\ Transmit("data", NextByte)
    /\ window' = window - 1
    /\ IF written + 1 = ev.len
       THEN /\ written' = 0
            /\ inputBytes' = Counted
            /\ ipc' = "check"
       ELSE /\ written' = written + 1
            /\ UNCHANGED <<inputBytes, ipc>>
    /\ UNCHANGED <<appVars, cancelled, ev, inputResult, emergency, writer,
                   link, remoteVars, readVars, outVars>>

\* Ok(None): the chunk is abandoned, the packets already sent stay sent.
WriteCancelled ==
    /\ ipc = "write" /\ cancelled
    /\ PumpReturns("ok")
    /\ UNCHANGED <<appVars, cancelled, ev, written, inputBytes, emergency,
                   writer, wireVars, remoteVars, readVars, outVars>>

\* data_bytes fails when the session task behind the channel is gone.
WriteFails ==
    /\ ipc = "write" /\ link = "down"
    /\ PumpReturns("err")
    /\ UNCHANGED <<appVars, cancelled, ev, written, inputBytes, emergency,
                   writer, wireVars, remoteVars, readVars, outVars>>

\* resize_cancellable: window_change needs no window, only the link.
Resize ==
    /\ ipc = "resize"
    /\ \/ cancelled /\ PumpReturns("ok") /\ UNCHANGED toServer
       \/ link = "up" /\ Transmit("resize", 0) /\ ipc' = "check" /\ UNCHANGED inputResult
       \/ link = "down" /\ PumpReturns("err") /\ UNCHANGED toServer
    /\ UNCHANGED <<appVars, cancelled, ev, written, inputBytes, emergency,
                   writer, window, link, remoteVars, readVars, outVars>>

\* SshInputEvent::Cancel sets the flag, then closes the writer.
HandleCancel ==
    /\ ipc = "cancel"
    /\ cancelled' = TRUE
    /\ ipc' = "close"
    /\ UNCHANGED <<appVars, ev, written, inputBytes, inputResult, emergency,
                   writer, wireVars, remoteVars, readVars, outVars>>

\* Mutant: Cancel leaves the channel open.
CancelWithoutClose ==
    /\ ipc = "close"
    /\ PumpReturns("ok")
    /\ UNCHANGED <<appVars, cancelled, ev, written, inputBytes, emergency,
                   writer, wireVars, remoteVars, readVars, outVars>>

CloseOnCancel ==
    /\ ipc = "close"
    /\ \E outcome \in {"ok", "err"} : CloseChannel(outcome) /\ PumpReturns(outcome)
    /\ UNCHANGED <<appVars, cancelled, ev, written, inputBytes, emergency,
                   window, link, remoteVars, readVars, outVars>>

HandleEof ==
    /\ ipc = "finish"
    /\ \E outcome \in {"ok", "err"} : FinishInput(outcome) /\ PumpReturns(outcome)
    /\ UNCHANGED <<appVars, cancelled, ev, written, inputBytes, emergency,
                   window, link, remoteVars, readVars, outVars>>

\* Mutant: the pump ends on an error without closing.
EndWithoutClose ==
    /\ ipc = "emergency"
    /\ emergency' = "ok"
    /\ ipc' = "done"
    /\ UNCHANGED <<appVars, cancelled, ev, written, inputBytes, inputResult,
                   writer, wireVars, remoteVars, readVars, outVars>>

\* On an error the pump thread closes the writer itself before it ends.
EmergencyClose ==
    /\ ipc = "emergency"
    /\ \E outcome \in {"ok", "err"} : CloseChannel(outcome) /\ emergency' = outcome
    /\ ipc' = "done"
    /\ UNCHANGED <<appVars, cancelled, ev, written, inputBytes, inputResult,
                   window, link, remoteVars, readVars, outVars>>

InputPump ==
    \/ CheckCancelled \/ RecvEvent \/ RecvDisconnected \/ RecvTimeout
    \/ Dispatch \/ SendPacket \/ WriteCancelled \/ WriteFails \/ Resize
    \/ HandleCancel \/ CloseOnCancel \/ HandleEof \/ EmergencyClose

-----------------------------------------------------------------------------
(* The calling thread: copy_session_to_output, then the end of the run.    *)

\* fill_from_pending: the bytes a read hands over, and the ones it leaves.
Filled(bytes) == IF Len(bytes) <= BufLen THEN bytes ELSE SubSeq(bytes, 1, BufLen)

Left(bytes)   == IF Len(bytes) <= BufLen THEN <<>>
                 ELSE SubSeq(bytes, BufLen + 1, Len(bytes))

\* The reader half may wait for a channel message.
Waiting == opc = "read" /\ pending = <<>>

CopyEnds(outcome) == outputResult' = outcome /\ opc' = "cancel"

ReadPending ==
    /\ opc = "read" /\ pending # <<>>
    /\ chunk' = Filled(pending)
    /\ pending' = Left(pending)
    /\ opc' = "write"
    /\ UNCHANGED <<appVars, cancelled, pumpVars, writer, wireVars, remoteVars,
                   finished, result, sink, outputBytes, outputResult, returned>>

\* A data message.  A read of zero bytes ends the copy.
ReadData ==
    /\ Waiting /\ fromServer # <<>> /\ Head(fromServer).kind = "data"
    /\ fromServer' = Tail(fromServer)
    /\ chunk' = Filled(Head(fromServer).bytes)
    /\ pending' = Left(Head(fromServer).bytes)
    /\ IF chunk' = <<>> THEN CopyEnds("ok")
                        ELSE opc' = "write" /\ UNCHANGED outputResult
    /\ UNCHANGED <<appVars, cancelled, pumpVars, writer, wireVars, served, msgs,
                   finished, result, sink, outputBytes, returned>>

\* apply_channel_message on metadata and on messages that carry none: the
\* read goes on waiting.
ReadMetadata ==
    /\ Waiting /\ fromServer # <<>>
    /\ Head(fromServer).kind \in {"status", "signal", "other"}
    /\ fromServer' = Tail(fromServer)
    /\ result' = CASE Head(fromServer).kind = "status" ->
                        [result EXCEPT !.status = Head(fromServer).value]
                   [] Head(fromServer).kind = "signal" ->
                        [result EXCEPT !.signal = Head(fromServer).value]
                   [] OTHER -> result
    /\ UNCHANGED <<appVars, cancelled, pumpVars, writer, wireVars, served, msgs,
                   pending, finished, outVars>>

\* Mutant: the remote's EOF is taken for the end of the channel.
EofEndsChannel(msg) == msg.kind \in {"close", "other"}

EndsChannel(msg) == msg.kind = "close"

\* Close, or no more messages because the transport is gone.
ReadEnd ==
    /\ Waiting
    /\ \/ fromServer # <<>> /\ EndsChannel(Head(fromServer))
          /\ fromServer' = Tail(fromServer)
       \/ fromServer = <<>> /\ link = "down" /\ UNCHANGED fromServer
    /\ finished' = TRUE
    /\ CopyEnds("ok")
    /\ UNCHANGED <<appVars, cancelled, pumpVars, writer, wireVars, served, msgs,
                   pending, result, chunk, sink, outputBytes, returned>>

ReadTimesOut ==
    /\ Waiting /\ fromServer = <<>> /\ InactivityTimeout
    /\ CopyEnds("err")
    /\ UNCHANGED <<appVars, cancelled, pumpVars, writer, wireVars, remoteVars,
                   readVars, chunk, sink, outputBytes, returned>>

\* write_all and flush, then the bytes are counted.
WriteOutput ==
    /\ opc = "write"
    /\ sink' = sink \o chunk
    /\ outputBytes' = outputBytes + Len(chunk)
    /\ chunk' = <<>>
    /\ opc' = "read"
    /\ UNCHANGED <<appVars, cancelled, pumpVars, writer, wireVars, remoteVars,
                   readVars, outputResult, returned>>

\* write_all fails after some prefix of the chunk, or flush after all of it.
OutputFails ==
    /\ opc = "write"
    /\ \E n \in 0..Len(chunk) : sink' = sink \o SubSeq(chunk, 1, n)
    /\ chunk' = <<>>
    /\ CopyEnds("err")
    /\ UNCHANGED <<appVars, cancelled, pumpVars, writer, wireVars, remoteVars,
                   readVars, outputBytes, returned>>

\* Mutant: the flag is not set when the copy ends.
EndWithoutCancel ==
    /\ opc = "cancel"
    /\ opc' = "join"
    /\ UNCHANGED <<appVars, cancelled, pumpVars, writer, wireVars, remoteVars,
                   readVars, chunk, sink, outputBytes, outputResult, returned>>

CancelInput ==
    /\ opc = "cancel"
    /\ cancelled' = TRUE
    /\ opc' = "join"
    /\ UNCHANGED <<appVars, pumpVars, writer, wireVars, remoteVars, readVars,
                   chunk, sink, outputBytes, outputResult, returned>>

\* Mutant: the runner does not wait for the pump.
DetachPump ==
    /\ opc = "join"
    /\ opc' = "close"
    /\ UNCHANGED <<appVars, cancelled, pumpVars, writer, wireVars, remoteVars,
                   readVars, chunk, sink, outputBytes, outputResult, returned>>

Join ==
    /\ opc = "join" /\ ipc = "done"
    /\ opc' = "close"
    /\ UNCHANGED <<appVars, cancelled, pumpVars, writer, wireVars, remoteVars,
                   readVars, chunk, sink, outputBytes, outputResult, returned>>

\* The result of the run: output error, then input error, then close error.
Verdict(closeResult) ==
    CASE outputResult = "err" -> "output"
      [] outputResult # "err" /\ inputResult = "err" -> "input"
      [] outputResult # "err" /\ inputResult # "err" /\ closeResult = "err" -> "close"
      [] OTHER -> "ok"

\* The writer comes back from the joined thread; it is closed here unless the
\* pump has closed it on an error.
CloseAndReturn ==
    /\ opc = "close"
    /\ \E closeResult \in {"ok", "err"} :
        /\ IF inputResult = "err"
           THEN closeResult = emergency /\ UNCHANGED <<writer, toServer>>
           ELSE CloseChannel(closeResult)
        /\ returned' = Verdict(closeResult)
    /\ opc' = "returned"
    /\ UNCHANGED <<appVars, cancelled, pumpVars, window, link, remoteVars,
                   readVars, chunk, sink, outputBytes, outputResult>>

OutputPump ==
    \/ ReadPending \/ ReadData \/ ReadMetadata \/ ReadEnd \/ ReadTimesOut
    \/ WriteOutput \/ OutputFails \/ CancelInput \/ Join \/ CloseAndReturn

-----------------------------------------------------------------------------
Application == SendEvent \/ DropSender

Remote == \/ RemoteData \/ RemoteExitStatus \/ RemoteExitSignal \/ RemoteEof
          \/ RemoteClose \/ GrantWindow

\* The runner's return drops both halves: the environment no longer matters.
Environment == returned = None /\ (Application \/ Remote \/ LinkDown)

Next == Environment \/ InputPump \/ OutputPump

Spec == Init /\ [][Next]_vars

\* Both threads of the client run; nothing is assumed of the application,
\* the remote or the link.
FairSpec == Spec /\ WF_vars(InputPump) /\ WF_vars(OutputPump)

\* A conforming remote answers the client's Close with its own.
AnswerClose == returned = None /\ writer = "closed" /\ RemoteClose

-----------------------------------------------------------------------------
(* Properties.                                                             *)

PumpPoints == {"check", "recv", "recheck", "write", "resize", "cancel",
               "close", "finish", "emergency", "done"}
MainPoints == {"read", "write", "cancel", "join", "close", "returned"}

\* The type of every variable of the runner, its queue and its environment.
TypeOK ==
    /\ queue \in Seq(Events) /\ Len(queue) <= Capacity /\ sender \in {"held", "dropped"}
    /\ events \in Nat /\ offered \in Nat
    /\ cancelled \in BOOLEAN
    /\ ipc \in PumpPoints /\ ev \in Events
    /\ written \in Nat /\ inputBytes \in Nat
    /\ inputResult \in {None, "ok", "err"} /\ emergency \in {None, "ok", "err"}
    /\ writer \in {"open", "input_finished", "closed"}
    /\ toServer \in Seq(Packets) /\ window \in Nat /\ link \in {"up", "down"}
    /\ fromServer \in Seq(Messages)
    /\ msgs \in Nat
    /\ served \in [bytes : Nat, phase : {"open", "eof", "closed"},
                   status : ExitStatuses \cup {None},
                   signal : ExitSignals \cup {None}]
    /\ opc \in MainPoints
    /\ pending \in Seq(Nat) /\ finished \in BOOLEAN /\ result \in Results
    /\ chunk \in Seq(Nat) /\ sink \in Seq(Nat) /\ outputBytes \in Nat
    /\ outputResult \in {None, "ok", "err"}
    /\ returned \in {None, "ok", "output", "input", "close"}

\* What the client may put on the channel, whichever thread does it: nothing
\* follows its Close, nothing but Close follows its EOF.
WireDiscipline ==
    \A i \in 1..Len(toServer) : \A j \in 1..(i - 1) :
        /\ toServer[j].kind # "close"
        /\ toServer[j].kind = "eof" => toServer[i].kind = "close"

\* The bytes of the application that the channel has accepted.
DataAt(i) == toServer[i].kind = "data"
WireBytes == {toServer[i].byte : i \in {k \in 1..Len(toServer) : DataAt(k)}}

\* input_bytes counts whole chunks: it equals the bytes the channel accepted
\* but for the part of the one chunk that is being written or whose write was
\* interrupted, and the accepted bytes are the first ones handed over.
InputAccounting ==
    /\ WireBytes = 1..(inputBytes + written)
    /\ written > 0 => ev.kind = "data" /\ written < ev.len

\* They are on the channel in the order they were handed over, none twice.
InputInOrder ==
    \A i \in 1..Len(toServer) : \A j \in 1..(i - 1) :
        DataAt(i) /\ DataAt(j) => toServer[j].byte < toServer[i].byte

\* A run that returns Ok has drained the channel to its end, has written
\* every byte the remote sent, in order, has counted them all, and reports the
\* last exit status and the last exit signal the remote sent.
OkIsComplete ==
    returned = "ok" =>
        /\ finished
        /\ sink = [i \in 1..served.bytes |-> i]
        /\ outputBytes = served.bytes
        /\ result.status = served.status /\ result.signal = served.signal

\* Whatever the run returns, local output is a prefix of what the remote sent
\* and is never over-counted.
OutputIsPrefix ==
    /\ Len(sink) <= served.bytes
    /\ \A i \in 1..Len(sink) : sink[i] = i
    /\ outputBytes <= Len(sink)

\* On every path out of the runner, error or not, the channel has been closed
\* if the link still stands.
ChannelReleased ==
    returned # None /\ link = "up" =>
        toServer # <<>> /\ toServer[Len(toServer)].kind = "close"

\* Once the runner has returned, no thread it started touches the channel, the
\* writer or the local output again.
QuietAfterReturn ==
    [][returned # None => UNCHANGED <<toServer, writer, sink, cancelled, ipc>>]_vars

\* Remote Close, the loss of the link, or a failure of the local output or of
\* the read ends the run, although the input pump may be idle or waiting for
\* window that never comes.
EndReturns ==
    (served.phase = "closed" \/ link = "down" \/ outputResult = "err") ~> (returned # None)

\* Cancel ends the run when the remote answers Close with Close.
CancelReturns ==
    WF_vars(AnswerClose) => ((ipc = "close") ~> (returned # None))

\* "Cancel the active connection and stop both input and output pumps"
\* (SshInputEvent::Cancel): once handled, the output pump ends.
CancelStopsOutputPump == (ipc = "close") ~> (opc # "read")

-----------------------------------------------------------------------------
(* Strengthenings that make the properties above inductive.                *)

\* The writer belongs to one thread at a time: the pump has given it up when
\* it has finished the input or closed the channel, and the calling thread
\* takes it only after the join.
Ownership ==
    /\ writer # "open" => ipc = "done"
    /\ opc \in {"close", "returned"} => ipc = "done"
    /\ returned # None <=> opc = "returned"
    /\ opc \in {"join", "close", "returned"} => cancelled

\* What the lifecycle remembers is what is on the wire.
LifecycleMatchesWire ==
    /\ \A i \in 1..Len(toServer) :
        /\ toServer[i].kind = "close" => writer = "closed"
        /\ toServer[i].kind = "eof" => writer # "open"
    /\ writer = "closed" =>
        toServer # <<>> /\ toServer[Len(toServer)].kind = "close"

\* A pump that ends in error has tried to close, and so has the runner.
CloseAttempted ==
    /\ inputResult = "err" /\ ipc = "done" /\ link = "up" => writer = "closed"
    /\ opc = "returned" /\ link = "up" => writer = "closed"
    /\ ipc = "done" => inputResult \in {"ok", "err"}
    /\ ipc = "emergency" => inputResult = "err"

WireInv == Ownership /\ LifecycleMatchesWire /\ CloseAttempted /\ WireDiscipline

\* While the pump takes events, the event in hand and the queue are the
\* consecutive stretches of bytes that follow the ones already written.
Pumping == ipc \in {"check", "recv", "recheck", "write", "resize"}
InHand  == IF ipc \in {"recheck", "write"} THEN ev.len ELSE 0
QueueIsConsecutive ==
    /\ ev.kind # "data" => ev.len = 0
    /\ \A i \in 1..Len(queue) : queue[i].kind # "data" => queue[i].len = 0
    /\ Pumping /\ ipc # "write" => written = 0
    /\ ipc = "write" => written < ev.len
    /\ Pumping /\ ipc \in {"recheck", "write"} => ev.first = inputBytes + 1
    /\ Pumping =>
        /\ queue = <<>> => offered = inputBytes + InHand
        /\ queue # <<>> =>
            /\ queue[1].first = inputBytes + InHand + 1
            /\ queue[Len(queue)].first + queue[Len(queue)].len = offered + 1
        /\ \A i \in 1..(Len(queue) - 1) :
            queue[i + 1].first = queue[i].first + queue[i].len

InputInv == QueueIsConsecutive /\ InputAccounting /\ InputInOrder

\* While the copy has not failed, what is on its way from the remote to the
\* local output is one stretch of bytes: the output, the chunk in hand, the
\* bytes a read left, and the data messages, each where the one before it ends.
MessageBytes(msg) == IF msg.kind = "data" THEN Len(msg.bytes) ELSE 0
Arriving(start) ==
    /\ start[1] = Len(sink) + Len(chunk) + Len(pending)
    /\ start[Len(fromServer) + 1] = served.bytes
    /\ \A i \in 1..Len(fromServer) :
        /\ start[i + 1] = start[i] + MessageBytes(fromServer[i])
        /\ fromServer[i].kind = "data" =>
            /\ fromServer[i].bytes # <<>>
            /\ \A k \in 1..Len(fromServer[i].bytes) : fromServer[i].bytes[k] = start[i] + k
OutputIsConsecutive ==
    /\ \A k \in 1..Len(chunk) : chunk[k] = Len(sink) + k
    /\ \A k \in 1..Len(pending) : pending[k] = Len(sink) + Len(chunk) + k
    /\ outputBytes = Len(sink)
    /\ \E start \in [1..(Len(fromServer) + 1) -> 0..served.bytes] : Arriving(start)

\* The last status and the last signal sent are still to be read, or noted.
MetadataKept ==
    /\ \A i \in 1..Len(fromServer) : fromServer[i].kind = "status" =>
            \/ fromServer[i].value = served.status
            \/ \E j \in (i + 1)..Len(fromServer) : fromServer[j].kind = "status"
    /\ \A i \in 1..Len(fromServer) : fromServer[i].kind = "signal" =>
            \/ fromServer[i].value = served.signal
            \/ \E j \in (i + 1)..Len(fromServer) : fromServer[j].kind = "signal"
    /\ \/ result.status = served.status
       \/ \E j \in 1..Len(fromServer) : fromServer[j].kind = "status"
    /\ \/ result.signal = served.signal
       \/ \E j \in 1..Len(fromServer) : fromServer[j].kind = "signal"

\* Where the copy is, and that nothing comes after the end.
CopyProgress ==
    /\ opc \in {"read", "write"} <=> outputResult = None
    /\ opc = "read" => chunk = <<>>
    /\ outputResult = "ok" => finished /\ chunk = <<>> /\ pending = <<>>
    /\ finished => fromServer = <<>> /\ (served.phase = "closed" \/ link = "down")
    /\ \A i \in 1..Len(fromServer) : fromServer[i].kind = "close" =>
            i = Len(fromServer) /\ served.phase = "closed"
    /\ returned = "ok" => outputResult = "ok"

OutputInv ==
    /\ OutputIsPrefix /\ CopyProgress /\ MetadataKept
    /\ outputResult # "err" => OutputIsConsecutive
=====
