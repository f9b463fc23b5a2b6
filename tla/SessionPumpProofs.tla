------------------------- MODULE SessionPumpProofs -------------------------
(***************************************************************************)
(* Theorems about SessionPump, for every queue capacity, every length of   *)
(* chunk, message and buffer and every bound on the environment.           *)
(***************************************************************************)
EXTENDS SessionRefinement, SequenceTheorems, FiniteSetTheorems, TLAPS

LEMMA CapacityIsPositive == Capacity \in Nat \ {0}
BY CapacityAssumption DEF Capacity

\* The bytes a read hands over and the ones it leaves are sequences of bytes.
LEMMA FilledType ==
    ASSUME NEW bytes \in Seq(Nat)
    PROVE  Filled(bytes) \in Seq(Nat) /\ Left(bytes) \in Seq(Nat)
<1>1. CASE Len(bytes) <= BufLen
  BY <1>1 DEF Filled, Left
<1>2. CASE ~(Len(bytes) <= BufLen)
  <2>1. Len(bytes) \in Nat /\ BufLen < Len(bytes)
    BY <1>2, BufLenAssumption
  <2>2. SubSeq(bytes, 1, BufLen) \in Seq(Nat)
    BY <2>1, BufLenAssumption, SubSeqProperties
  <2>3. SubSeq(bytes, BufLen + 1, Len(bytes)) \in Seq(Nat)
    BY <2>1, BufLenAssumption, SubSeqProperties
  <2> QED BY <1>2, <2>2, <2>3 DEF Filled, Left
<1> QED BY <1>1, <1>2

\* Close and EOF leave the writer and the wire well typed.
LEMMA CloseChannelType ==
    ASSUME NEW outcome, TypeOK, CloseChannel(outcome)
    PROVE  /\ writer' \in {"open", "input_finished", "closed"}
           /\ toServer' \in Seq(Packets)
<1>1. [kind |-> "close", byte |-> 0] \in Packets
  BY DEF Packets
<1>2. Append(toServer, [kind |-> "close", byte |-> 0]) \in Seq(Packets)
  BY <1>1, AppendProperties DEF TypeOK
<1> QED BY <1>2 DEF TypeOK, CloseChannel, Transmit, MarkClosed

LEMMA FinishInputType ==
    ASSUME NEW outcome, TypeOK, FinishInput(outcome)
    PROVE  /\ writer' \in {"open", "input_finished", "closed"}
           /\ toServer' \in Seq(Packets)
<1>1. [kind |-> "eof", byte |-> 0] \in Packets
  BY DEF Packets
<1>2. Append(toServer, [kind |-> "eof", byte |-> 0]) \in Seq(Packets)
  BY <1>1, AppendProperties DEF TypeOK
<1> QED BY <1>2 DEF TypeOK, FinishInput, Transmit, MarkInputFinished

LEMMA InitType == Init => TypeOK
<1> SUFFICES ASSUME Init PROVE TypeOK
  OBVIOUS
<1>1. queue \in Seq(Events) /\ Len(queue) <= Capacity
  BY CapacityIsPositive DEF Init
<1>2. ev \in Events
  BY DEF Init, NoEvent, Events
<1>3. toServer \in Seq(Packets) /\ fromServer \in Seq(Messages)
  BY DEF Init
<1>4. served \in [bytes : Nat, phase : {"open", "eof", "closed"},
                  status : ExitStatuses \cup {None},
                  signal : ExitSignals \cup {None}]
  BY DEF Init
<1>5. result \in Results
  BY DEF Init, Results
<1>6. pending \in Seq(Nat) /\ chunk \in Seq(Nat) /\ sink \in Seq(Nat)
  BY DEF Init
<1> QED BY <1>1, <1>2, <1>3, <1>4, <1>5, <1>6
        DEF Init, TypeOK, PumpPoints, MainPoints

\* The application and the remote preserve the types.
LEMMA EnvironmentType == TypeOK /\ Environment => TypeOK'
<1> SUFFICES ASSUME TypeOK, Environment PROVE TypeOK'
  OBVIOUS
<1> USE DEF TypeOK, appVars, pumpVars, wireVars, remoteVars, readVars, outVars
<1> DEFINE ServedType ==
        [bytes : Nat, phase : {"open", "eof", "closed"},
         status : ExitStatuses \cup {None}, signal : ExitSignals \cup {None}]
<1>1. ASSUME NEW kind \in EventKinds,
             NEW len \in (IF kind = "data" THEN DataLens ELSE {0}),
             Send(kind, len)
      PROVE  TypeOK'
  <2>1. len \in Nat /\ kind \in {"data", "resize", "cancel", "eof", "error"}
    BY KindsAssumption, LensAssumption
  <2>2. [kind |-> kind, first |-> offered + 1, len |-> len] \in Events
    BY <2>1 DEF Events
  <2>3. queue' \in Seq(Events) /\ Len(queue') <= Capacity
    BY <1>1, <2>2, CapacityIsPositive DEF Send
  <2> QED BY <1>1, <2>1, <2>3 DEF Send
<1>2. CASE DropSender
  BY <1>2 DEF DropSender
<1>3. CASE RemoteData
  <2>1. PICK n \in MsgLens :
           /\ Deliver([kind |-> "data",
                       bytes |-> [i \in 1..n |-> served.bytes + i]])
           /\ served' = [served EXCEPT !.bytes = @ + n]
    BY <1>3 DEF RemoteData
  <2>2. n \in Nat
    BY LensAssumption
  <2>3. [i \in 1..n |-> served.bytes + i] \in Seq(Nat)
    BY <2>2
  <2>4. fromServer' \in Seq(Messages)
    <3>1. [kind |-> "data", bytes |-> [i \in 1..n |-> served.bytes + i]] \in Messages
      BY <2>3 DEF Messages
    <3> QED BY <2>1, <3>1, AppendProperties DEF Deliver
  <2>5. served' \in ServedType
    <3>1. served.bytes + n \in Nat
      BY <2>2
    <3> QED BY <2>1, <3>1
  <2> QED BY <1>3, <2>4, <2>5 DEF RemoteData
<1>4. CASE RemoteExitStatus
  <2>1. PICK s \in ExitStatuses :
           /\ Deliver([kind |-> "status", value |-> s])
           /\ served' = [served EXCEPT !.status = s]
    BY <1>4 DEF RemoteExitStatus
  <2>2. [kind |-> "status", value |-> s] \in Messages
    BY DEF Messages
  <2>3. fromServer' \in Seq(Messages)
    BY <2>1, <2>2, AppendProperties DEF Deliver
  <2>4. served' \in ServedType
    BY <2>1
  <2> QED BY <1>4, <2>3, <2>4 DEF RemoteExitStatus
<1>5. CASE RemoteExitSignal
  <2>1. PICK s \in ExitSignals :
           /\ Deliver([kind |-> "signal", value |-> s])
           /\ served' = [served EXCEPT !.signal = s]
    BY <1>5 DEF RemoteExitSignal
  <2>2. [kind |-> "signal", value |-> s] \in Messages
    BY DEF Messages
  <2>3. fromServer' \in Seq(Messages)
    BY <2>1, <2>2, AppendProperties DEF Deliver
  <2>4. served' \in ServedType
    BY <2>1
  <2> QED BY <1>5, <2>3, <2>4 DEF RemoteExitSignal
<1>6. CASE RemoteEof
  <2>1. [kind |-> "other"] \in Messages
    BY DEF Messages
  <2>2. fromServer' \in Seq(Messages)
    BY <1>6, <2>1, AppendProperties DEF RemoteEof, Deliver
  <2>3. served' \in ServedType
    BY <1>6 DEF RemoteEof
  <2> QED BY <1>6, <2>2, <2>3 DEF RemoteEof
<1>7. CASE RemoteClose
  <2>1. [kind |-> "close"] \in Messages
    BY DEF Messages
  <2>2. fromServer' \in Seq(Messages)
    BY <1>7, <2>1, AppendProperties DEF RemoteClose, Deliver
  <2>3. served' \in ServedType
    BY <1>7 DEF RemoteClose
  <2> QED BY <1>7, <2>2, <2>3 DEF RemoteClose
<1>8. CASE GrantWindow
  BY <1>8 DEF GrantWindow
<1>9. CASE LinkDown
  BY <1>9 DEF LinkDown
<1> QED BY <1>1, <1>2, <1>3, <1>4, <1>5, <1>6, <1>7, <1>8, <1>9
        DEF Environment, Application, SendEvent, Remote

\* So does the input pump.
LEMMA InputPumpType == TypeOK /\ InputPump => TypeOK'
<1> SUFFICES ASSUME TypeOK, InputPump PROVE TypeOK'
  OBVIOUS
<1> USE DEF TypeOK, appVars, pumpVars, wireVars, remoteVars, readVars, outVars,
            PumpPoints, PumpReturns
<1>1. CASE CheckCancelled
  BY <1>1 DEF CheckCancelled
<1>2. CASE RecvEvent
  <2>1. ev' \in Events /\ queue' \in Seq(Events) /\ Len(queue') = Len(queue) - 1
    BY <1>2, HeadTailProperties DEF RecvEvent
  <2>2. Len(queue') <= Capacity
    BY <2>1, CapacityIsPositive, LenProperties
  <2> QED BY <1>2, <2>1, <2>2 DEF RecvEvent
<1>3. CASE RecvDisconnected
  BY <1>3 DEF RecvDisconnected, Events
<1>4. CASE RecvTimeout
  BY <1>4 DEF RecvTimeout
<1>5. CASE Dispatch
  <2>1. ev.kind # "error" => Handler(ev) \in PumpPoints
    BY DEF Handler, Events
  <2> QED BY <1>5, <2>1 DEF Dispatch
<1>6. CASE SendPacket
  <2>1. [kind |-> "data", byte |-> ev.first + written] \in Packets
    BY DEF Packets, Events
  <2>2. toServer' \in Seq(Packets)
    BY <1>6, <2>1 DEF SendPacket, Transmit, NextByte
  <2>3. window' \in Nat
    BY <1>6 DEF SendPacket
  <2>4. written' \in Nat /\ inputBytes' \in Nat /\ ipc' \in PumpPoints
    <3>1. ev.len \in Nat /\ written \in Nat /\ inputBytes \in Nat
      BY DEF Events
    <3>2. \/ written' = 0 /\ inputBytes' = inputBytes + ev.len /\ ipc' = "check"
          \/ written' = written + 1 /\ inputBytes' = inputBytes /\ ipc' = ipc
      BY <1>6 DEF SendPacket, Counted
    <3> QED BY <3>1, <3>2
  <2> QED BY <1>6, <2>2, <2>3, <2>4 DEF SendPacket
<1>7. CASE WriteCancelled
  BY <1>7 DEF WriteCancelled
<1>8. CASE WriteFails
  BY <1>8 DEF WriteFails
<1>9. CASE Resize
  <2>1. toServer' \in Seq(Packets)
    <3>1. [kind |-> "resize", byte |-> 0] \in Packets
      BY DEF Packets
    <3>2. Append(toServer, [kind |-> "resize", byte |-> 0]) \in Seq(Packets)
      BY <3>1, AppendProperties
    <3> QED BY <1>9, <3>2 DEF Resize, Transmit
  <2> QED BY <1>9, <2>1 DEF Resize
<1>10. CASE HandleCancel
  BY <1>10 DEF HandleCancel
<1>11. CASE CloseOnCancel
  <2>1. PICK outcome \in {"ok", "err"} : CloseChannel(outcome) /\ PumpReturns(outcome)
    BY <1>11 DEF CloseOnCancel
  <2>2. /\ writer' \in {"open", "input_finished", "closed"}
        /\ toServer' \in Seq(Packets)
    BY <2>1, CloseChannelType
  <2> QED BY <1>11, <2>1, <2>2 DEF CloseOnCancel
<1>12. CASE HandleEof
  <2>1. PICK outcome \in {"ok", "err"} : FinishInput(outcome) /\ PumpReturns(outcome)
    BY <1>12 DEF HandleEof
  <2>2. /\ writer' \in {"open", "input_finished", "closed"}
        /\ toServer' \in Seq(Packets)
    BY <2>1, FinishInputType
  <2> QED BY <1>12, <2>1, <2>2 DEF HandleEof
<1>13. CASE EmergencyClose
  <2>1. PICK outcome \in {"ok", "err"} : CloseChannel(outcome) /\ emergency' = outcome
    BY <1>13 DEF EmergencyClose
  <2>2. /\ writer' \in {"open", "input_finished", "closed"}
        /\ toServer' \in Seq(Packets)
    BY <2>1, CloseChannelType
  <2> QED BY <1>13, <2>1, <2>2 DEF EmergencyClose
<1> QED BY <1>1, <1>2, <1>3, <1>4, <1>5, <1>6, <1>7, <1>8, <1>9, <1>10, <1>11,
           <1>12, <1>13 DEF InputPump

\* And the calling thread.
LEMMA OutputPumpType == TypeOK /\ OutputPump => TypeOK'
<1> SUFFICES ASSUME TypeOK, OutputPump PROVE TypeOK'
  OBVIOUS
<1> USE DEF TypeOK, appVars, pumpVars, wireVars, remoteVars, readVars, outVars,
            MainPoints, CopyEnds
<1>1. CASE ReadPending
  <2>1. chunk' \in Seq(Nat) /\ pending' \in Seq(Nat)
    BY <1>1, FilledType DEF ReadPending
  <2> QED BY <1>1, <2>1 DEF ReadPending
<1>2. CASE ReadData
  <2>1. Head(fromServer) \in Messages /\ fromServer' \in Seq(Messages)
    BY <1>2 DEF ReadData
  <2>2. Head(fromServer).bytes \in Seq(Nat)
    BY <1>2, <2>1 DEF ReadData, Messages
  <2>3. chunk' \in Seq(Nat) /\ pending' \in Seq(Nat)
    BY <1>2, <2>2, FilledType DEF ReadData
  <2> QED BY <1>2, <2>1, <2>3 DEF ReadData
<1>3. CASE ReadMetadata
  <2>1. Head(fromServer) \in Messages /\ fromServer' \in Seq(Messages)
    BY <1>3 DEF ReadMetadata
  <2>2. result' \in Results
    BY <1>3, <2>1 DEF ReadMetadata, Messages, Results
  <2> QED BY <1>3, <2>1, <2>2 DEF ReadMetadata
<1>4. CASE ReadEnd
  <2>1. fromServer' \in Seq(Messages)
    <3>1. CASE fromServer = <<>>
      BY <1>4, <3>1 DEF ReadEnd
    <3>2. CASE fromServer # <<>>
      <4>1. fromServer' = Tail(fromServer)
        BY <1>4, <3>2 DEF ReadEnd
      <4>2. fromServer \in Seq(Messages)
        OBVIOUS
      <4> QED BY <3>2, <4>1, <4>2, HeadTailProperties
    <3> QED BY <3>1, <3>2
  <2> QED BY <1>4, <2>1 DEF ReadEnd
<1>5. CASE ReadTimesOut
  BY <1>5 DEF ReadTimesOut
<1>6. CASE WriteOutput
  BY <1>6 DEF WriteOutput
<1>7. CASE OutputFails
  <2>1. PICK n \in 0..Len(chunk) : sink' = sink \o SubSeq(chunk, 1, n)
    BY <1>7 DEF OutputFails
  <2>2. SubSeq(chunk, 1, n) \in Seq(Nat)
    BY SubSeqProperties
  <2>3. sink' \in Seq(Nat)
    BY <2>1, <2>2
  <2> QED BY <1>7, <2>3 DEF OutputFails
<1>8. CASE CancelInput
  BY <1>8 DEF CancelInput
<1>9. CASE Join
  BY <1>9 DEF Join
<1>10. CASE CloseAndReturn
  <2>1. PICK closeResult \in {"ok", "err"} :
           /\ IF inputResult = "err"
              THEN closeResult = emergency /\ UNCHANGED <<writer, toServer>>
              ELSE CloseChannel(closeResult)
           /\ returned' = Verdict(closeResult)
    BY <1>10 DEF CloseAndReturn
  <2>2. /\ writer' \in {"open", "input_finished", "closed"}
        /\ toServer' \in Seq(Packets)
    BY <2>1, CloseChannelType
  <2>3. returned' \in {None, "ok", "output", "input", "close"}
    BY <2>1 DEF Verdict
  <2> QED BY <1>10, <2>2, <2>3 DEF CloseAndReturn
<1> QED BY <1>1, <1>2, <1>3, <1>4, <1>5, <1>6, <1>7, <1>8, <1>9, <1>10
        DEF OutputPump

\* Every variable keeps its type, and the local queue its bound, in every
\* behaviour of the runner and its environment.
THEOREM TypeCorrect == Spec => []TypeOK
<1>1. TypeOK /\ [Next]_vars => TypeOK'
  <2> SUFFICES ASSUME TypeOK, [Next]_vars PROVE TypeOK'
    OBVIOUS
  <2>1. CASE UNCHANGED vars
    BY <2>1 DEF TypeOK, vars, appVars, pumpVars, wireVars, remoteVars,
        readVars, outVars
  <2> QED BY <2>1, EnvironmentType, InputPumpType, OutputPumpType DEF Next
<1> QED BY InitType, <1>1, PTL DEF Spec

-----------------------------------------------------------------------------
(* The writer and the wire.                                                *)

WireOK == LifecycleMatchesWire /\ WireDiscipline

\* A packet goes to the end of the wire and changes nothing before it.
LEMMA TransmitAppends ==
    ASSUME TypeOK, NEW kind \in {"data", "resize", "eof", "close"},
           NEW byte \in Nat, Transmit(kind, byte)
    PROVE  /\ toServer \in Seq(Packets) /\ Len(toServer) \in Nat
           /\ Len(toServer') = Len(toServer) + 1
           /\ \A i \in 1..Len(toServer) : toServer'[i] = toServer[i]
           /\ toServer'[Len(toServer) + 1] = [kind |-> kind, byte |-> byte]
           /\ toServer' # <<>>
<1>1. [kind |-> kind, byte |-> byte] \in Packets
  BY DEF Packets
<1>2. toServer \in Seq(Packets)
  BY DEF TypeOK
<1> QED BY <1>1, <1>2, AppendProperties, LenProperties DEF Transmit

\* Data and window changes are sent by an open writer only, so nothing
\* precedes them that forbids them.
LEMMA TransmitKeepsWire ==
    ASSUME TypeOK, WireOK, NEW kind \in {"data", "resize"}, NEW byte \in Nat,
           Transmit(kind, byte), writer = "open", writer' = writer
    PROVE  WireOK'
<1>1. /\ Len(toServer) \in Nat
      /\ Len(toServer') = Len(toServer) + 1
      /\ \A i \in 1..Len(toServer) : toServer'[i] = toServer[i]
      /\ toServer'[Len(toServer) + 1] = [kind |-> kind, byte |-> byte]
  BY TransmitAppends
<1>2. \A i \in 1..Len(toServer) : toServer[i].kind \notin {"close", "eof"}
  BY DEF WireOK, LifecycleMatchesWire
<1>3. LifecycleMatchesWire'
  BY <1>1, <1>2 DEF WireOK, LifecycleMatchesWire
<1>4. WireDiscipline'
  BY <1>1, <1>2 DEF WireOK, WireDiscipline
<1> QED BY <1>3, <1>4 DEF WireOK

\* close_channel puts at most one Close on the wire, as its last packet.
LEMMA CloseChannelKeepsWire ==
    ASSUME TypeOK, WireOK, NEW outcome, CloseChannel(outcome)
    PROVE  /\ WireOK'
           /\ outcome = "ok" => writer' = "closed"
           /\ outcome # "ok" => outcome = "err" /\ link = "down" /\ writer' = writer
<1>1. CASE writer = "closed" \/ link # "up"
  <2>1. UNCHANGED <<writer, toServer>>
    BY <1>1 DEF CloseChannel, TypeOK
  <2> QED BY <1>1, <2>1
          DEF WireOK, LifecycleMatchesWire, WireDiscipline, CloseChannel, TypeOK
<1>2. CASE writer # "closed" /\ link = "up"
  <2>1. Transmit("close", 0) /\ writer' = "closed" /\ outcome = "ok"
    BY <1>2 DEF CloseChannel, MarkClosed
  <2>2. /\ Len(toServer) \in Nat
        /\ Len(toServer') = Len(toServer) + 1
        /\ \A i \in 1..Len(toServer) : toServer'[i] = toServer[i]
        /\ toServer'[Len(toServer) + 1] = [kind |-> "close", byte |-> 0]
        /\ toServer' # <<>>
    BY <2>1, TransmitAppends
  <2>3. \A i \in 1..Len(toServer) : toServer[i].kind # "close"
    BY <1>2 DEF WireOK, LifecycleMatchesWire
  <2>4. LifecycleMatchesWire'
    BY <2>1, <2>2 DEF LifecycleMatchesWire
  <2>5. WireDiscipline'
    BY <2>2, <2>3 DEF WireOK, WireDiscipline
  <2> QED BY <2>1, <2>4, <2>5 DEF WireOK
<1> QED BY <1>1, <1>2 DEF TypeOK

\* finish_input puts EOF on the wire only before any EOF or Close.
LEMMA FinishInputKeepsWire ==
    ASSUME TypeOK, WireOK, NEW outcome, FinishInput(outcome)
    PROVE  /\ WireOK'
           /\ outcome = "err" => writer' = writer
           /\ outcome \in {"ok", "err"}
<1>1. CASE writer # "open" \/ link # "up"
  <2>1. UNCHANGED <<writer, toServer>>
    BY <1>1 DEF FinishInput, WriteAllowed, TypeOK
  <2> QED BY <1>1, <2>1
          DEF WireOK, LifecycleMatchesWire, WireDiscipline, FinishInput, TypeOK
<1>2. CASE writer = "open" /\ link = "up"
  <2>1. Transmit("eof", 0) /\ writer' = "input_finished" /\ outcome = "ok"
    BY <1>2 DEF FinishInput, WriteAllowed, MarkInputFinished
  <2>2. /\ Len(toServer) \in Nat
        /\ Len(toServer') = Len(toServer) + 1
        /\ \A i \in 1..Len(toServer) : toServer'[i] = toServer[i]
        /\ toServer'[Len(toServer) + 1] = [kind |-> "eof", byte |-> 0]
    BY <2>1, TransmitAppends
  <2>3. \A i \in 1..Len(toServer) : toServer[i].kind \notin {"close", "eof"}
    BY <1>2 DEF WireOK, LifecycleMatchesWire
  <2>4. LifecycleMatchesWire'
    BY <2>1, <2>2, <2>3 DEF LifecycleMatchesWire
  <2>5. WireDiscipline'
    BY <2>2, <2>3 DEF WireOK, WireDiscipline
  <2> QED BY <2>1, <2>4, <2>5 DEF WireOK
<1> QED BY <1>1, <1>2 DEF TypeOK

\* A step that leaves the writer, the wire and both program counters alone.
LEMMA IdleKeepsWireInv ==
    ASSUME WireInv, UNCHANGED <<writer, toServer, ipc, opc, returned, inputResult>>,
           cancelled => cancelled', link' = link \/ link' = "down"
    PROVE  WireInv'
BY DEF WireInv, Ownership, LifecycleMatchesWire, CloseAttempted, WireDiscipline

LEMMA InitWireInv == Init => WireInv
BY DEF Init, WireInv, Ownership, LifecycleMatchesWire, CloseAttempted,
    WireDiscipline, None

LEMMA EnvironmentKeepsWireInv == WireInv /\ Environment => WireInv'
<1> SUFFICES ASSUME WireInv, Environment PROVE WireInv'
  OBVIOUS
<1>1. /\ UNCHANGED <<writer, toServer, ipc, opc, returned, inputResult, cancelled>>
      /\ link' = link \/ link' = "down"
  BY DEF Environment, Application, SendEvent, Send, DropSender, Remote,
      RemoteData, RemoteExitStatus, RemoteExitSignal, RemoteEof, RemoteClose,
      GrantWindow, LinkDown, appVars, pumpVars, wireVars, readVars, outVars,
      remoteVars
<1> QED BY <1>1, IdleKeepsWireInv

\* The input pump: its steps before the end leave an open writer open.
LEMMA InputPumpKeepsWireInv == TypeOK /\ WireInv /\ InputPump => WireInv'
<1> SUFFICES ASSUME TypeOK, WireInv, InputPump PROVE WireInv'
  OBVIOUS
<1>a. WireOK /\ ipc # "done" /\ writer = "open"
  BY DEF WireInv, WireOK, Ownership, InputPump, CheckCancelled, RecvEvent,
      RecvDisconnected, RecvTimeout, Dispatch, SendPacket, WriteCancelled,
      WriteFails, Resize, HandleCancel, CloseOnCancel, HandleEof, EmergencyClose
<1>b. UNCHANGED <<opc, returned, link>> /\ (cancelled => cancelled')
  BY DEF InputPump, CheckCancelled, RecvEvent, RecvDisconnected, RecvTimeout,
      Dispatch, SendPacket, WriteCancelled, WriteFails, Resize, HandleCancel,
      CloseOnCancel, HandleEof, EmergencyClose, outVars, wireVars
<1>c. opc \notin {"close", "returned"} /\ returned = None
  BY <1>a DEF WireInv, Ownership
<1>d. ASSUME WireOK', ipc' # "done" => writer' = "open",
             ipc' = "done" => inputResult' \in {"ok", "err"},
             ipc' = "emergency" => inputResult' = "err",
             ipc' = "done" /\ inputResult' = "err" /\ link = "up" => writer' = "closed"
      PROVE  WireInv'
  BY <1>b, <1>c, <1>d DEF WireInv, WireOK, Ownership, CloseAttempted
<1>e. ASSUME UNCHANGED <<writer, toServer>> PROVE WireOK'
  BY <1>a, <1>e DEF WireOK, LifecycleMatchesWire, WireDiscipline
<1>1. CASE CheckCancelled
  BY <1>1, <1>a, <1>d, <1>e DEF CheckCancelled, PumpReturns, wireVars
<1>2. CASE RecvEvent
  BY <1>2, <1>a, <1>d, <1>e DEF RecvEvent, wireVars
<1>3. CASE RecvDisconnected
  BY <1>3, <1>a, <1>d, <1>e DEF RecvDisconnected, wireVars
<1>4. CASE RecvTimeout
  BY <1>4, <1>a, <1>d, <1>e DEF RecvTimeout, wireVars
<1>5. CASE Dispatch
  <2>1. ev.kind # "error" => Handler(ev) \notin {"done", "emergency"}
    BY DEF Handler, TypeOK, Events
  <2> QED BY <1>5, <2>1, <1>a, <1>d, <1>e DEF Dispatch, PumpReturns, wireVars
<1>6. CASE SendPacket
  <2>1. NextByte \in Nat
    BY DEF NextByte, TypeOK, Events
  <2>2. WireOK'
    BY <1>6, <1>a, <2>1, TransmitKeepsWire DEF SendPacket
  <2>3. writer' = "open" /\ ipc' \notin {"done", "emergency"}
    BY <1>6, <1>a DEF SendPacket
  <2> QED BY <2>2, <2>3, <1>d
<1>7. CASE WriteCancelled
  BY <1>7, <1>a, <1>d, <1>e DEF WriteCancelled, PumpReturns, wireVars
<1>8. CASE WriteFails
  BY <1>8, <1>a, <1>d, <1>e DEF WriteFails, PumpReturns, wireVars
<1>9. CASE Resize
  <2>1. writer' = writer
    BY <1>9 DEF Resize
  <2>2. CASE Transmit("resize", 0) /\ ipc' = "check"
    <3>1. WireOK'
      BY <1>a, <2>1, <2>2, TransmitKeepsWire
    <3> QED BY <1>a, <2>1, <2>2, <3>1, <1>d
  <2>3. CASE UNCHANGED toServer /\ \E o \in {"ok", "err"} : PumpReturns(o)
    <3>1. /\ ipc' = "done" => inputResult' = "ok"
          /\ ipc' = "emergency" => inputResult' = "err"
      BY <2>3 DEF PumpReturns
    <3> QED BY <1>a, <2>1, <2>3, <3>1, <1>d, <1>e
  <2> QED BY <1>9, <2>2, <2>3 DEF Resize
<1>10. CASE HandleCancel
  BY <1>10, <1>a, <1>d, <1>e DEF HandleCancel, wireVars
<1>11. CASE CloseOnCancel
  <2>1. PICK outcome \in {"ok", "err"} : CloseChannel(outcome) /\ PumpReturns(outcome)
    BY <1>11 DEF CloseOnCancel
  <2>2. /\ WireOK'
        /\ outcome = "ok" => writer' = "closed"
        /\ outcome # "ok" => outcome = "err" /\ link = "down" /\ writer' = writer
    BY <2>1, <1>a, CloseChannelKeepsWire
  <2> QED BY <2>1, <2>2, <1>a, <1>d DEF PumpReturns
<1>12. CASE HandleEof
  <2>1. PICK outcome \in {"ok", "err"} : FinishInput(outcome) /\ PumpReturns(outcome)
    BY <1>12 DEF HandleEof
  <2>2. WireOK' /\ (outcome = "err" => writer' = writer)
    BY <2>1, <1>a, FinishInputKeepsWire
  <2> QED BY <2>1, <2>2, <1>a, <1>d DEF PumpReturns
<1>13. CASE EmergencyClose
  <2>1. PICK outcome \in {"ok", "err"} : CloseChannel(outcome) /\ emergency' = outcome
    BY <1>13 DEF EmergencyClose
  <2>2. /\ WireOK'
        /\ outcome = "ok" => writer' = "closed"
        /\ outcome # "ok" => outcome = "err" /\ link = "down" /\ writer' = writer
    BY <2>1, <1>a, CloseChannelKeepsWire
  <2>3. ipc' = "done" /\ inputResult' = inputResult /\ inputResult = "err"
    BY <1>13 DEF EmergencyClose, WireInv, CloseAttempted
  <2> QED BY <2>1, <2>2, <2>3, <1>d
<1> QED BY <1>1, <1>2, <1>3, <1>4, <1>5, <1>6, <1>7, <1>8, <1>9, <1>10, <1>11,
           <1>12, <1>13 DEF InputPump

\* The calling thread touches the writer only after the join.
LEMMA OutputPumpKeepsWireInv == TypeOK /\ WireInv /\ OutputPump => WireInv'
<1> SUFFICES ASSUME TypeOK, WireInv, OutputPump PROVE WireInv'
  OBVIOUS
<1>a. UNCHANGED <<ipc, inputResult, link>>
  BY DEF OutputPump, ReadPending, ReadData, ReadMetadata, ReadEnd, ReadTimesOut,
      WriteOutput, OutputFails, CancelInput, Join, CloseAndReturn, pumpVars,
      wireVars
<1>1. CASE CloseAndReturn
  <2>1. PICK closeResult \in {"ok", "err"} :
           /\ IF inputResult = "err"
              THEN closeResult = emergency /\ UNCHANGED <<writer, toServer>>
              ELSE CloseChannel(closeResult)
           /\ returned' = Verdict(closeResult)
    BY <1>1 DEF CloseAndReturn
  <2>2. opc = "close" /\ opc' = "returned" /\ ipc = "done" /\ cancelled' = cancelled
    BY <1>1 DEF CloseAndReturn, WireInv, Ownership
  <2>3. returned' # None /\ cancelled'
    BY <2>1, <2>2 DEF Verdict, None, WireInv, Ownership
  <2>4. WireOK' /\ (link = "up" => writer' = "closed")
    <3>1. WireOK
      BY DEF WireInv, WireOK
    <3>2. CASE inputResult = "err"
      <4>1. UNCHANGED <<writer, toServer>>
        BY <2>1, <3>2
      <4>2. link = "up" => writer = "closed"
        BY <2>2, <3>2 DEF WireInv, CloseAttempted
      <4> QED BY <3>1, <4>1, <4>2 DEF WireOK, LifecycleMatchesWire, WireDiscipline
    <3>3. CASE inputResult # "err"
      <4>1. CloseChannel(closeResult)
        BY <2>1, <3>3
      <4> QED BY <3>1, <4>1, CloseChannelKeepsWire
    <3> QED BY <3>2, <3>3
  <2>5. inputResult' \in {"ok", "err"} /\ ipc' = "done"
    BY <1>a, <2>2 DEF WireInv, CloseAttempted
  <2>6. Ownership'
    BY <2>2, <2>3, <2>5 DEF Ownership
  <2>7. CloseAttempted'
    BY <1>a, <2>4, <2>5 DEF CloseAttempted
  <2> QED BY <2>4, <2>6, <2>7 DEF WireInv, WireOK
<1>2. CASE ~CloseAndReturn
  <2>1. UNCHANGED <<writer, toServer, returned>> /\ (cancelled => cancelled')
    BY <1>2 DEF OutputPump, ReadPending, ReadData, ReadMetadata, ReadEnd,
        ReadTimesOut, WriteOutput, OutputFails, CancelInput, Join, outVars, wireVars
  <2>2. /\ opc # "returned" /\ opc' # "returned"
        /\ opc' = "close" => ipc = "done"
        /\ opc' \in {"join", "close"} =>
            cancelled' \/ (opc \in {"join", "close"} /\ cancelled' = cancelled)
    BY <1>2 DEF OutputPump, ReadPending, ReadData, ReadMetadata, ReadEnd, Waiting,
        ReadTimesOut, WriteOutput, OutputFails, CancelInput, Join, outVars, CopyEnds
  <2>3. Ownership'
    BY <1>a, <2>1, <2>2 DEF WireInv, Ownership
  <2>4. CloseAttempted'
    BY <1>a, <2>1, <2>2 DEF WireInv, CloseAttempted
  <2>5. WireOK'
    BY <2>1 DEF WireInv, WireOK, LifecycleMatchesWire, WireDiscipline
  <2> QED BY <2>3, <2>4, <2>5 DEF WireInv, WireOK
<1> QED BY <1>1, <1>2

LEMMA WireInvCorrect == Spec => []WireInv
<1>1. TypeOK /\ WireInv /\ [Next]_vars => WireInv'
  <2> SUFFICES ASSUME TypeOK, WireInv, [Next]_vars PROVE WireInv'
    OBVIOUS
  <2>1. CASE UNCHANGED vars
    BY <2>1, IdleKeepsWireInv DEF vars, pumpVars, wireVars, outVars
  <2> QED BY <2>1, EnvironmentKeepsWireInv, InputPumpKeepsWireInv,
             OutputPumpKeepsWireInv DEF Next
<1> QED BY InitWireInv, <1>1, TypeCorrect, PTL DEF Spec

\* Nothing follows the client's Close on the channel and nothing but Close
\* follows its EOF, although two threads close the writer.
THEOREM WireDisciplineHolds == Spec => []WireDiscipline
<1>1. WireInv => WireDiscipline
  BY DEF WireInv
<1> QED BY <1>1, WireInvCorrect, PTL

\* Every return of the runner leaves the channel closed if the link stands.
THEOREM ChannelReleasedHolds == Spec => []ChannelReleased
<1>1. WireInv => ChannelReleased
  BY DEF WireInv, Ownership, LifecycleMatchesWire, CloseAttempted, ChannelReleased
<1> QED BY <1>1, WireInvCorrect, PTL

\* After the return no thread of the runner acts on the channel or the output.
THEOREM QuietAfterReturnHolds == Spec => QuietAfterReturn
<1>1. WireInv /\ [Next]_vars =>
        [returned # None => UNCHANGED <<toServer, writer, sink, cancelled, ipc>>]_vars
  <2> SUFFICES ASSUME WireInv, Next, returned # None
               PROVE  UNCHANGED <<toServer, writer, sink, cancelled, ipc>>
    BY DEF vars
  <2>1. opc = "returned" /\ ipc = "done"
    BY DEF WireInv, Ownership
  <2>2. ~InputPump
    BY <2>1 DEF InputPump, CheckCancelled, RecvEvent, RecvDisconnected,
        RecvTimeout, Dispatch, SendPacket, WriteCancelled, WriteFails, Resize,
        HandleCancel, CloseOnCancel, HandleEof, EmergencyClose
  <2>3. ~OutputPump
    BY <2>1 DEF OutputPump, ReadPending, ReadData, ReadMetadata, ReadEnd, Waiting,
        ReadTimesOut, WriteOutput, OutputFails, CancelInput, Join, CloseAndReturn
  <2> QED BY <2>2, <2>3 DEF Next, Environment
<1> QED BY <1>1, WireInvCorrect, PTL DEF Spec, QuietAfterReturn

-----------------------------------------------------------------------------
(* The bytes on the wire.                                                  *)

LEMMA WireBytesMember ==
    /\ \A x : x \in WireBytes <=>
          \E i \in 1..Len(toServer) : toServer[i].kind = "data" /\ x = toServer[i].byte
    /\ \A x : x \in WireBytes' <=>
          \E i \in 1..Len(toServer') : toServer'[i].kind = "data" /\ x = toServer'[i].byte
BY DEF WireBytes, DataAt

\* A packet without data neither adds nor reorders bytes.
LEMMA TransmitWithoutData ==
    ASSUME TypeOK, InputInOrder, NEW kind \in {"resize", "eof", "close"},
           Transmit(kind, 0)
    PROVE  WireBytes' = WireBytes /\ InputInOrder'
<1>1. /\ Len(toServer) \in Nat
      /\ Len(toServer') = Len(toServer) + 1
      /\ \A i \in 1..Len(toServer) : toServer'[i] = toServer[i]
      /\ toServer'[Len(toServer) + 1].kind # "data"
  <2>1. /\ Len(toServer) \in Nat
        /\ Len(toServer') = Len(toServer) + 1
        /\ \A i \in 1..Len(toServer) : toServer'[i] = toServer[i]
        /\ toServer'[Len(toServer) + 1] = [kind |-> kind, byte |-> 0]
    BY TransmitAppends
  <2> QED BY <2>1
<1>2. ASSUME NEW x PROVE (x \in WireBytes') <=> (x \in WireBytes)
  <2>1. (x \in WireBytes') <=> \E i \in 1..Len(toServer') :
                                 toServer'[i].kind = "data" /\ x = toServer'[i].byte
    BY WireBytesMember
  <2>2. (x \in WireBytes) <=> \E i \in 1..Len(toServer) :
                                toServer[i].kind = "data" /\ x = toServer[i].byte
    BY WireBytesMember
  <2> QED BY <1>1, <2>1, <2>2
<1>3. WireBytes' = WireBytes
  BY <1>2
<1>4. InputInOrder'
  BY <1>1 DEF InputInOrder, DataAt
<1> QED BY <1>3, <1>4

\* The next byte extends the stretch on the wire by one, at its end.
LEMMA TransmitNextByte ==
    ASSUME TypeOK, InputInOrder, NEW n \in Nat, WireBytes = 1..n,
           Transmit("data", n + 1)
    PROVE  WireBytes' = 1..(n + 1) /\ InputInOrder'
<1>1. /\ Len(toServer) \in Nat
      /\ Len(toServer') = Len(toServer) + 1
      /\ \A i \in 1..Len(toServer) : toServer'[i] = toServer[i]
      /\ toServer'[Len(toServer) + 1] = [kind |-> "data", byte |-> n + 1]
  BY TransmitAppends
<1>2. ASSUME NEW x PROVE (x \in WireBytes') <=> (x \in WireBytes \/ x = n + 1)
  <2>1. (x \in WireBytes') <=> \E i \in 1..Len(toServer') :
                                 toServer'[i].kind = "data" /\ x = toServer'[i].byte
    BY WireBytesMember
  <2>2. (x \in WireBytes) <=> \E i \in 1..Len(toServer) :
                                toServer[i].kind = "data" /\ x = toServer[i].byte
    BY WireBytesMember
  <2>3. Len(toServer) + 1 \in 1..Len(toServer')
    BY <1>1
  <2> QED BY <1>1, <2>1, <2>2, <2>3
<1>3. WireBytes' = WireBytes \cup {n + 1}
  BY <1>2
<1>4. WireBytes' = 1..(n + 1)
  BY <1>3
<1>5. \A i \in 1..Len(toServer) : DataAt(i) => toServer[i].byte < n + 1
  <2> SUFFICES ASSUME NEW i \in 1..Len(toServer), DataAt(i)
               PROVE  toServer[i].byte < n + 1
    OBVIOUS
  <2>1. toServer[i].byte \in 1..n
    BY WireBytesMember DEF DataAt
  <2> QED BY <2>1
<1>6. InputInOrder'
  BY <1>1, <1>5 DEF InputInOrder, DataAt
<1> QED BY <1>4, <1>6

LEMMA CloseChannelWithoutData ==
    ASSUME TypeOK, InputInOrder, NEW outcome, CloseChannel(outcome)
    PROVE  WireBytes' = WireBytes /\ InputInOrder'
<1>1. CASE Transmit("close", 0)
  BY <1>1, TransmitWithoutData
<1>2. CASE UNCHANGED toServer
  BY <1>2 DEF WireBytes, InputInOrder, DataAt
<1> QED BY <1>1, <1>2 DEF CloseChannel

LEMMA FinishInputWithoutData ==
    ASSUME TypeOK, InputInOrder, NEW outcome, FinishInput(outcome)
    PROVE  WireBytes' = WireBytes /\ InputInOrder'
<1>1. CASE Transmit("eof", 0)
  BY <1>1, TransmitWithoutData
<1>2. CASE UNCHANGED toServer
  BY <1>2 DEF WireBytes, InputInOrder, DataAt
<1> QED BY <1>1, <1>2 DEF FinishInput

LEMMA InitInputInv == Init => InputInv
<1> SUFFICES ASSUME Init PROVE InputInv
  OBVIOUS
<1>1. WireBytes = {}
  BY DEF Init, WireBytes
<1>2. InputAccounting
  BY <1>1 DEF Init, InputAccounting
<1>3. InputInOrder
  BY DEF Init, InputInOrder
<1>4. QueueIsConsecutive
  BY DEF Init, QueueIsConsecutive, Pumping, InHand, NoEvent
<1> QED BY <1>2, <1>3, <1>4 DEF InputInv

\* Steps that add no byte to the wire and leave the count alone.
LEMMA SameBytes ==
    ASSUME InputInv, WireBytes' = WireBytes, InputInOrder',
           UNCHANGED <<inputBytes, written, ev>>
    PROVE  InputAccounting' /\ InputInOrder'
BY DEF InputInv, InputAccounting

\* A step that leaves the queue and the pump alone.
LEMMA IdleKeepsInputInv ==
    ASSUME InputInv, WireBytes' = WireBytes, InputInOrder',
           UNCHANGED <<queue, offered, ipc, inputBytes, written, ev>>
    PROVE  InputInv'
<1>1. QueueIsConsecutive'
  BY DEF InputInv, QueueIsConsecutive, Pumping, InHand
<1> QED BY <1>1, SameBytes DEF InputInv

\* A chunk joins the queue with the bytes that follow the last ones offered.
LEMMA SendKeepsInputInv ==
    ASSUME TypeOK, InputInv, NEW kind \in EventKinds,
           NEW len \in (IF kind = "data" THEN DataLens ELSE {0}), Send(kind, len)
    PROVE  InputInv'
<1> DEFINE e == [kind |-> kind, first |-> offered + 1, len |-> len]
<1>1. len \in Nat /\ kind \in {"data", "resize", "cancel", "eof", "error"}
  BY KindsAssumption, LensAssumption
<1>2. e \in Events
  BY <1>1 DEF Events, TypeOK
<1>3. /\ queue \in Seq(Events) /\ Len(queue) \in Nat
      /\ Len(queue') = Len(queue) + 1 /\ queue' # <<>>
      /\ \A i \in 1..Len(queue) : queue'[i] = queue[i]
      /\ queue'[Len(queue) + 1] = e
  <2>1. queue' = Append(queue, e) /\ queue \in Seq(Events)
    BY DEF Send, TypeOK
  <2> QED BY <1>2, <2>1, AppendProperties, LenProperties
<1>4. UNCHANGED <<ipc, ev, written, inputBytes, toServer>> /\ offered' = offered + len
  BY DEF Send, pumpVars, wireVars
<1>5. WireBytes' = WireBytes /\ InputInOrder'
  BY <1>4 DEF WireBytes, DataAt, InputInOrder, InputInv
<1>6. queue = <<>> <=> Len(queue) = 0
  <2>1. queue # <<>> => Len(queue) # 0
    BY <1>3, EmptySeq
  <2>2. queue = <<>> => Len(queue) = 0
    BY EmptySeq
  <2> QED BY <2>1, <2>2
<1>7. QueueIsConsecutive'
  <2>1. \A i \in 1..Len(queue') : queue'[i].kind # "data" => queue'[i].len = 0
    BY <1>3 DEF InputInv, QueueIsConsecutive
  <2>2. Pumping =>
          /\ queue'[1].first = inputBytes + InHand + 1
          /\ queue'[Len(queue')].first + queue'[Len(queue')].len = offered' + 1
    <3>1. offered \in Nat /\ inputBytes \in Nat /\ InHand \in Nat
      BY DEF TypeOK, InHand, Events
    <3>2. queue'[Len(queue')].first + queue'[Len(queue')].len = offered' + 1
      BY <1>1, <1>3, <1>4, <3>1
    <3>3. CASE queue = <<>>
      BY <1>3, <1>6, <3>1, <3>2, <3>3 DEF InputInv, QueueIsConsecutive
    <3>4. CASE queue # <<>>
      <4>1. 1 \in 1..Len(queue)
        BY <1>3, <1>6, <3>4
      <4> QED BY <1>3, <3>2, <3>4, <4>1 DEF InputInv, QueueIsConsecutive
    <3> QED BY <3>3, <3>4
  <2>3. Pumping => \A i \in 1..(Len(queue') - 1) :
                     queue'[i + 1].first = queue'[i].first + queue'[i].len
    <3> SUFFICES ASSUME Pumping, NEW i \in 1..Len(queue)
                 PROVE  queue'[i + 1].first = queue'[i].first + queue'[i].len
      BY <1>3
    <3>1. CASE i = Len(queue)
      BY <1>3, <1>6, <3>1 DEF InputInv, QueueIsConsecutive
    <3>2. CASE i # Len(queue)
      BY <1>3, <3>2 DEF InputInv, QueueIsConsecutive
    <3> QED BY <3>1, <3>2
  <2> QED BY <1>3, <1>4, <2>1, <2>2, <2>3
          DEF InputInv, QueueIsConsecutive, Pumping, InHand
<1> QED BY <1>4, <1>5, <1>7, SameBytes DEF InputInv

\* Taking the head of the queue moves its bytes into the pump's hand.
LEMMA RecvKeepsInputInv == TypeOK /\ InputInv /\ RecvEvent => InputInv'
<1> SUFFICES ASSUME TypeOK, InputInv, RecvEvent PROVE InputInv'
  OBVIOUS
<1>1. /\ queue \in Seq(Events) /\ queue # <<>> /\ ipc = "recv" /\ ipc' = "recheck"
      /\ ev' = Head(queue) /\ queue' = Tail(queue)
      /\ UNCHANGED <<offered, written, inputBytes, toServer>>
  BY DEF RecvEvent, TypeOK, wireVars
<1>2. /\ Len(queue) \in Nat \ {0} /\ Len(queue') = Len(queue) - 1
      /\ queue' \in Seq(Events) /\ Head(queue) = queue[1]
      /\ \A i \in 1..(Len(queue) - 1) : queue'[i] = queue[i + 1]
  BY <1>1, HeadTailProperties, EmptySeq
<1>3. queue' = <<>> <=> Len(queue') = 0
  <2>1. queue' # <<>> => Len(queue') # 0
    BY <1>2, EmptySeq
  <2>2. queue' = <<>> => Len(queue') = 0
    BY EmptySeq
  <2> QED BY <2>1, <2>2
<1>4. /\ ev' = queue[1] /\ ev' \in Events /\ 1 \in 1..Len(queue)
      /\ ev'.len \in Nat /\ ev'.first \in Nat /\ inputBytes \in Nat /\ offered \in Nat
  <2>1. ev' = queue[1] /\ ev' \in Events /\ 1 \in 1..Len(queue)
    BY <1>1, <1>2, HeadTailProperties
  <2> QED BY <2>1 DEF TypeOK, Events
<1>5. Pumping /\ InHand = 0 /\ written = 0
  BY <1>1 DEF Pumping, InHand, InputInv, QueueIsConsecutive
<1>6. ev'.first = inputBytes + 1 /\ (ev'.kind # "data" => ev'.len = 0)
  BY <1>1, <1>4, <1>5 DEF InputInv, QueueIsConsecutive
<1>7. Pumping' /\ InHand' = ev'.len
  BY <1>1 DEF Pumping, InHand
<1>8. queue' = <<>> => offered' = inputBytes' + InHand'
  <2> SUFFICES ASSUME queue' = <<>> PROVE offered' = inputBytes' + InHand'
    OBVIOUS
  <2>1. Len(queue) = 1
    BY <1>2, <1>3
  <2>2. ev'.first + ev'.len = offered + 1
    BY <1>1, <1>4, <1>5, <2>1 DEF InputInv, QueueIsConsecutive
  <2> QED BY <1>1, <1>4, <1>6, <1>7, <2>2
<1>9. queue' # <<>> =>
        /\ queue'[1].first = inputBytes' + InHand' + 1
        /\ queue'[Len(queue')].first + queue'[Len(queue')].len = offered' + 1
  <2> SUFFICES ASSUME queue' # <<>>
               PROVE  /\ queue'[1].first = inputBytes' + InHand' + 1
                      /\ queue'[Len(queue')].first + queue'[Len(queue')].len = offered' + 1
    OBVIOUS
  <2>1. 1 \in 1..(Len(queue) - 1) /\ Len(queue') \in 1..(Len(queue) - 1)
    BY <1>2, <1>3
  <2>2. queue'[1] = queue[2] /\ queue'[Len(queue')] = queue[Len(queue)]
    BY <1>2, <2>1
  <2>3. queue[2].first = queue[1].first + queue[1].len
    <3>1. queue[1 + 1].first = queue[1].first + queue[1].len
      BY <1>5, <2>1 DEF InputInv, QueueIsConsecutive
    <3> QED BY <3>1
  <2>4. queue[Len(queue)].first + queue[Len(queue)].len = offered + 1
    BY <1>1, <1>5 DEF InputInv, QueueIsConsecutive
  <2>5. queue'[1].first = inputBytes + ev'.len + 1
    BY <1>4, <1>6, <2>2, <2>3
  <2>6. inputBytes' = inputBytes /\ offered' = offered /\ InHand' = ev'.len
    BY <1>1, <1>7
  <2> QED BY <2>2, <2>4, <2>5, <2>6
<1>10. \A i \in 1..(Len(queue') - 1) :
         queue'[i + 1].first = queue'[i].first + queue'[i].len
  <2> SUFFICES ASSUME NEW i \in 1..(Len(queue') - 1)
               PROVE  queue'[i + 1].first = queue'[i].first + queue'[i].len
    OBVIOUS
  <2>1. /\ i \in 1..(Len(queue) - 1) /\ i + 1 \in 1..(Len(queue) - 1)
        /\ queue'[i] = queue[i + 1] /\ queue'[i + 1] = queue[(i + 1) + 1]
    BY <1>2
  <2>2. queue[(i + 1) + 1].first = queue[i + 1].first + queue[i + 1].len
    BY <1>5, <2>1 DEF InputInv, QueueIsConsecutive
  <2> QED BY <2>1, <2>2
<1>11. \A i \in 1..Len(queue') : queue'[i].kind # "data" => queue'[i].len = 0
  BY <1>2 DEF InputInv, QueueIsConsecutive
<1>12. QueueIsConsecutive'
  BY <1>1, <1>5, <1>6, <1>8, <1>9, <1>10, <1>11 DEF QueueIsConsecutive
<1>13. InputAccounting' /\ InputInOrder'
  <2>1. WireBytes' = WireBytes /\ InputInOrder'
    BY <1>1 DEF WireBytes, DataAt, InputInv, InputInOrder
  <2> QED BY <1>1, <1>5, <2>1 DEF InputInv, InputAccounting
<1> QED BY <1>12, <1>13 DEF InputInv

\* The packet sent is the byte that follows the ones on the wire.
LEMMA SendPacketKeepsInputInv == TypeOK /\ InputInv /\ SendPacket => InputInv'
<1> SUFFICES ASSUME TypeOK, InputInv, SendPacket PROVE InputInv'
  OBVIOUS
<1>1. /\ ipc = "write" /\ Transmit("data", NextByte)
      /\ UNCHANGED <<queue, offered, ev>>
  BY DEF SendPacket, appVars
<1>2. /\ written \in Nat /\ inputBytes \in Nat /\ offered \in Nat
      /\ ev.len \in Nat /\ ev.first \in Nat
  BY DEF TypeOK, Events
<1>3. written < ev.len /\ ev.first = inputBytes + 1 /\ ev.kind = "data"
  BY <1>1, <1>2 DEF InputInv, QueueIsConsecutive, Pumping
<1>4. WireBytes' = 1..(inputBytes + written + 1) /\ InputInOrder'
  <2>1. NextByte = (inputBytes + written) + 1
    BY <1>2, <1>3 DEF NextByte
  <2>2. WireBytes = 1..(inputBytes + written) /\ InputInOrder
    BY DEF InputInv, InputAccounting
  <2> QED BY <1>1, <1>2, <2>1, <2>2, TransmitNextByte
<1>5. CASE written + 1 = ev.len
  <2>1. written' = 0 /\ inputBytes' = inputBytes + ev.len /\ ipc' = "check"
    BY <1>5 DEF SendPacket, Counted
  <2>2. InputAccounting'
    BY <1>2, <1>4, <1>5, <2>1 DEF InputAccounting
  <2>3. inputBytes' + InHand' = inputBytes + InHand
    BY <1>1, <1>2, <2>1 DEF InHand
  <2>4. QueueIsConsecutive'
    BY <1>1, <2>1, <2>3 DEF InputInv, QueueIsConsecutive, Pumping
  <2> QED BY <1>4, <2>2, <2>4 DEF InputInv
<1>6. CASE written + 1 # ev.len
  <2>1. written' = written + 1 /\ UNCHANGED <<inputBytes, ipc>>
    BY <1>6 DEF SendPacket
  <2>2. written' < ev'.len
    BY <1>1, <1>2, <1>3, <1>6, <2>1
  <2>3. InputAccounting'
    BY <1>1, <1>2, <1>3, <1>4, <2>1, <2>2 DEF InputAccounting
  <2>4. QueueIsConsecutive'
    BY <1>1, <2>1, <2>2 DEF InputInv, QueueIsConsecutive, Pumping, InHand
  <2> QED BY <1>4, <2>3, <2>4 DEF InputInv
<1> QED BY <1>5, <1>6

LEMMA InputPumpKeepsInputInv == TypeOK /\ InputInv /\ InputPump => InputInv'
<1> SUFFICES ASSUME TypeOK, InputInv, InputPump PROVE InputInv'
  OBVIOUS
<1>a. /\ written \in Nat /\ inputBytes \in Nat /\ offered \in Nat
      /\ ev.len \in Nat /\ ev.first \in Nat
  BY DEF TypeOK, Events
\* The pump stops pumping: only the bytes on the wire still matter.
<1>b. ASSUME UNCHANGED <<queue, offered, inputBytes, written, ev>>,
             WireBytes' = WireBytes, InputInOrder',
             ipc' \notin {"check", "recv", "recheck", "write", "resize"}
      PROVE  InputInv'
  <2>1. QueueIsConsecutive'
    BY <1>b DEF InputInv, QueueIsConsecutive, Pumping
  <2> QED BY <1>b, <2>1, SameBytes DEF InputInv
\* Nothing is in hand before or after the step.
<1>c. ASSUME UNCHANGED <<queue, offered, inputBytes, written, ev>>,
             WireBytes' = WireBytes, InputInOrder',
             ipc \in {"check", "recv", "resize"}, ipc' \in {"check", "recv"}
      PROVE  InputInv'
  <2>1. InHand = 0 /\ InHand' = 0 /\ Pumping
    BY <1>c DEF InHand, Pumping
  <2>2. QueueIsConsecutive'
    BY <1>c, <2>1 DEF InputInv, QueueIsConsecutive, Pumping
  <2> QED BY <1>c, <2>2, SameBytes DEF InputInv
<1>d. ASSUME UNCHANGED toServer PROVE WireBytes' = WireBytes /\ InputInOrder'
  BY <1>d DEF InputInv, WireBytes, DataAt, InputInOrder
<1>1. CASE CheckCancelled
  BY <1>1, <1>b, <1>c, <1>d DEF CheckCancelled, PumpReturns, appVars, wireVars
<1>2. CASE RecvEvent
  BY <1>2, RecvKeepsInputInv
<1>3. CASE RecvDisconnected
  <2>1. /\ ipc = "recv" /\ ipc' = "recheck" /\ queue = <<>>
        /\ ev' = [kind |-> "eof", first |-> offered + 1, len |-> 0]
        /\ UNCHANGED <<queue, offered, written, inputBytes, toServer>>
    BY <1>3 DEF RecvDisconnected, appVars, wireVars
  <2>2. written = 0 /\ offered = inputBytes
    BY <1>a, <2>1 DEF InputInv, QueueIsConsecutive, Pumping, InHand
  <2>3. QueueIsConsecutive'
    BY <1>a, <2>1, <2>2 DEF InputInv, QueueIsConsecutive, Pumping, InHand
  <2>4. InputAccounting' /\ InputInOrder'
    BY <2>1, <2>2, <1>d DEF InputInv, InputAccounting
  <2> QED BY <2>3, <2>4 DEF InputInv
<1>4. CASE RecvTimeout
  BY <1>4, <1>c, <1>d DEF RecvTimeout, appVars, wireVars
<1>5. CASE Dispatch
  <2>1. /\ ipc = "recheck" /\ UNCHANGED <<queue, offered, inputBytes, written, ev>>
        /\ WireBytes' = WireBytes /\ InputInOrder'
    BY <1>5, <1>d DEF Dispatch, appVars, wireVars
  <2>2. CASE ipc' \notin {"check", "write", "resize"}
    <3>1. ipc' \notin {"recv", "recheck"}
      BY <1>5 DEF Dispatch, PumpReturns, Handler, TypeOK, Events
    <3> QED BY <2>1, <2>2, <3>1, <1>b
  <2>3. CASE ipc' \in {"check", "write", "resize"}
    <3>1. ev.kind # "error" /\ ipc' = Handler(ev)
      BY <1>5, <2>3 DEF Dispatch, PumpReturns
    <3>2. /\ ipc' = "write" => ev.len > 0
          /\ ipc' # "write" => ev.len = 0
      BY <1>a, <2>1, <2>3, <3>1
         DEF Handler, TypeOK, Events, InputInv, QueueIsConsecutive
    <3>3. InHand' = InHand /\ Pumping /\ written = 0
      BY <2>1, <2>3, <3>2 DEF InHand, Pumping, InputInv, QueueIsConsecutive
    <3>4. QueueIsConsecutive'
      BY <1>a, <2>1, <2>3, <3>2, <3>3 DEF InputInv, QueueIsConsecutive, Pumping
    <3> QED BY <2>1, <3>4, SameBytes DEF InputInv
  <2> QED BY <2>2, <2>3
<1>6. CASE SendPacket
  BY <1>6, SendPacketKeepsInputInv
<1>7. CASE WriteCancelled
  BY <1>7, <1>b, <1>d DEF WriteCancelled, PumpReturns, appVars, wireVars
<1>8. CASE WriteFails
  BY <1>8, <1>b, <1>d DEF WriteFails, PumpReturns, appVars, wireVars
<1>9. CASE Resize
  <2>1. /\ ipc = "resize" /\ UNCHANGED <<queue, offered, inputBytes, written, ev>>
    BY <1>9 DEF Resize, appVars
  <2>2. CASE Transmit("resize", 0) /\ ipc' = "check"
    <3>1. WireBytes' = WireBytes /\ InputInOrder'
      BY <2>2, TransmitWithoutData DEF InputInv
    <3> QED BY <2>1, <2>2, <3>1, <1>c
  <2>3. CASE UNCHANGED toServer /\ ipc' \in {"done", "emergency"}
    BY <2>1, <2>3, <1>b, <1>d
  <2> QED BY <1>9, <2>2, <2>3 DEF Resize, PumpReturns
<1>10. CASE HandleCancel
  BY <1>10, <1>b, <1>d DEF HandleCancel, appVars, wireVars
<1>11. CASE CloseOnCancel
  <2>1. PICK outcome \in {"ok", "err"} : CloseChannel(outcome) /\ PumpReturns(outcome)
    BY <1>11 DEF CloseOnCancel
  <2>2. WireBytes' = WireBytes /\ InputInOrder'
    BY <2>1, CloseChannelWithoutData DEF InputInv
  <2> QED BY <1>11, <2>1, <2>2, <1>b DEF CloseOnCancel, PumpReturns, appVars
<1>12. CASE HandleEof
  <2>1. PICK outcome \in {"ok", "err"} : FinishInput(outcome) /\ PumpReturns(outcome)
    BY <1>12 DEF HandleEof
  <2>2. WireBytes' = WireBytes /\ InputInOrder'
    BY <2>1, FinishInputWithoutData DEF InputInv
  <2> QED BY <1>12, <2>1, <2>2, <1>b DEF HandleEof, PumpReturns, appVars
<1>13. CASE EmergencyClose
  <2>1. PICK outcome \in {"ok", "err"} : CloseChannel(outcome) /\ emergency' = outcome
    BY <1>13 DEF EmergencyClose
  <2>2. WireBytes' = WireBytes /\ InputInOrder'
    BY <2>1, CloseChannelWithoutData DEF InputInv
  <2> QED BY <1>13, <2>2, <1>b DEF EmergencyClose, appVars
<1> QED BY <1>1, <1>2, <1>3, <1>4, <1>5, <1>6, <1>7, <1>8, <1>9, <1>10, <1>11,
           <1>12, <1>13 DEF InputPump

LEMMA EnvironmentKeepsInputInv == TypeOK /\ InputInv /\ Environment => InputInv'
<1> SUFFICES ASSUME TypeOK, InputInv, Environment PROVE InputInv'
  OBVIOUS
<1>1. CASE SendEvent
  BY <1>1, SendKeepsInputInv DEF SendEvent
<1>2. CASE ~SendEvent
  <2>1. UNCHANGED <<queue, offered, ipc, inputBytes, written, ev, toServer>>
    BY <1>2 DEF Environment, Application, DropSender, Remote, RemoteData,
        RemoteExitStatus, RemoteExitSignal, RemoteEof, RemoteClose, GrantWindow,
        LinkDown, appVars, pumpVars, wireVars
  <2>2. WireBytes' = WireBytes /\ InputInOrder'
    BY <2>1 DEF InputInv, WireBytes, DataAt, InputInOrder
  <2> QED BY <2>1, <2>2, IdleKeepsInputInv
<1> QED BY <1>1, <1>2

LEMMA OutputPumpKeepsInputInv == TypeOK /\ InputInv /\ OutputPump => InputInv'
<1> SUFFICES ASSUME TypeOK, InputInv, OutputPump PROVE InputInv'
  OBVIOUS
<1>1. UNCHANGED <<queue, offered, ipc, inputBytes, written, ev>>
  BY DEF OutputPump, ReadPending, ReadData, ReadMetadata, ReadEnd, ReadTimesOut,
      WriteOutput, OutputFails, CancelInput, Join, CloseAndReturn, appVars, pumpVars
<1>2. UNCHANGED toServer \/ \E outcome : CloseChannel(outcome)
  BY DEF OutputPump, ReadPending, ReadData, ReadMetadata, ReadEnd, ReadTimesOut,
      WriteOutput, OutputFails, CancelInput, Join, CloseAndReturn, wireVars
<1>3. WireBytes' = WireBytes /\ InputInOrder'
  <2>1. CASE UNCHANGED toServer
    BY <2>1 DEF InputInv, WireBytes, DataAt, InputInOrder
  <2>2. ASSUME NEW outcome, CloseChannel(outcome)
        PROVE  WireBytes' = WireBytes /\ InputInOrder'
    BY <2>2, CloseChannelWithoutData DEF InputInv
  <2> QED BY <1>2, <2>1, <2>2
<1> QED BY <1>1, <1>3, IdleKeepsInputInv

LEMMA InputInvCorrect == Spec => []InputInv
<1>1. TypeOK /\ InputInv /\ [Next]_vars => InputInv'
  <2> SUFFICES ASSUME TypeOK, InputInv, [Next]_vars PROVE InputInv'
    OBVIOUS
  <2>1. CASE UNCHANGED vars
    <3>1. UNCHANGED <<queue, offered, ipc, inputBytes, written, ev, toServer>>
      BY <2>1 DEF vars, appVars, pumpVars, wireVars
    <3>2. WireBytes' = WireBytes /\ InputInOrder'
      BY <3>1 DEF InputInv, WireBytes, DataAt, InputInOrder
    <3> QED BY <3>1, <3>2, IdleKeepsInputInv
  <2> QED BY <2>1, EnvironmentKeepsInputInv, InputPumpKeepsInputInv,
             OutputPumpKeepsInputInv DEF Next
<1> QED BY InitInputInv, <1>1, TypeCorrect, PTL DEF Spec

\* The bytes the channel accepted are the first inputBytes + written bytes the
\* application handed over, whatever cancels, fails or closes meanwhile.
THEOREM InputAccountingHolds == Spec => []InputAccounting
<1>1. InputInv => InputAccounting
  BY DEF InputInv
<1> QED BY <1>1, InputInvCorrect, PTL

\* And they are on the channel in that order.
THEOREM InputInOrderHolds == Spec => []InputInOrder
<1>1. InputInv => InputInOrder
  BY DEF InputInv
<1> QED BY <1>1, InputInvCorrect, PTL
-----------------------------------------------------------------------------
(* The bytes from the remote to the local output.  A data message without  *)
(* data is taken for the end of the channel (ReadData), so what follows is *)
(* about remotes that send none.                                           *)

\* A message is put at the end of the ones on their way.
LEMMA DeliverAppends ==
    ASSUME TypeOK, NEW msg \in Messages, fromServer' = Append(fromServer, msg)
    PROVE  /\ Len(fromServer) \in Nat /\ Len(fromServer') = Len(fromServer) + 1
           /\ \A i \in 1..Len(fromServer) : fromServer'[i] = fromServer[i]
           /\ fromServer'[Len(fromServer) + 1] = msg
<1>1. fromServer \in Seq(Messages)
  BY DEF TypeOK
<1> QED BY <1>1, AppendProperties, LenProperties

\* And taken from the front.
LEMMA TailDrops ==
    ASSUME TypeOK, fromServer # <<>>, fromServer' = Tail(fromServer)
    PROVE  /\ Len(fromServer) \in Nat \ {0} /\ Len(fromServer') = Len(fromServer) - 1
           /\ \A i \in 1..(Len(fromServer) - 1) : fromServer'[i] = fromServer[i + 1]
           /\ Head(fromServer) = fromServer[1] /\ Head(fromServer) \in Messages
<1>1. fromServer \in Seq(Messages)
  BY DEF TypeOK
<1>2. Len(fromServer) \in Nat /\ Len(fromServer) # 0
  BY <1>1, LenProperties, EmptySeq
<1>3. /\ Len(fromServer') = Len(fromServer) - 1
      /\ \A i \in 1..(Len(fromServer) - 1) : fromServer'[i] = fromServer[i + 1]
      /\ Head(fromServer) = fromServer[1] /\ Head(fromServer) \in Messages
  BY <1>1, HeadTailProperties
<1> QED BY <1>2, <1>3

LEMMA OutputTypes ==
    TypeOK => /\ Len(sink) \in Nat /\ Len(chunk) \in Nat /\ Len(pending) \in Nat
              /\ sink \in Seq(Nat) /\ chunk \in Seq(Nat) /\ pending \in Seq(Nat)
              /\ served.bytes \in Nat /\ outputBytes \in Nat /\ Len(fromServer) \in Nat
<1> SUFFICES ASSUME TypeOK PROVE /\ Len(sink) \in Nat /\ Len(chunk) \in Nat /\ Len(pending) \in Nat
              /\ sink \in Seq(Nat) /\ chunk \in Seq(Nat) /\ pending \in Seq(Nat)
              /\ served.bytes \in Nat /\ outputBytes \in Nat /\ Len(fromServer) \in Nat
  OBVIOUS
<1>1. /\ sink \in Seq(Nat) /\ chunk \in Seq(Nat) /\ pending \in Seq(Nat)
      /\ fromServer \in Seq(Messages) /\ outputBytes \in Nat
  BY DEF TypeOK
<1>2. served.bytes \in Nat
  BY DEF TypeOK
<1> QED BY <1>1, <1>2, LenProperties

\* The length of the data of a message.
LEMMA MessageBytesType ==
    ASSUME NEW msg \in Messages
    PROVE  MessageBytes(msg) \in Nat
<1>1. CASE msg.kind = "data"
  <2>1. msg.bytes \in Seq(Nat)
    BY <1>1 DEF Messages
  <2> QED BY <1>1, <2>1, LenProperties DEF MessageBytes
<1>2. CASE msg.kind # "data"
  BY <1>2 DEF MessageBytes
<1> QED BY <1>1, <1>2

\* There are starting points for the messages on their way.
Arrives == \E start \in [1..(Len(fromServer) + 1) -> 0..served.bytes] : Arriving(start)

\* They remain when nothing is delivered and nothing taken.
LEMMA ArrivesSame ==
    ASSUME TypeOK, Arrives, fromServer' = fromServer, served'.bytes = served.bytes,
           Len(sink') + Len(chunk') + Len(pending') = Len(sink) + Len(chunk) + Len(pending)
    PROVE  Arrives'
<1>1. PICK start \in [1..(Len(fromServer) + 1) -> 0..served.bytes] : Arriving(start)
  BY DEF Arrives
<1>2. Arriving(start)'
  BY <1>1 DEF Arriving
<1> QED BY <1>1, <1>2 DEF Arrives

\* A message that begins where all the others end adds its own.
LEMMA ArrivesMore ==
    ASSUME TypeOK, Arrives, NEW msg \in Messages, fromServer' = Append(fromServer, msg),
           served'.bytes = served.bytes + MessageBytes(msg),
           msg.kind = "data" => /\ msg.bytes # <<>>
                                /\ \A k \in 1..Len(msg.bytes) : msg.bytes[k] = served.bytes + k,
           UNCHANGED <<sink, chunk, pending>>
    PROVE  Arrives'
<1>1. PICK start \in [1..(Len(fromServer) + 1) -> 0..served.bytes] : Arriving(start)
  BY DEF Arrives
<1> DEFINE n == Len(fromServer)
           m == MessageBytes(msg)
           b == served.bytes
           more == [i \in 1..(n + 2) |-> IF i <= n + 1 THEN start[i] ELSE b + m]
<1>2. n \in Nat /\ m \in Nat /\ b \in Nat
  BY OutputTypes, MessageBytesType
<1>3. /\ Len(fromServer') = n + 1 /\ fromServer'[n + 1] = msg
      /\ \A i \in 1..n : fromServer'[i] = fromServer[i]
  BY DeliverAppends
<1>4. \A i \in 1..(n + 1) : start[i] \in 0..b
  BY <1>1
<1>5. /\ start[1] = Len(sink) + Len(chunk) + Len(pending) /\ start[n + 1] = b
      /\ \A i \in 1..n :
           /\ start[i + 1] = start[i] + MessageBytes(fromServer[i])
           /\ fromServer[i].kind = "data" =>
                /\ fromServer[i].bytes # <<>>
                /\ \A k \in 1..Len(fromServer[i].bytes) : fromServer[i].bytes[k] = start[i] + k
  BY <1>1 DEF Arriving
<1>6. served'.bytes = b + m
  OBVIOUS
<1> HIDE DEF n, m, b
<1>7. more \in [1..((n + 1) + 1) -> 0..(b + m)]
  <2>1. \A i \in 1..(n + 2) : (IF i <= n + 1 THEN start[i] ELSE b + m) \in 0..(b + m)
    BY <1>2, <1>4
  <2>2. (n + 1) + 1 = n + 2
    BY <1>2
  <2> QED BY <2>1, <2>2
<1>8. PICK next \in [1..((n + 1) + 1) -> 0..(b + m)] :
          (\A i \in 1..(n + 1) : next[i] = start[i]) /\ next[n + 2] = b + m
  <2>1. (\A i \in 1..(n + 1) : more[i] = start[i]) /\ more[n + 2] = b + m
    BY <1>2
  <2> HIDE DEF more
  <2> QED BY <1>7, <2>1
<1> HIDE DEF more
<1>9. /\ next[1] = Len(sink') + Len(chunk') + Len(pending')
      /\ next[(n + 1) + 1] = b + m
  <2>1. 1 \in 1..(n + 1) /\ (n + 1) + 1 = n + 2
    BY <1>2
  <2> QED BY <1>5, <1>8, <2>1
<1>10. ASSUME NEW i \in 1..(n + 1)
       PROVE  /\ next[i + 1] = next[i] + MessageBytes(fromServer'[i])
              /\ fromServer'[i].kind = "data" =>
                  /\ fromServer'[i].bytes # <<>>
                  /\ \A k \in 1..Len(fromServer'[i].bytes) : fromServer'[i].bytes[k] = next[i] + k
  <2>1. CASE i = n + 1
    <3>1. next[i + 1] = b + m /\ next[i] = b
      <4>1. i + 1 = n + 2
        BY <1>2, <2>1
      <4> QED BY <1>5, <1>8, <2>1, <4>1
    <3>2. fromServer'[i] = msg
      BY <1>3, <2>1
    <3> QED BY <3>1, <3>2 DEF m, b
  <2>2. CASE i # n + 1
    <3>1. i \in 1..n /\ i + 1 \in 1..(n + 1)
      BY <1>2, <2>2
    <3>2. fromServer'[i] = fromServer[i] /\ next[i] = start[i] /\ next[i + 1] = start[i + 1]
      BY <1>3, <1>8, <3>1
    <3> QED BY <1>5, <3>1, <3>2
  <2> QED BY <2>1, <2>2
<1>11. Arriving(next)'
  BY <1>3, <1>6, <1>9, <1>10 DEF Arriving, MessageBytes
<1> QED BY <1>3, <1>6, <1>8, <1>11 DEF Arrives

\* Taking the first message moves its bytes.
LEMMA ArrivesLess ==
    ASSUME TypeOK, Arrives, fromServer # <<>>, fromServer' = Tail(fromServer),
           served'.bytes = served.bytes,
           Len(sink') + Len(chunk') + Len(pending')
             = Len(sink) + Len(chunk) + Len(pending) + MessageBytes(Head(fromServer))
    PROVE  Arrives'
<1>1. PICK start \in [1..(Len(fromServer) + 1) -> 0..served.bytes] : Arriving(start)
  BY DEF Arrives
<1> DEFINE n == Len(fromServer)
           b == served.bytes
           less == [i \in 1..n |-> start[i + 1]]
<1>2. n \in Nat \ {0} /\ b \in Nat
  BY OutputTypes, TailDrops
<1>3. /\ Len(fromServer') = n - 1 /\ Head(fromServer) = fromServer[1]
      /\ \A i \in 1..(n - 1) : fromServer'[i] = fromServer[i + 1]
  BY TailDrops
<1>4. \A i \in 1..(n + 1) : start[i] \in 0..b
  BY <1>1
<1>5. /\ start[1] = Len(sink) + Len(chunk) + Len(pending) /\ start[n + 1] = b
      /\ \A i \in 1..n :
           /\ start[i + 1] = start[i] + MessageBytes(fromServer[i])
           /\ fromServer[i].kind = "data" =>
                /\ fromServer[i].bytes # <<>>
                /\ \A k \in 1..Len(fromServer[i].bytes) : fromServer[i].bytes[k] = start[i] + k
  BY <1>1 DEF Arriving
<1>6. served'.bytes = b
  OBVIOUS
<1> HIDE DEF n, b
<1>7. less \in [1..((n - 1) + 1) -> 0..b]
  <2>1. \A i \in 1..n : start[i + 1] \in 0..b
    BY <1>2, <1>4
  <2>2. (n - 1) + 1 = n
    BY <1>2
  <2> QED BY <2>1, <2>2
<1>8. PICK next \in [1..((n - 1) + 1) -> 0..b] : \A i \in 1..n : next[i] = start[i + 1]
  <2>1. \A i \in 1..n : less[i] = start[i + 1]
    OBVIOUS
  <2> HIDE DEF less
  <2> QED BY <1>7, <2>1
<1> HIDE DEF less
<1>9. /\ next[1] = Len(sink') + Len(chunk') + Len(pending')
      /\ next[(n - 1) + 1] = b
  <2>1. 1 \in 1..n /\ (n - 1) + 1 = n /\ n \in 1..n /\ 1 + 1 = 2
    BY <1>2
  <2>2. start[2] = start[1] + MessageBytes(fromServer[1])
    BY <1>5, <2>1
  <2>3. next[1] = start[2] /\ next[n] = start[n + 1]
    BY <1>8, <2>1
  <2> QED BY <1>3, <1>5, <2>1, <2>2, <2>3
<1>10. ASSUME NEW i \in 1..(n - 1)
       PROVE  /\ next[i + 1] = next[i] + MessageBytes(fromServer'[i])
              /\ fromServer'[i].kind = "data" =>
                  /\ fromServer'[i].bytes # <<>>
                  /\ \A k \in 1..Len(fromServer'[i].bytes) : fromServer'[i].bytes[k] = next[i] + k
  <2>1. i \in 1..n /\ i + 1 \in 1..n
    BY <1>2
  <2>2. fromServer'[i] = fromServer[i + 1] /\ next[i] = start[i + 1] /\ next[i + 1] = start[(i + 1) + 1]
    BY <1>3, <1>8, <2>1
  <2> QED BY <1>5, <2>1, <2>2
<1>11. Arriving(next)'
  BY <1>3, <1>6, <1>9, <1>10 DEF Arriving, MessageBytes
<1> QED BY <1>3, <1>6, <1>8, <1>11 DEF Arrives
LEMMA MetadataMore ==
    ASSUME TypeOK, MetadataKept, NEW msg \in Messages, fromServer' = Append(fromServer, msg),
           result' = result,
           served'.status = IF msg.kind = "status" THEN msg.value ELSE served.status,
           served'.signal = IF msg.kind = "signal" THEN msg.value ELSE served.signal
    PROVE  MetadataKept'
<1> DEFINE n == Len(fromServer)
<1>1. /\ n \in Nat /\ Len(fromServer') = n + 1 /\ fromServer'[n + 1] = msg
      /\ \A i \in 1..n : fromServer'[i] = fromServer[i]
  BY DeliverAppends
<1>2. /\ \A i \in 1..n : fromServer[i].kind = "status" =>
            fromServer[i].value = served.status \/ \E j \in (i + 1)..n : fromServer[j].kind = "status"
      /\ \A i \in 1..n : fromServer[i].kind = "signal" =>
            fromServer[i].value = served.signal \/ \E j \in (i + 1)..n : fromServer[j].kind = "signal"
      /\ result.status = served.status \/ \E j \in 1..n : fromServer[j].kind = "status"
      /\ result.signal = served.signal \/ \E j \in 1..n : fromServer[j].kind = "signal"
  BY DEF MetadataKept
<1> HIDE DEF n
<1>3. /\ \A i \in 1..(n + 1) : i = n + 1 \/ i \in 1..n
      /\ \A i \in 1..n : n + 1 \in (i + 1)..(n + 1)
      /\ \A i \in 1..n : \A j \in (i + 1)..n : j \in 1..n /\ j \in (i + 1)..(n + 1)
      /\ \A j \in 1..n : j \in 1..(n + 1)
      /\ n + 1 \in 1..(n + 1)
  BY <1>1
<1>4. ASSUME NEW i \in 1..(n + 1), fromServer'[i].kind = "status"
      PROVE  \/ fromServer'[i].value = served'.status
             \/ \E j \in (i + 1)..(n + 1) : fromServer'[j].kind = "status"
  BY <1>1, <1>2, <1>3, <1>4
<1>5. ASSUME NEW i \in 1..(n + 1), fromServer'[i].kind = "signal"
      PROVE  \/ fromServer'[i].value = served'.signal
             \/ \E j \in (i + 1)..(n + 1) : fromServer'[j].kind = "signal"
  BY <1>1, <1>2, <1>3, <1>5
<1>6. result'.status = served'.status \/ \E j \in 1..(n + 1) : fromServer'[j].kind = "status"
  BY <1>1, <1>2, <1>3
<1>7. result'.signal = served'.signal \/ \E j \in 1..(n + 1) : fromServer'[j].kind = "signal"
  BY <1>1, <1>2, <1>3
<1> QED BY <1>1, <1>4, <1>5, <1>6, <1>7 DEF MetadataKept

\* Taking a message notes what it says.
LEMMA MetadataLess ==
    ASSUME TypeOK, MetadataKept, fromServer # <<>>, fromServer' = Tail(fromServer),
           served' = served,
           result'.status = IF Head(fromServer).kind = "status" THEN Head(fromServer).value
                                                                ELSE result.status,
           result'.signal = IF Head(fromServer).kind = "signal" THEN Head(fromServer).value
                                                                ELSE result.signal
    PROVE  MetadataKept'
<1> DEFINE n == Len(fromServer)
<1>1. /\ n \in Nat \ {0} /\ Len(fromServer') = n - 1 /\ Head(fromServer) = fromServer[1]
      /\ \A i \in 1..(n - 1) : fromServer'[i] = fromServer[i + 1]
  BY TailDrops
<1>2. /\ \A i \in 1..n : fromServer[i].kind = "status" =>
            fromServer[i].value = served.status \/ \E j \in (i + 1)..n : fromServer[j].kind = "status"
      /\ \A i \in 1..n : fromServer[i].kind = "signal" =>
            fromServer[i].value = served.signal \/ \E j \in (i + 1)..n : fromServer[j].kind = "signal"
      /\ result.status = served.status \/ \E j \in 1..n : fromServer[j].kind = "status"
      /\ result.signal = served.signal \/ \E j \in 1..n : fromServer[j].kind = "signal"
  BY DEF MetadataKept
<1> HIDE DEF n
<1>3. /\ \A i \in 1..(n - 1) : i + 1 \in 1..n
      /\ \A i \in 1..(n - 1) : \A j \in ((i + 1) + 1)..n :
            j - 1 \in (i + 1)..(n - 1) /\ j - 1 \in 1..(n - 1) /\ (j - 1) + 1 = j
      /\ \A j \in (1 + 1)..n : j - 1 \in 1..(n - 1) /\ (j - 1) + 1 = j
      /\ \A j \in 1..n : j = 1 \/ j \in (1 + 1)..n
      /\ 1 \in 1..n
  BY <1>1
<1>4. ASSUME NEW i \in 1..(n - 1), fromServer'[i].kind = "status"
      PROVE  \/ fromServer'[i].value = served'.status
             \/ \E j \in (i + 1)..(n - 1) : fromServer'[j].kind = "status"
  <2>1. CASE \E j \in ((i + 1) + 1)..n : fromServer[j].kind = "status"
    BY <1>1, <1>3, <2>1
  <2> QED BY <1>1, <1>2, <1>3, <1>4, <2>1
<1>5. ASSUME NEW i \in 1..(n - 1), fromServer'[i].kind = "signal"
      PROVE  \/ fromServer'[i].value = served'.signal
             \/ \E j \in (i + 1)..(n - 1) : fromServer'[j].kind = "signal"
  <2>1. CASE \E j \in ((i + 1) + 1)..n : fromServer[j].kind = "signal"
    BY <1>1, <1>3, <2>1
  <2> QED BY <1>1, <1>2, <1>3, <1>5, <2>1
<1>6. result'.status = served'.status \/ \E j \in 1..(n - 1) : fromServer'[j].kind = "status"
  <2>1. CASE \E j \in (1 + 1)..n : fromServer[j].kind = "status"
    BY <1>1, <1>3, <2>1
  <2>2. CASE \A j \in (1 + 1)..n : fromServer[j].kind # "status"
    BY <1>1, <1>2, <1>3, <2>2
  <2> QED BY <2>1, <2>2
<1>7. result'.signal = served'.signal \/ \E j \in 1..(n - 1) : fromServer'[j].kind = "signal"
  <2>1. CASE \E j \in (1 + 1)..n : fromServer[j].kind = "signal"
    BY <1>1, <1>3, <2>1
  <2>2. CASE \A j \in (1 + 1)..n : fromServer[j].kind # "signal"
    BY <1>1, <1>2, <1>3, <2>2
  <2> QED BY <2>1, <2>2
<1> QED BY <1>1, <1>4, <1>5, <1>6, <1>7 DEF MetadataKept

\* While the remote may still send, nothing has ended.
LEMMA ProgressMore ==
    ASSUME TypeOK, CopyProgress, NEW msg \in Messages, fromServer' = Append(fromServer, msg),
           link = "up", served.phase # "closed", msg.kind = "close" => served'.phase = "closed",
           UNCHANGED <<opc, chunk, outputResult, finished, pending, returned>>
    PROVE  CopyProgress'
<1>1. /\ Len(fromServer) \in Nat /\ Len(fromServer') = Len(fromServer) + 1
      /\ \A i \in 1..Len(fromServer) : fromServer'[i] = fromServer[i]
      /\ fromServer'[Len(fromServer) + 1] = msg
  BY DeliverAppends
<1>2. ~finished /\ \A i \in 1..Len(fromServer) : fromServer[i].kind # "close"
  BY DEF CopyProgress
<1>3. \A i \in 1..Len(fromServer') : fromServer'[i].kind = "close" =>
          i = Len(fromServer') /\ served'.phase = "closed"
  BY <1>1, <1>2
<1> QED BY <1>2, <1>3 DEF CopyProgress

\* What a read hands over and what it leaves are the bytes, in two pieces.
LEMMA FilledAndLeft ==
    ASSUME NEW bytes \in Seq(Nat)
    PROVE  /\ Len(Filled(bytes)) \in Nat /\ Len(Left(bytes)) \in Nat
           /\ Len(Filled(bytes)) + Len(Left(bytes)) = Len(bytes)
           /\ bytes # <<>> => Filled(bytes) # <<>>
           /\ \A k \in 1..Len(Filled(bytes)) : k \in 1..Len(bytes) /\ Filled(bytes)[k] = bytes[k]
           /\ \A k \in 1..Len(Left(bytes)) :
                /\ Len(Filled(bytes)) + k \in 1..Len(bytes)
                /\ Left(bytes)[k] = bytes[Len(Filled(bytes)) + k]
<1>1. CASE Len(bytes) <= BufLen
  <2>1. Filled(bytes) = bytes /\ Left(bytes) = <<>>
    BY <1>1 DEF Filled, Left
  <2>2. Len(bytes) \in Nat /\ Len(<<>>) = 0
    BY LenProperties, EmptySeq
  <2> QED BY <2>1, <2>2
<1>2. CASE ~(Len(bytes) <= BufLen)
  <2> DEFINE n == Len(bytes)
             f == SubSeq(bytes, 1, BufLen)
             l == SubSeq(bytes, BufLen + 1, n)
  <2>1. Filled(bytes) = f /\ Left(bytes) = l
    BY <1>2 DEF Filled, Left
  <2>2. n \in Nat /\ BufLen \in Nat \ {0} /\ BufLen < n
    BY <1>2, BufLenAssumption, LenProperties
  <2>3. Len(f) = BufLen /\ \A k \in 1..BufLen : f[k] = bytes[k]
    <3>1. 1 \in 1..(n + 1) /\ BufLen \in 0..n /\ (BufLen - 1) + 1 = BufLen /\ 1 - 1 = 0
      BY <2>2
    <3>2. \A k \in 1..BufLen : (1 + k) - 1 = k
      BY <2>2
    <3>3. Len(f) = (BufLen - 1) + 1 /\ \A k \in 1..((BufLen - 1) + 1) : f[k] = bytes[(1 + k) - 1]
      BY <3>1, SubSeqProperties
    <3> QED BY <3>1, <3>2, <3>3
  <2>4. Len(l) = n - BufLen /\ \A k \in 1..(n - BufLen) : l[k] = bytes[BufLen + k]
    <3>1. /\ BufLen + 1 \in 1..(n + 1) /\ n \in ((BufLen + 1) - 1)..n
          /\ (n - (BufLen + 1)) + 1 = n - BufLen
      BY <2>2
    <3>2. \A k \in 1..(n - BufLen) : ((BufLen + 1) + k) - 1 = BufLen + k
      BY <2>2
    <3>3. /\ Len(l) = (n - (BufLen + 1)) + 1
          /\ \A k \in 1..((n - (BufLen + 1)) + 1) : l[k] = bytes[((BufLen + 1) + k) - 1]
      BY <3>1, SubSeqProperties
    <3> QED BY <3>1, <3>2, <3>3
  <2>5. f # <<>>
    BY <2>2, <2>3, EmptySeq
  <2> HIDE DEF n, f, l
  <2>6. /\ \A k \in 1..BufLen : k \in 1..n
        /\ \A k \in 1..(n - BufLen) : BufLen + k \in 1..n
        /\ n - BufLen \in Nat /\ BufLen + (n - BufLen) = n
    BY <2>2
  <2>7. /\ Len(f) \in Nat /\ Len(l) \in Nat /\ Len(f) + Len(l) = n /\ f # <<>>
        /\ \A k \in 1..Len(f) : k \in 1..n /\ f[k] = bytes[k]
        /\ \A k \in 1..Len(l) : Len(f) + k \in 1..n /\ l[k] = bytes[Len(f) + k]
    BY <2>2, <2>3, <2>4, <2>5, <2>6
  <2> QED BY <2>1, <2>7 DEF n
<1> QED BY <1>1, <1>2
LEMMA ConsecutiveParts ==
    OutputIsConsecutive <=>
        /\ \A k \in 1..Len(chunk) : chunk[k] = Len(sink) + k
        /\ \A k \in 1..Len(pending) : pending[k] = Len(sink) + Len(chunk) + k
        /\ outputBytes = Len(sink)
        /\ Arrives
BY DEF OutputIsConsecutive, Arrives

LEMMA ConsecutivePartsNext ==
    ASSUME \A k \in 1..Len(chunk') : chunk'[k] = Len(sink') + k,
           \A k \in 1..Len(pending') : pending'[k] = Len(sink') + Len(chunk') + k,
           outputBytes' = Len(sink'), Arrives'
    PROVE  OutputIsConsecutive'
BY DEF OutputIsConsecutive, Arrives

LEMMA InitOutputInv == Init => OutputInv
<1> SUFFICES ASSUME Init PROVE OutputInv
  OBVIOUS
<1> USE EmptySeq DEF Init
<1>1. OutputIsPrefix
  BY DEF OutputIsPrefix
<1>2. CopyProgress
  BY DEF CopyProgress, None
<1>3. MetadataKept
  BY DEF MetadataKept
<1>4. Arrives
  <2> DEFINE start == [i \in 1..1 |-> 0]
  <2>1. Len(fromServer) = 0 /\ served.bytes = 0 /\ Len(sink) = 0 /\ Len(chunk) = 0 /\ Len(pending) = 0
    OBVIOUS
  <2>2. start \in [1..(0 + 1) -> 0..0] /\ start[1] = 0 /\ start[0 + 1] = 0
    OBVIOUS
  <2> HIDE DEF start
  <2>3. Arriving(start)
    BY <2>1, <2>2 DEF Arriving
  <2> QED BY <2>1, <2>2, <2>3 DEF Arrives
<1>5. OutputIsConsecutive
  BY <1>4, ConsecutiveParts
<1> QED BY <1>1, <1>2, <1>3, <1>5 DEF OutputInv

\* Steps that are not about the output, the loss of the link among them.
LEMMA OutputSame ==
    ASSUME TypeOK, OutputInv, link' \in {link, "down"},
           UNCHANGED <<fromServer, served, pending, finished, result, opc, chunk, sink,
                       outputBytes, outputResult, returned>>
    PROVE  OutputInv'
<1>1. OutputIsPrefix'
  BY DEF OutputInv, OutputIsPrefix
<1>2. CopyProgress'
  BY DEF OutputInv, CopyProgress
<1>3. MetadataKept'
  BY DEF OutputInv, MetadataKept
<1>4. outputResult # "err" => OutputIsConsecutive'
  <2> SUFFICES ASSUME outputResult # "err" PROVE OutputIsConsecutive'
    OBVIOUS
  <2>1. OutputIsConsecutive
    BY DEF OutputInv
  <2>2. Arrives'
    BY <2>1, ConsecutiveParts, ArrivesSame
  <2> QED BY <2>1, <2>2, ConsecutiveParts, ConsecutivePartsNext
<1> QED BY <1>1, <1>2, <1>3, <1>4 DEF OutputInv

LEMMA DeliverKeepsOutputInv ==
    ASSUME TypeOK, OutputInv, NEW msg \in Messages, Deliver(msg),
           link = "up", served.phase # "closed", msg.kind = "close" => served'.phase = "closed",
           served'.bytes = served.bytes + MessageBytes(msg),
           msg.kind = "data" => /\ msg.bytes # <<>>
                                /\ \A k \in 1..Len(msg.bytes) : msg.bytes[k] = served.bytes + k,
           served'.status = IF msg.kind = "status" THEN msg.value ELSE served.status,
           served'.signal = IF msg.kind = "signal" THEN msg.value ELSE served.signal,
           UNCHANGED <<pending, finished, result, opc, chunk, sink, outputBytes, outputResult,
                       returned>>
    PROVE  OutputInv'
<1>0. fromServer' = Append(fromServer, msg)
  BY DEF Deliver
<1>1. OutputIsPrefix'
  <2>1. served.bytes \in Nat /\ MessageBytes(msg) \in Nat /\ Len(sink) \in Nat
    BY OutputTypes, MessageBytesType
  <2>2. Len(sink) <= served.bytes + MessageBytes(msg)
    BY <2>1 DEF OutputInv, OutputIsPrefix
  <2> QED BY <2>2 DEF OutputInv, OutputIsPrefix
<1>2. CopyProgress'
  BY <1>0, ProgressMore DEF OutputInv
<1>3. MetadataKept'
  BY <1>0, MetadataMore DEF OutputInv
<1>4. outputResult # "err" => OutputIsConsecutive'
  <2> SUFFICES ASSUME outputResult # "err" PROVE OutputIsConsecutive'
    OBVIOUS
  <2>1. OutputIsConsecutive
    BY DEF OutputInv
  <2>2. Arrives
    BY <2>1, ConsecutiveParts
  <2>3. Arrives'
    BY <1>0, <2>2, ArrivesMore
  <2> QED BY <2>1, <2>3, ConsecutiveParts, ConsecutivePartsNext
<1> QED BY <1>1, <1>2, <1>3, <1>4 DEF OutputInv

LEMMA ServedRecord ==
    TypeOK => served \in [bytes : Nat, phase : {"open", "eof", "closed"},
                          status : ExitStatuses \cup {None}, signal : ExitSignals \cup {None}]
BY DEF TypeOK

LEMMA RemoteDataKeepsOutputInv ==
    ASSUME TypeOK, OutputInv, 0 \notin MsgLens, RemoteData
    PROVE  OutputInv'
<1>1. PICK n \in MsgLens :
         /\ Deliver([kind |-> "data", bytes |-> [i \in 1..n |-> served.bytes + i]])
         /\ served' = [served EXCEPT !.bytes = @ + n]
  BY DEF RemoteData
<1>2. n \in Nat \ {0} /\ served.bytes \in Nat
  BY LensAssumption, OutputTypes
<1> DEFINE bytes == [i \in 1..n |-> served.bytes + i]
           msg == [kind |-> "data", bytes |-> bytes]
<1>3. bytes \in Seq(Nat) /\ Len(bytes) = n /\ \A k \in 1..n : bytes[k] = served.bytes + k
  BY <1>2
<1>4. bytes # <<>>
  BY <1>2, <1>3, EmptySeq
<1> HIDE DEF bytes
<1>5. msg \in Messages
  BY <1>3 DEF Messages
<1>6. msg.kind = "data" /\ msg.bytes = bytes /\ MessageBytes(msg) = n
  BY <1>3 DEF MessageBytes
<1>7. /\ served'.bytes = served.bytes + n /\ served'.status = served.status
      /\ served'.signal = served.signal
  BY <1>1, ServedRecord
<1>8. Deliver(msg)
  BY <1>1 DEF bytes
<1>9. /\ link = "up" /\ served.phase # "closed"
      /\ UNCHANGED <<pending, finished, result, opc, chunk, sink, outputBytes, outputResult, returned>>
  BY DEF RemoteData, RemoteMayTalk, readVars, outVars
<1> HIDE DEF msg
<1> QED BY <1>3, <1>4, <1>5, <1>6, <1>7, <1>8, <1>9, DeliverKeepsOutputInv

LEMMA RemoteExitStatusKeepsOutputInv ==
    ASSUME TypeOK, OutputInv, RemoteExitStatus
    PROVE  OutputInv'
<1>1. PICK s \in ExitStatuses : /\ Deliver([kind |-> "status", value |-> s])
                                /\ served' = [served EXCEPT !.status = s]
  BY DEF RemoteExitStatus
<1> DEFINE msg == [kind |-> "status", value |-> s]
<1>2. msg \in Messages
  BY DEF Messages
<1>3. msg.kind = "status" /\ msg.value = s /\ MessageBytes(msg) = 0
  BY DEF MessageBytes
<1>4. /\ served'.bytes = served.bytes + 0 /\ served'.status = s /\ served'.signal = served.signal
  BY <1>1, ServedRecord
<1>5. /\ link = "up" /\ served.phase # "closed"
      /\ UNCHANGED <<pending, finished, result, opc, chunk, sink, outputBytes, outputResult, returned>>
  BY DEF RemoteExitStatus, RemoteMayTalk, readVars, outVars
<1>6. Deliver(msg)
  BY <1>1
<1> HIDE DEF msg
<1> QED BY <1>2, <1>3, <1>4, <1>5, <1>6, DeliverKeepsOutputInv

LEMMA RemoteExitSignalKeepsOutputInv ==
    ASSUME TypeOK, OutputInv, RemoteExitSignal
    PROVE  OutputInv'
<1>1. PICK s \in ExitSignals : /\ Deliver([kind |-> "signal", value |-> s])
                               /\ served' = [served EXCEPT !.signal = s]
  BY DEF RemoteExitSignal
<1> DEFINE msg == [kind |-> "signal", value |-> s]
<1>2. msg \in Messages
  BY DEF Messages
<1>3. msg.kind = "signal" /\ msg.value = s /\ MessageBytes(msg) = 0
  BY DEF MessageBytes
<1>4. /\ served'.bytes = served.bytes + 0 /\ served'.status = served.status /\ served'.signal = s
  BY <1>1, ServedRecord
<1>5. /\ link = "up" /\ served.phase # "closed"
      /\ UNCHANGED <<pending, finished, result, opc, chunk, sink, outputBytes, outputResult, returned>>
  BY DEF RemoteExitSignal, RemoteMayTalk, readVars, outVars
<1>6. Deliver(msg)
  BY <1>1
<1> HIDE DEF msg
<1> QED BY <1>2, <1>3, <1>4, <1>5, <1>6, DeliverKeepsOutputInv

LEMMA RemoteEndKeepsOutputInv ==
    ASSUME TypeOK, OutputInv, RemoteEof \/ RemoteClose
    PROVE  OutputInv'
<1>1. PICK kind \in {"other", "close"} :
         /\ Deliver([kind |-> kind])
         /\ served' = [served EXCEPT !.phase = IF kind = "other" THEN "eof" ELSE "closed"]
  BY DEF RemoteEof, RemoteClose
<1> DEFINE msg == [kind |-> kind]
<1>2. msg \in Messages
  BY DEF Messages
<1>3. msg.kind = kind /\ MessageBytes(msg) = 0
  BY DEF MessageBytes
<1>4. /\ served'.bytes = served.bytes + 0 /\ served'.status = served.status
      /\ served'.signal = served.signal /\ (kind = "close" => served'.phase = "closed")
  BY <1>1, ServedRecord
<1>5. /\ link = "up" /\ served.phase # "closed"
      /\ UNCHANGED <<pending, finished, result, opc, chunk, sink, outputBytes, outputResult, returned>>
  BY DEF RemoteEof, RemoteClose, readVars, outVars
<1>6. Deliver(msg)
  BY <1>1
<1> HIDE DEF msg
<1> QED BY <1>2, <1>3, <1>4, <1>5, <1>6, DeliverKeepsOutputInv

LEMMA EnvironmentKeepsOutputInv ==
    ASSUME TypeOK, OutputInv, 0 \notin MsgLens, Environment
    PROVE  OutputInv'
<1>1. CASE SendEvent \/ DropSender \/ GrantWindow \/ LinkDown
  <2>1. /\ link' \in {link, "down"}
        /\ UNCHANGED <<fromServer, served, pending, finished, result, opc, chunk, sink,
                       outputBytes, outputResult, returned>>
    BY <1>1 DEF SendEvent, Send, DropSender, GrantWindow, LinkDown, wireVars, remoteVars, readVars,
                outVars
  <2> QED BY <2>1, OutputSame
<1> QED BY <1>1, RemoteDataKeepsOutputInv, RemoteExitStatusKeepsOutputInv,
           RemoteExitSignalKeepsOutputInv, RemoteEndKeepsOutputInv
        DEF Environment, Application, Remote

LEMMA InputPumpKeepsOutputInv ==
    ASSUME TypeOK, OutputInv, InputPump
    PROVE  OutputInv'
<1>1. /\ link' = link
      /\ UNCHANGED <<fromServer, served, pending, finished, result, opc, chunk, sink,
                     outputBytes, outputResult, returned>>
  BY DEF InputPump, CheckCancelled, RecvEvent, RecvDisconnected, RecvTimeout, Dispatch,
         SendPacket, WriteCancelled, WriteFails, Resize, HandleCancel, CloseOnCancel, HandleEof,
         EmergencyClose, wireVars, remoteVars, readVars, outVars
<1> QED BY <1>1, OutputSame
\* Bytes that a read hands over follow what the output has, and the ones it
\* leaves follow them.
LEMMA ReadSplits ==
    ASSUME NEW bytes \in Seq(Nat), NEW s \in Nat, \A k \in 1..Len(bytes) : bytes[k] = s + k
    PROVE  /\ \A k \in 1..Len(Filled(bytes)) : Filled(bytes)[k] = s + k
           /\ \A k \in 1..Len(Left(bytes)) : Left(bytes)[k] = s + Len(Filled(bytes)) + k
<1> DEFINE f == Filled(bytes)
           l == Left(bytes)
<1>1. /\ Len(f) \in Nat /\ Len(l) \in Nat
      /\ \A k \in 1..Len(f) : k \in 1..Len(bytes) /\ f[k] = bytes[k]
      /\ \A k \in 1..Len(l) : Len(f) + k \in 1..Len(bytes) /\ l[k] = bytes[Len(f) + k]
  BY FilledAndLeft
<1> HIDE DEF f, l
<1>2. \A k \in 1..Len(f) : f[k] = s + k
  BY <1>1
<1>3. ASSUME NEW k \in 1..Len(l) PROVE l[k] = s + Len(f) + k
  <2>1. l[k] = s + (Len(f) + k)
    BY <1>1
  <2>2. s + (Len(f) + k) = s + Len(f) + k
    BY <1>1
  <2> QED BY <2>1, <2>2
<1> QED BY <1>2, <1>3 DEF f, l

LEMMA ReadPendingKeepsOutputInv ==
    ASSUME TypeOK, OutputInv, ReadPending
    PROVE  OutputInv'
<1>1. /\ opc = "read" /\ opc' = "write" /\ chunk' = Filled(pending) /\ pending' = Left(pending)
      /\ UNCHANGED <<fromServer, served, link, finished, result, sink, outputBytes, outputResult,
                     returned>>
      /\ pending # <<>>
  BY DEF ReadPending, remoteVars, wireVars
<1>2. chunk = <<>> /\ outputResult = None /\ Len(chunk) = 0
  BY <1>1, EmptySeq DEF OutputInv, CopyProgress
<1>3. OutputIsPrefix'
  BY <1>1 DEF OutputInv, OutputIsPrefix
<1>4. CopyProgress'
  BY <1>1, <1>2 DEF OutputInv, CopyProgress, None
<1>5. MetadataKept'
  BY <1>1 DEF OutputInv, MetadataKept
<1>6. OutputIsConsecutive'
  <2>1. OutputIsConsecutive
    BY <1>2 DEF OutputInv, None
  <2>2. Len(sink) \in Nat /\ pending \in Seq(Nat) /\ Len(pending) \in Nat
    BY OutputTypes
  <2>3. \A k \in 1..Len(pending) : pending[k] = Len(sink) + k
    BY <1>2, <2>1, <2>2, ConsecutiveParts
  <2>4. /\ \A k \in 1..Len(chunk') : chunk'[k] = Len(sink') + k
        /\ \A k \in 1..Len(pending') : pending'[k] = Len(sink') + Len(chunk') + k
    BY <1>1, <2>2, <2>3, ReadSplits
  <2>5. Len(sink') + Len(chunk') + Len(pending') = Len(sink) + Len(chunk) + Len(pending)
    <3>1. /\ Len(chunk') \in Nat /\ Len(pending') \in Nat
          /\ Len(chunk') + Len(pending') = Len(pending) /\ Len(sink') = Len(sink)
      BY <1>1, <2>2, FilledAndLeft
    <3> QED BY <1>2, <2>2, <3>1
  <2>6. Arrives'
    BY <1>1, <2>1, <2>5, ConsecutiveParts, ArrivesSame
  <2> QED BY <1>1, <2>1, <2>4, <2>6, ConsecutiveParts, ConsecutivePartsNext
<1> QED BY <1>3, <1>4, <1>5, <1>6 DEF OutputInv

\* The ends of the channel stay where they are when the first message is taken.
LEMMA CloseStaysLast ==
    ASSUME TypeOK, CopyProgress, fromServer # <<>>, fromServer' = Tail(fromServer), served' = served
    PROVE  \A i \in 1..Len(fromServer') : fromServer'[i].kind = "close" =>
               i = Len(fromServer') /\ served'.phase = "closed"
<1>1. /\ Len(fromServer) \in Nat \ {0} /\ Len(fromServer') = Len(fromServer) - 1
      /\ \A i \in 1..(Len(fromServer) - 1) : fromServer'[i] = fromServer[i + 1]
  BY TailDrops
<1>2. \A i \in 1..Len(fromServer) : fromServer[i].kind = "close" =>
          i = Len(fromServer) /\ served.phase = "closed"
  BY DEF CopyProgress
<1> SUFFICES ASSUME NEW i \in 1..Len(fromServer'), fromServer'[i].kind = "close"
             PROVE  i = Len(fromServer') /\ served'.phase = "closed"
  OBVIOUS
<1>3. i \in 1..(Len(fromServer) - 1) /\ i + 1 \in 1..Len(fromServer)
  BY <1>1
<1>4. i + 1 = Len(fromServer) /\ served.phase = "closed"
  BY <1>1, <1>2, <1>3
<1>5. i \in Nat /\ i = (i + 1) - 1
  BY <1>1
<1>6. Len(fromServer') = i
  BY ONLY <1>1, <1>4, <1>5, Zenon
<1> QED BY <1>4, <1>6, Zenon

LEMMA ReadDataKeepsOutputInv ==
    ASSUME TypeOK, OutputInv, ReadData
    PROVE  OutputInv'
<1> DEFINE bytes == Head(fromServer).bytes
<1>1. /\ opc = "read" /\ pending = <<>> /\ fromServer # <<>> /\ Head(fromServer).kind = "data"
      /\ fromServer' = Tail(fromServer)
      /\ chunk' = Filled(bytes) /\ pending' = Left(bytes)
      /\ UNCHANGED <<served, link, finished, result, sink, outputBytes, returned>>
      /\ IF chunk' = <<>> THEN CopyEnds("ok") ELSE opc' = "write" /\ UNCHANGED outputResult
  BY DEF ReadData, Waiting, wireVars
<1>2. /\ chunk = <<>> /\ outputResult = None /\ Len(chunk) = 0 /\ Len(pending) = 0
      /\ ~finished
  BY <1>1, EmptySeq DEF OutputInv, CopyProgress
<1>3. OutputIsConsecutive
  BY <1>2 DEF OutputInv, None
<1>4. PICK start \in [1..(Len(fromServer) + 1) -> 0..served.bytes] : Arriving(start)
  BY <1>3 DEF OutputIsConsecutive
<1>5. /\ Len(fromServer) \in Nat \ {0} /\ Head(fromServer) = fromServer[1]
      /\ Head(fromServer) \in Messages
  BY <1>1, TailDrops
<1>6. bytes \in Seq(Nat)
  BY <1>1, <1>5 DEF Messages
<1>7. Len(sink) \in Nat
  BY OutputTypes
<1>8. bytes # <<>> /\ \A k \in 1..Len(bytes) : bytes[k] = Len(sink) + k
  <2>1. 1 \in 1..Len(fromServer)
    BY <1>5
  <2>2. start[1] = Len(sink)
    BY <1>2, <1>4, <1>7 DEF Arriving
  <2>3. fromServer[1].bytes # <<>>
        /\ \A k \in 1..Len(fromServer[1].bytes) : fromServer[1].bytes[k] = start[1] + k
    BY <1>1, <1>4, <1>5, <2>1 DEF Arriving
  <2> QED BY <1>5, <2>2, <2>3
<1>9. MessageBytes(Head(fromServer)) = Len(bytes)
  BY <1>1 DEF MessageBytes
<1> HIDE DEF bytes
<1>10. chunk' # <<>> /\ opc' = "write" /\ outputResult' = None
  BY <1>1, <1>2, <1>6, <1>8, FilledAndLeft
<1>11. OutputIsPrefix'
  BY <1>1 DEF OutputInv, OutputIsPrefix
<1>12. CopyProgress'
  <2>1. returned # "ok"
    BY <1>2 DEF OutputInv, CopyProgress, None
  <2> QED BY <1>1, <1>2, <1>10, <2>1, CloseStaysLast DEF OutputInv, CopyProgress, None
<1>13. MetadataKept'
  BY <1>1, MetadataLess DEF OutputInv
<1>14. OutputIsConsecutive'
  <2>1. /\ \A k \in 1..Len(chunk') : chunk'[k] = Len(sink') + k
        /\ \A k \in 1..Len(pending') : pending'[k] = Len(sink') + Len(chunk') + k
    BY <1>1, <1>6, <1>7, <1>8, ReadSplits
  <2>2. Len(sink') + Len(chunk') + Len(pending')
          = Len(sink) + Len(chunk) + Len(pending) + MessageBytes(Head(fromServer))
    <3>1. /\ Len(chunk') \in Nat /\ Len(pending') \in Nat
          /\ Len(chunk') + Len(pending') = Len(bytes) /\ Len(sink') = Len(sink)
      BY <1>1, <1>6, FilledAndLeft
    <3>2. Len(sink') + Len(chunk') + Len(pending') = Len(sink) + Len(bytes)
      BY <1>7, <3>1
    <3>3. Len(sink) + Len(chunk) + Len(pending) = Len(sink)
      BY <1>2, <1>7
    <3> QED BY <1>9, <3>2, <3>3
  <2>3. Arrives'
    BY <1>1, <1>3, <2>2, ConsecutiveParts, ArrivesLess
  <2> QED BY <1>1, <1>3, <2>1, <2>3, ConsecutiveParts, ConsecutivePartsNext
<1> QED BY <1>11, <1>12, <1>13, <1>14 DEF OutputInv

\* A message without data moves no bytes.
LEMMA TakeOther ==
    ASSUME TypeOK, OutputInv, opc = "read", pending = <<>>, fromServer # <<>>,
           fromServer' = Tail(fromServer), Head(fromServer).kind # "data",
           result'.status = IF Head(fromServer).kind = "status" THEN Head(fromServer).value
                                                                ELSE result.status,
           result'.signal = IF Head(fromServer).kind = "signal" THEN Head(fromServer).value
                                                                ELSE result.signal,
           UNCHANGED <<served, pending, chunk, sink, outputBytes>>
    PROVE  OutputIsPrefix' /\ MetadataKept' /\ OutputIsConsecutive'
<1>1. outputResult = None
  BY DEF OutputInv, CopyProgress
<1>2. OutputIsConsecutive
  BY <1>1 DEF OutputInv, None
<1>3. OutputIsPrefix'
  BY DEF OutputInv, OutputIsPrefix
<1>4. MetadataKept'
  BY MetadataLess DEF OutputInv
<1>5. Len(sink') + Len(chunk') + Len(pending')
        = Len(sink) + Len(chunk) + Len(pending) + MessageBytes(Head(fromServer))
  <2>1. MessageBytes(Head(fromServer)) = 0
    BY DEF MessageBytes
  <2> QED BY <2>1, OutputTypes
<1>6. Arrives'
  BY <1>2, <1>5, ConsecutiveParts, ArrivesLess
<1> QED BY <1>2, <1>3, <1>4, <1>6, ConsecutiveParts, ConsecutivePartsNext

LEMMA ReadMetadataKeepsOutputInv ==
    ASSUME TypeOK, OutputInv, ReadMetadata
    PROVE  OutputInv'
<1>1. /\ opc = "read" /\ pending = <<>> /\ fromServer # <<>>
      /\ Head(fromServer).kind \in {"status", "signal", "other"} /\ fromServer' = Tail(fromServer)
      /\ UNCHANGED <<served, link, pending, finished, opc, chunk, sink, outputBytes, outputResult,
                     returned>>
  BY DEF ReadMetadata, Waiting, wireVars, outVars
<1>2. result \in Results
  BY DEF TypeOK
<1>3. /\ result'.status = IF Head(fromServer).kind = "status" THEN Head(fromServer).value
                                                              ELSE result.status
      /\ result'.signal = IF Head(fromServer).kind = "signal" THEN Head(fromServer).value
                                                              ELSE result.signal
  <2>1. CASE Head(fromServer).kind = "status"
    <3>1. result' = [result EXCEPT !.status = Head(fromServer).value]
      BY <2>1 DEF ReadMetadata
    <3> QED BY <1>2, <2>1, <3>1 DEF Results
  <2>2. CASE Head(fromServer).kind = "signal"
    <3>1. result' = [result EXCEPT !.signal = Head(fromServer).value]
      BY <2>2 DEF ReadMetadata
    <3> QED BY <1>2, <2>2, <3>1 DEF Results
  <2>3. CASE Head(fromServer).kind = "other"
    <3>1. result' = result
      BY <2>3 DEF ReadMetadata
    <3> QED BY <2>3, <3>1
  <2> QED BY <1>1, <2>1, <2>2, <2>3
<1>4. OutputIsPrefix' /\ MetadataKept' /\ OutputIsConsecutive'
  BY <1>1, <1>3, TakeOther
<1>5. ~finished
  BY <1>1 DEF OutputInv, CopyProgress
<1>6. CopyProgress'
  BY <1>1, <1>5, CloseStaysLast DEF OutputInv, CopyProgress
<1> QED BY <1>4, <1>6 DEF OutputInv

LEMMA ReadEndKeepsOutputInv ==
    ASSUME TypeOK, OutputInv, ReadEnd
    PROVE  OutputInv'
<1>1. /\ opc = "read" /\ opc' = "cancel" /\ pending = <<>> /\ finished' = TRUE
      /\ outputResult' = "ok"
      /\ UNCHANGED <<served, link, pending, result, chunk, sink, outputBytes, returned>>
  BY DEF ReadEnd, Waiting, CopyEnds, wireVars
<1>2. chunk = <<>> /\ outputResult = None /\ returned # "ok"
  BY <1>1 DEF OutputInv, CopyProgress, None
<1>3. CASE fromServer # <<>> /\ Head(fromServer).kind = "close" /\ fromServer' = Tail(fromServer)
  <2>1. OutputIsPrefix' /\ MetadataKept' /\ OutputIsConsecutive'
    BY <1>1, <1>3, TakeOther
  <2>2. fromServer' = <<>> /\ served.phase = "closed"
    <3>1. /\ Len(fromServer) \in Nat \ {0} /\ Len(fromServer') = Len(fromServer) - 1
          /\ Head(fromServer) = fromServer[1]
      BY <1>3, TailDrops
    <3>2. 1 = Len(fromServer) /\ served.phase = "closed"
      <4>1. 1 \in 1..Len(fromServer) /\ fromServer[1].kind = "close"
        BY <1>3, <3>1
      <4>2. \A i \in 1..Len(fromServer) : fromServer[i].kind = "close" =>
                i = Len(fromServer) /\ served.phase = "closed"
        BY DEF OutputInv, CopyProgress
      <4> QED BY <4>1, <4>2
    <3>3. fromServer' \in Seq(Messages)
      BY <1>3, HeadTailProperties DEF TypeOK
    <3>4. Len(fromServer') = 0
      <4>1. Len(fromServer') = 1 - 1
        BY ONLY <3>1, <3>2, Zenon
      <4> QED BY ONLY <4>1
    <3> QED BY <3>2, <3>3, <3>4, EmptySeq
  <2>3. CopyProgress'
    <3>1. \A i \in 1..Len(fromServer') : fromServer'[i].kind = "close" =>
              i = Len(fromServer') /\ served'.phase = "closed"
      BY <1>1, <1>3, CloseStaysLast DEF OutputInv
    <3> QED BY <1>1, <1>2, <2>2, <3>1 DEF CopyProgress, None
  <2> QED BY <2>1, <2>3 DEF OutputInv
<1>4. CASE fromServer = <<>> /\ link = "down" /\ UNCHANGED fromServer
  <2>1. OutputIsConsecutive
    BY <1>2 DEF OutputInv, None
  <2>2. Arrives'
    BY <1>1, <1>4, <2>1, ConsecutiveParts, ArrivesSame
  <2>3. OutputIsConsecutive'
    BY <1>1, <2>1, <2>2, ConsecutiveParts, ConsecutivePartsNext
  <2>4. OutputIsPrefix'
    BY <1>1 DEF OutputInv, OutputIsPrefix
  <2>5. MetadataKept'
    BY <1>1, <1>4 DEF OutputInv, MetadataKept
  <2>6. CopyProgress'
    BY <1>1, <1>2, <1>4 DEF OutputInv, CopyProgress, None
  <2> QED BY <2>3, <2>4, <2>5, <2>6 DEF OutputInv
<1> QED BY <1>3, <1>4 DEF ReadEnd, EndsChannel
\* The chunk, or the part of it that was written, is added to the output.
LEMMA WriteAppends ==
    ASSUME TypeOK, OutputIsPrefix, OutputIsConsecutive, NEW n \in 0..Len(chunk), NEW part \in Seq(Nat),
           Len(part) = n, \A k \in 1..n : part[k] = chunk[k], sink' = sink \o part
    PROVE  /\ Len(sink') = Len(sink) + n /\ Len(sink) + n <= served.bytes
           /\ \A i \in 1..Len(sink') : sink'[i] = i
<1>1. /\ Len(sink) \in Nat /\ Len(chunk) \in Nat /\ Len(pending) \in Nat /\ sink \in Seq(Nat)
      /\ n \in Nat /\ Len(fromServer) \in Nat /\ served.bytes \in Nat
  BY OutputTypes
<1>2. /\ Len(sink') = Len(sink) + n
      /\ \A i \in 1..(Len(sink) + n) :
            sink'[i] = IF i <= Len(sink) THEN sink[i] ELSE part[i - Len(sink)]
  <2>1. /\ Len(sink \o part) = Len(sink) + Len(part)
        /\ \A i \in 1..(Len(sink) + Len(part)) :
            (sink \o part)[i] = IF i <= Len(sink) THEN sink[i] ELSE part[i - Len(sink)]
    BY <1>1, ConcatProperties
  <2> QED BY <2>1, Zenon
<1>3. \A k \in 1..Len(chunk) : chunk[k] = Len(sink) + k
  BY DEF OutputIsConsecutive
<1>4. \A i \in 1..Len(sink) : sink[i] = i
  BY DEF OutputIsPrefix
<1>5. Len(sink) + n <= served.bytes
  <2>1. PICK start \in [1..(Len(fromServer) + 1) -> 0..served.bytes] : Arriving(start)
    BY DEF OutputIsConsecutive
  <2>2. 1 \in 1..(Len(fromServer) + 1)
    BY <1>1
  <2>3. start[1] \in 0..served.bytes
    BY <2>1, <2>2
  <2>4. start[1] = Len(sink) + Len(chunk) + Len(pending)
    BY <2>1 DEF Arriving
  <2> QED BY <1>1, <2>3, <2>4
<1>6. ASSUME NEW i \in 1..(Len(sink) + n) PROVE sink'[i] = i
  <2>1. CASE i <= Len(sink)
    <3>1. i \in 1..Len(sink)
      BY <1>1, <2>1
    <3> QED BY <1>2, <1>4, <2>1, <3>1
  <2>2. CASE ~(i <= Len(sink))
    <3>1. i - Len(sink) \in 1..n /\ i - Len(sink) \in 1..Len(chunk) /\ Len(sink) + (i - Len(sink)) = i
      BY <1>1, <2>2
    <3>2. sink'[i] = part[i - Len(sink)]
      BY <1>2, <2>2
    <3> QED BY <1>3, <3>1, <3>2
  <2> QED BY <2>1, <2>2
<1> QED BY <1>2, <1>5, <1>6

LEMMA WriteOutputKeepsOutputInv ==
    ASSUME TypeOK, OutputInv, WriteOutput
    PROVE  OutputInv'
<1>1. /\ opc = "write" /\ opc' = "read" /\ sink' = sink \o chunk /\ chunk' = <<>>
      /\ outputBytes' = outputBytes + Len(chunk)
      /\ UNCHANGED <<fromServer, served, link, pending, finished, result, outputResult, returned>>
  BY DEF WriteOutput, remoteVars, wireVars, readVars
<1>2. outputResult = None
  BY <1>1 DEF OutputInv, CopyProgress
<1>3. OutputIsConsecutive
  BY <1>2 DEF OutputInv, None
<1>4. Len(sink) \in Nat /\ Len(chunk) \in Nat /\ Len(pending) \in Nat /\ chunk \in Seq(Nat)
  BY OutputTypes
<1>5. /\ Len(sink') = Len(sink) + Len(chunk) /\ Len(sink) + Len(chunk) <= served.bytes
      /\ \A i \in 1..Len(sink') : sink'[i] = i
  <2>1. Len(chunk) \in 0..Len(chunk) /\ OutputIsPrefix
    BY <1>4 DEF OutputInv
  <2> QED BY <1>1, <1>3, <1>4, <2>1, WriteAppends
<1>6. outputBytes' = Len(sink')
  BY <1>1, <1>3, <1>5 DEF OutputIsConsecutive
<1>7. Len(chunk') = 0
  BY <1>1, EmptySeq
<1>8. OutputIsPrefix'
  <2>1. outputBytes' <= Len(sink') /\ Len(sink') <= served'.bytes
    BY <1>1, <1>4, <1>5, <1>6
  <2> QED BY <1>5, <2>1 DEF OutputIsPrefix
<1>9. CopyProgress'
  BY <1>1, <1>2 DEF OutputInv, CopyProgress, None
<1>10. MetadataKept'
  BY <1>1 DEF OutputInv, MetadataKept
<1>11. OutputIsConsecutive'
  <2>1. \A k \in 1..Len(chunk') : chunk'[k] = Len(sink') + k
    BY <1>7
  <2>2. \A k \in 1..Len(pending') : pending'[k] = Len(sink') + Len(chunk') + k
    <3>1. \A k \in 1..Len(pending) : pending[k] = Len(sink) + Len(chunk) + k
      BY <1>3 DEF OutputIsConsecutive
    <3>2. Len(sink') + Len(chunk') = Len(sink) + Len(chunk)
      BY <1>4, <1>5, <1>7
    <3> QED BY <1>1, <3>1, <3>2
  <2>3. Len(sink') + Len(chunk') + Len(pending') = Len(sink) + Len(chunk) + Len(pending)
    BY <1>1, <1>4, <1>5, <1>7
  <2>4. Arrives'
    BY <1>1, <1>3, <2>3, ConsecutiveParts, ArrivesSame
  <2> QED BY <1>6, <2>1, <2>2, <2>4, ConsecutivePartsNext
<1> QED BY <1>8, <1>9, <1>10, <1>11 DEF OutputInv

\* A copy that fails leaves a prefix.
LEMMA FailedCopyKeepsOutputInv ==
    ASSUME TypeOK, OutputInv, ReadTimesOut \/ OutputFails
    PROVE  OutputInv'
<1>1. /\ opc \in {"read", "write"} /\ opc' = "cancel" /\ outputResult' = "err"
      /\ UNCHANGED <<fromServer, served, link, pending, finished, result, outputBytes, returned>>
  BY DEF ReadTimesOut, OutputFails, Waiting, CopyEnds, remoteVars, wireVars, readVars
<1>2. outputResult = None /\ returned # "ok"
  BY <1>1 DEF OutputInv, CopyProgress, None
<1>3. CopyProgress'
  BY <1>1, <1>2 DEF OutputInv, CopyProgress, None
<1>4. MetadataKept'
  BY <1>1 DEF OutputInv, MetadataKept
<1>5. OutputIsPrefix'
  <2>1. CASE UNCHANGED sink
    BY <1>1, <2>1 DEF OutputInv, OutputIsPrefix
  <2>2. CASE OutputFails
    <3>1. PICK n \in 0..Len(chunk) : sink' = sink \o SubSeq(chunk, 1, n)
      BY <2>2 DEF OutputFails
    <3>2. Len(sink) \in Nat /\ Len(chunk) \in Nat /\ chunk \in Seq(Nat) /\ outputBytes \in Nat
      BY OutputTypes
    <3> DEFINE part == SubSeq(chunk, 1, n)
    <3>3. part \in Seq(Nat) /\ Len(part) = n /\ \A k \in 1..n : part[k] = chunk[k]
      <4>1. 1 \in 1..(Len(chunk) + 1) /\ n \in (1 - 1)..Len(chunk) /\ (n - 1) + 1 = n /\ n \in Nat
        BY <3>2
      <4>2. \A k \in 1..n : (1 + k) - 1 = k
        BY <4>1
      <4>3. /\ part \in Seq(Nat) /\ Len(part) = (n - 1) + 1
            /\ \A k \in 1..((n - 1) + 1) : part[k] = chunk[(1 + k) - 1]
        BY <3>2, <4>1, SubSeqProperties
      <4> QED BY <4>1, <4>2, <4>3
    <3>4. OutputIsConsecutive
      BY <1>2 DEF OutputInv, None
    <3> HIDE DEF part
    <3>5. /\ Len(sink') = Len(sink) + n /\ Len(sink) + n <= served.bytes
          /\ \A i \in 1..Len(sink') : sink'[i] = i
      BY <3>1, <3>3, <3>4, WriteAppends DEF OutputInv, part
    <3>6. outputBytes' <= Len(sink')
      BY <1>1, <3>2, <3>4, <3>5 DEF OutputIsConsecutive
    <3> QED BY <1>1, <3>5, <3>6 DEF OutputIsPrefix
  <2> QED BY <2>1, <2>2 DEF ReadTimesOut, outVars
<1> QED BY <1>1, <1>3, <1>4, <1>5 DEF OutputInv

\* What comes after the copy leaves its outcome alone.
LEMMA AfterCopyKeepsOutputInv ==
    ASSUME TypeOK, OutputInv, CancelInput \/ Join \/ CloseAndReturn
    PROVE  OutputInv'
<1>1. /\ opc \in {"cancel", "join", "close"} /\ opc' \in {"join", "close", "returned"}
      /\ UNCHANGED <<fromServer, served, link, pending, finished, result, chunk, sink, outputBytes,
                     outputResult>>
  BY DEF CancelInput, Join, CloseAndReturn, remoteVars, wireVars, readVars
<1>2. outputResult # None /\ outputResult \in {"ok", "err"}
  BY <1>1 DEF OutputInv, CopyProgress, TypeOK
<1>3. returned' = "ok" => outputResult = "ok"
  <2>1. CASE returned' = returned
    BY <2>1 DEF OutputInv, CopyProgress
  <2>2. CASE CloseAndReturn
    BY <1>2, <2>2 DEF CloseAndReturn, Verdict
  <2> QED BY <2>1, <2>2 DEF CancelInput, Join
<1>4. CopyProgress'
  BY <1>1, <1>2, <1>3 DEF OutputInv, CopyProgress
<1>5. OutputIsPrefix'
  BY <1>1 DEF OutputInv, OutputIsPrefix
<1>6. MetadataKept'
  BY <1>1 DEF OutputInv, MetadataKept
<1>7. ASSUME outputResult # "err" PROVE OutputIsConsecutive'
  <2>1. OutputIsConsecutive
    BY <1>7 DEF OutputInv
  <2>2. Arrives'
    BY <1>1, <2>1, ConsecutiveParts, ArrivesSame
  <2> QED BY <1>1, <2>1, <2>2, ConsecutiveParts, ConsecutivePartsNext
<1> QED BY <1>1, <1>4, <1>5, <1>6, <1>7 DEF OutputInv

LEMMA OutputInvKept ==
    ASSUME TypeOK, OutputInv, 0 \notin MsgLens, [Next]_vars
    PROVE  OutputInv'
<1>1. CASE UNCHANGED vars
  <2>1. /\ link' = link
        /\ UNCHANGED <<fromServer, served, pending, finished, result, opc, chunk, sink,
                       outputBytes, outputResult, returned>>
    BY <1>1 DEF vars, wireVars, remoteVars, readVars, outVars
  <2> QED BY <2>1, OutputSame
<1>2. CASE OutputPump
  BY <1>2, ReadPendingKeepsOutputInv, ReadDataKeepsOutputInv, ReadMetadataKeepsOutputInv,
     ReadEndKeepsOutputInv, WriteOutputKeepsOutputInv, FailedCopyKeepsOutputInv,
     AfterCopyKeepsOutputInv DEF OutputPump
<1> QED BY <1>1, <1>2, EnvironmentKeepsOutputInv, InputPumpKeepsOutputInv DEF Next

\* When all that arrived has been written, everything that was sent has been.
LEMMA NothingLeft ==
    ASSUME TypeOK, OutputInv, outputResult = "ok"
    PROVE  /\ sink = [i \in 1..served.bytes |-> i] /\ outputBytes = served.bytes
           /\ result.status = served.status /\ result.signal = served.signal /\ finished
<1>1. finished /\ chunk = <<>> /\ pending = <<>> /\ fromServer = <<>>
  BY DEF OutputInv, CopyProgress
<1>2. OutputIsConsecutive
  BY DEF OutputInv
<1>3. PICK start \in [1..(Len(fromServer) + 1) -> 0..served.bytes] : Arriving(start)
  BY <1>2 DEF OutputIsConsecutive
<1>4. Len(chunk) = 0 /\ Len(pending) = 0 /\ Len(fromServer) = 0
  BY <1>1, EmptySeq
<1>5. Len(sink) \in Nat /\ sink \in Seq(Nat)
  BY OutputTypes
<1>6. start[1] = Len(sink) /\ start[1] = served.bytes
  BY <1>3, <1>4, <1>5 DEF Arriving
<1>7. \A i \in 1..Len(sink) : sink[i] = i
  BY DEF OutputInv, OutputIsPrefix
<1>8. sink = [i \in 1..Len(sink) |-> i]
  <2>1. DOMAIN sink = 1..Len(sink) /\ sink = [i \in DOMAIN sink |-> sink[i]]
    BY <1>5, LenProperties
  <2> QED BY <1>7, <2>1
<1>9. outputBytes = Len(sink)
  BY <1>2 DEF OutputIsConsecutive
<1>10. result.status = served.status /\ result.signal = served.signal
  BY <1>4 DEF OutputInv, MetadataKept
<1> QED BY <1>1, <1>6, <1>8, <1>9, <1>10

\* For remotes that send no empty data message: the inductive invariant of the
\* output side, with its types.
THEOREM OutputInvCorrect ==
    ASSUME 0 \notin MsgLens
    PROVE  Spec => []OutputInv
<1>1. TypeOK /\ OutputInv /\ [Next]_vars => OutputInv'
  BY OutputInvKept
<1> QED BY InitOutputInv, <1>1, TypeCorrect, PTL DEF Spec

\* For every length of messages and of the read buffer, a run that returns Ok
\* has drained the channel to its end, has written and counted every byte the
\* remote sent, in order, and reports its last exit status and signal.
THEOREM OkIsCompleteHolds ==
    ASSUME 0 \notin MsgLens
    PROVE  Spec => []OkIsComplete
<1>1. TypeOK /\ OutputInv => OkIsComplete
  <2> SUFFICES ASSUME TypeOK, OutputInv, returned = "ok" PROVE OkIsComplete
    BY DEF OkIsComplete
  <2>1. outputResult = "ok"
    BY DEF OutputInv, CopyProgress
  <2> QED BY <2>1, NothingLeft DEF OkIsComplete
<1> QED BY <1>1, OutputInvCorrect, TypeCorrect, PTL

\* Whatever the run returns, the local output is a prefix of what the remote
\* sent, in order, and its count is never too high.
THEOREM OutputIsPrefixHolds ==
    ASSUME 0 \notin MsgLens
    PROVE  Spec => []OutputIsPrefix
<1>1. OutputInv => OutputIsPrefix
  BY DEF OutputInv
<1> QED BY <1>1, OutputInvCorrect, PTL
-----------------------------------------------------------------------------
(* The runner implements Session.                                          *)

\* A rising run of numbers without a gap gives each its rank.
LEMMA RankIsByte ==
    ASSUME NEW D \in SUBSET Nat, NEW b, NEW n \in Nat,
           \A i \in D : b[i] \in 1..n,
           \A x \in 1..n : \E i \in D : b[i] = x,
           \A i, j \in D : j < i => b[j] < b[i],
           NEW p \in D
    PROVE  Cardinality({j \in D : j <= p}) = b[p]
<1> DEFINE S == 1..b[p]
           T == {j \in D : j <= p}
           f == [j \in T |-> b[j]]
<1>0. b[p] \in Nat /\ b[p] >= 1 /\ b[p] <= n
  OBVIOUS
<1>1. \A j \in T : b[j] \in S
  <2> SUFFICES ASSUME NEW j \in T PROVE b[j] \in S
    OBVIOUS
  <2>1. j = p \/ j < p
    OBVIOUS
  <2>2. b[j] \in 1..n /\ (j = p \/ b[j] < b[p])
    BY <2>1
  <2> QED BY <1>0, <2>2
<1>2. \A i, j \in T : b[i] = b[j] => i = j
  <2> SUFFICES ASSUME NEW i \in T, NEW j \in T, b[i] = b[j], i # j PROVE FALSE
    OBVIOUS
  <2>1. i < j \/ j < i
    OBVIOUS
  <2>2. b[i] < b[j] \/ b[j] < b[i]
    BY <2>1
  <2>3. b[i] \in 1..n /\ b[j] \in 1..n
    OBVIOUS
  <2> QED BY <2>2, <2>3
<1>3. \A x \in S : \E j \in T : b[j] = x
  <2> SUFFICES ASSUME NEW x \in S PROVE \E j \in T : b[j] = x
    OBVIOUS
  <2>1. x \in 1..n
    BY <1>0
  <2>2. PICK j \in D : b[j] = x
    BY <2>1
  <2>3. ~(p < j)
    <3> SUFFICES ASSUME p < j PROVE FALSE
      OBVIOUS
    <3>1. b[p] < b[j]
      OBVIOUS
    <3> QED BY <3>1, <2>2, <1>0
  <2>4. j <= p
    BY <2>3
  <2> QED BY <2>2, <2>4
<1>4. f \in Bijection(T, S)
  <2>1. f \in [T -> S]
    BY <1>1
  <2>2. \A i, j \in T : f[i] = f[j] => i = j
    BY <1>2
  <2>3. \A x \in S : \E j \in T : f[j] = x
    BY <1>3
  <2> HIDE DEF f, S, T
  <2> QED BY <2>1, <2>2, <2>3 DEF Bijection, Injection, Surjection, IsInjective
<1>5. IsFiniteSet(T)
  <2>1. T \in SUBSET Nat /\ p \in Nat /\ \A s \in T : s <= p
    OBVIOUS
  <2> QED BY <2>1, FS_BoundedSetOfNaturals
<1>6. Cardinality(S) = Cardinality(T)
  <2>1. ExistsBijection(T, S)
    BY <1>4 DEF ExistsBijection
  <2> QED BY <1>5, <2>1, FS_Bijection
<1>7. Cardinality(S) = b[p]
  <2>1. Cardinality(1..b[p]) = IF 1 > b[p] THEN 0 ELSE b[p] - 1 + 1
    <3>1. 1 \in Int /\ b[p] \in Int
      BY <1>0
    <3> HIDE DEF S, T, f
    <3> QED BY ONLY <3>1, FS_Interval, Zenon
  <2> QED BY <1>0, <2>1
<1> QED BY <1>6, <1>7

\* All of them together are as many as the last one says.
LEMMA CountIsLast ==
    ASSUME NEW D \in SUBSET Nat, NEW b, NEW n \in Nat,
           \A i \in D : b[i] \in 1..n,
           \A x \in 1..n : \E i \in D : b[i] = x,
           \A i, j \in D : j < i => b[j] < b[i]
    PROVE  Cardinality(D) = n
<1>1. CASE n = 0
  <2>1. D = {}
    BY <1>1
  <2> QED BY <1>1, <2>1, FS_EmptySet
<1>2. CASE n # 0
  <2>1. n \in 1..n
    BY <1>2
  <2>2. PICK p \in D : b[p] = n
    BY <2>1
  <2>3. \A j \in D : j <= p
    <3> SUFFICES ASSUME NEW j \in D, p < j PROVE FALSE
      OBVIOUS
    <3>1. b[p] < b[j] /\ b[j] \in 1..n
      OBVIOUS
    <3> QED BY <2>2, <3>1
  <2>4. {j \in D : j <= p} = D
    BY <2>3
  <2> QED BY <2>2, <2>4, RankIsByte
<1> QED BY <1>1, <1>2

\* The data on a channel whose bytes are the first n, in order.
LEMMA DataInOrder ==
    ASSUME NEW w \in Seq(Packets), NEW n \in Nat,
           {w[i].byte : i \in {k \in 1..Len(w) : w[k].kind = "data"}} = 1..n,
           \A i \in 1..Len(w) : \A j \in 1..(i - 1) :
               w[i].kind = "data" /\ w[j].kind = "data" => w[j].byte < w[i].byte
    PROVE  DataOf(w) = Abstract!FirstBytes(n)
<1> DEFINE D == DataPositions(w)
           b == [i \in D |-> w[i].byte]
<1>1. Len(w) \in Nat /\ DOMAIN w = 1..Len(w)
  BY LenProperties
<1>2. D = {k \in 1..Len(w) : w[k].kind = "data"}
  BY <1>1 DEF DataPositions
<1>3. D \in SUBSET Nat
  BY <1>1, <1>2
<1>4. \A i \in D : b[i] = w[i].byte
  OBVIOUS
<1>5. \A i \in D : b[i] \in 1..n
  BY <1>2, <1>4
<1>6. \A x \in 1..n : \E i \in D : b[i] = x
  <2> SUFFICES ASSUME NEW x \in 1..n PROVE \E i \in D : b[i] = x
    OBVIOUS
  <2>1. x \in {w[i].byte : i \in {k \in 1..Len(w) : w[k].kind = "data"}}
    OBVIOUS
  <2>2. PICK i \in {k \in 1..Len(w) : w[k].kind = "data"} : x = w[i].byte
    BY <2>1
  <2> QED BY <1>2, <1>4, <2>2
<1>7. \A i, j \in D : j < i => b[j] < b[i]
  <2> SUFFICES ASSUME NEW i \in D, NEW j \in D, j < i PROVE b[j] < b[i]
    OBVIOUS
  <2>1. i \in 1..Len(w) /\ j \in 1..(i - 1) /\ w[i].kind = "data" /\ w[j].kind = "data"
    BY <1>1, <1>2
  <2>2. w[j].byte < w[i].byte
    BY <2>1
  <2> QED BY <1>4, <2>2
<1> HIDE DEF D, b
<1>8. Cardinality(D) = n
  BY <1>3, <1>5, <1>6, <1>7, CountIsLast
<1>9. \A p \in D : Cardinality({j \in D : j <= p}) = b[p]
  BY <1>3, <1>5, <1>6, <1>7, RankIsByte
<1>10. ASSUME NEW k \in 1..n PROVE w[NthData(w, k)].byte = k
  <2>1. \E i \in D : Cardinality({j \in D : j <= i}) = k
    BY <1>6, <1>9
  <2>2. NthData(w, k) \in D /\ Cardinality({j \in D : j <= NthData(w, k)}) = k
    BY <2>1 DEF NthData, D
  <2> QED BY <1>4, <1>9, <2>2
<1>11. DataOf(w) = [k \in 1..n |-> w[NthData(w, k)].byte]
  BY <1>8 DEF DataOf, D
<1> QED BY <1>10, <1>11 DEF Abstract!FirstBytes

\* What the channel has accepted, before and after a step.
LEMMA WireIsFirstBytes ==
    ASSUME TypeOK, InputInv
    PROVE  DataOf(toServer) = Abstract!FirstBytes(inputBytes + written) /\ inputBytes + written \in Nat
<1>1. toServer \in Seq(Packets) /\ inputBytes + written \in Nat
  BY DEF TypeOK
<1>2. {toServer[i].byte : i \in {k \in 1..Len(toServer) : toServer[k].kind = "data"}}
        = 1..(inputBytes + written)
  BY DEF InputInv, InputAccounting, WireBytes, DataAt
<1>3. \A i \in 1..Len(toServer) : \A j \in 1..(i - 1) :
          toServer[i].kind = "data" /\ toServer[j].kind = "data" => toServer[j].byte < toServer[i].byte
  BY DEF InputInv, InputInOrder, DataAt
<1> QED BY <1>1, <1>2, <1>3, DataInOrder

LEMMA WireIsFirstBytesNext ==
    ASSUME TypeOK', InputInv'
    PROVE  DataOf(toServer') = Abstract!FirstBytes(inputBytes' + written') /\ inputBytes' + written' \in Nat
<1>a. inputBytes' \in Nat
  BY DEF TypeOK
<1>b. written' \in Nat
  BY DEF TypeOK
<1>c. toServer' \in Seq(Packets)
  BY DEF TypeOK
<1>d. inputBytes' + written' \in Nat
  <2>1. ASSUME NEW m \in Nat, NEW n \in Nat PROVE m + n \in Nat
    OBVIOUS
  <2> QED BY ONLY <1>a, <1>b, <2>1
<1>1. toServer' \in Seq(Packets) /\ inputBytes' + written' \in Nat
  BY ONLY <1>c, <1>d, Zenon
<1>2. {toServer'[i].byte : i \in {k \in 1..Len(toServer') : toServer'[k].kind = "data"}}
        = 1..(inputBytes' + written')
  BY DEF InputInv, InputAccounting, WireBytes, DataAt
<1>3. \A i \in 1..Len(toServer') : \A j \in 1..(i - 1) :
          toServer'[i].kind = "data" /\ toServer'[j].kind = "data" => toServer'[j].byte < toServer'[i].byte
  BY DEF InputInv, InputInOrder, DataAt
<1> QED BY <1>1, <1>2, <1>3, DataInOrder

\* Nothing is written that was not handed over before.
HandedOver ==
    /\ \A i \in 1..Len(queue) : queue[i].first + queue[i].len <= offered + 1
    /\ ev.first + ev.len <= offered + 1

LEMMA InitHandedOver == Init => HandedOver
BY EmptySeq DEF Init, HandedOver, NoEvent

LEMMA HandedOverKept ==
    ASSUME TypeOK, HandedOver, [Next]_vars
    PROVE  HandedOver'
<1>0. /\ queue \in Seq(Events) /\ Len(queue) \in Nat /\ offered \in Nat
      /\ \A i \in 1..Len(queue) : queue[i].first \in Nat /\ queue[i].len \in Nat
      /\ ev.first \in Nat /\ ev.len \in Nat
  <2>1. queue \in Seq(Events) /\ offered \in Nat /\ ev \in Events
    BY DEF TypeOK
  <2>2. Len(queue) \in Nat /\ \A i \in 1..Len(queue) : queue[i] \in Events
    BY <2>1, LenProperties
  <2> QED BY <2>1, <2>2 DEF Events
<1>1. CASE SendEvent
  <2>1. PICK kind \in EventKinds, len \in DataLens \cup {0} : Send(kind, len)
    BY <1>1 DEF SendEvent
  <2>2. len \in Nat
    BY LensAssumption
  <2> DEFINE e == [kind |-> kind, first |-> offered + 1, len |-> len]
  <2>3. e \in Events
    BY <1>0, <2>1, <2>2, KindsAssumption DEF Events
  <2>4. queue' = Append(queue, e) /\ offered' = offered + len /\ ev' = ev
    BY <2>1 DEF Send, pumpVars
  <2>5. e.first = offered + 1 /\ e.len = len
    OBVIOUS
  <2> HIDE DEF e
  <2>6. /\ Len(queue') = Len(queue) + 1 /\ queue'[Len(queue) + 1] = e
        /\ \A i \in 1..Len(queue) : queue'[i] = queue[i]
    BY <1>0, <2>3, <2>4, AppendProperties
  <2>7. \A i \in 1..Len(queue') : i \in 1..Len(queue) \/ i = Len(queue) + 1
    BY <1>0, <2>6
  <2>8. ev'.first + ev'.len <= offered' + 1
    BY <1>0, <2>2, <2>4 DEF HandedOver
  <2>9. ASSUME NEW i \in 1..Len(queue') PROVE queue'[i].first + queue'[i].len <= offered' + 1
    <3>1. CASE i \in 1..Len(queue)
      <4>1. queue'[i] = queue[i] /\ queue[i].first + queue[i].len <= offered + 1
        BY <2>6, <3>1 DEF HandedOver
      <4>2. queue[i].first \in Nat /\ queue[i].len \in Nat
        BY <1>0, <3>1
      <4>3. offered \in Nat /\ offered' = offered + len
        BY <1>0, <2>4
      <4>4. queue[i].first + queue[i].len <= offered' + 1
        BY ONLY <2>2, <4>1, <4>2, <4>3
      <4> QED BY <4>1, <4>4
    <3>2. CASE i = Len(queue) + 1
      BY <1>0, <2>2, <2>4, <2>5, <2>6, <3>2
    <3> QED BY <2>7, <3>1, <3>2
  <2> QED BY <2>8, <2>9 DEF HandedOver
<1>2. CASE RecvEvent
  <2>1. queue # <<>> /\ ev' = Head(queue) /\ queue' = Tail(queue) /\ offered' = offered
    BY <1>2 DEF RecvEvent
  <2>2. /\ Len(queue) \in Nat \ {0} /\ Len(queue') = Len(queue) - 1 /\ ev' = queue[1]
        /\ \A i \in 1..(Len(queue) - 1) : queue'[i] = queue[i + 1]
    BY <1>0, <2>1, HeadTailProperties, EmptySeq
  <2>3. 1 \in 1..Len(queue) /\ \A i \in 1..(Len(queue) - 1) : i + 1 \in 1..Len(queue)
    BY <2>2
  <2> QED BY <2>1, <2>2, <2>3 DEF HandedOver
<1>3. CASE RecvDisconnected
  <2>1. /\ ev' = [kind |-> "eof", first |-> offered + 1, len |-> 0]
        /\ queue' = queue /\ offered' = offered
    BY <1>3 DEF RecvDisconnected, appVars
  <2> QED BY <1>0, <2>1 DEF HandedOver
<1>4. CASE UNCHANGED <<queue, ev, offered>>
  BY <1>4 DEF HandedOver
<1>5. Environment => SendEvent \/ UNCHANGED <<queue, ev, offered>>
  BY DEF Environment, Application, DropSender, Remote, RemoteData, RemoteExitStatus,
         RemoteExitSignal, RemoteEof, RemoteClose, GrantWindow, LinkDown, appVars, pumpVars
<1>6. InputPump => RecvEvent \/ RecvDisconnected \/ UNCHANGED <<queue, ev, offered>>
  BY DEF InputPump, CheckCancelled, RecvTimeout, Dispatch, SendPacket, WriteCancelled, WriteFails,
         Resize, HandleCancel, CloseOnCancel, HandleEof, EmergencyClose, appVars
<1>7. OutputPump => UNCHANGED <<queue, ev, offered>>
  BY DEF OutputPump, ReadPending, ReadData, ReadMetadata, ReadEnd, ReadTimesOut,
         WriteOutput, OutputFails, CancelInput, Join, CloseAndReturn, appVars, pumpVars
<1>8. UNCHANGED vars => UNCHANGED <<queue, ev, offered>>
  BY DEF vars, appVars, pumpVars
<1> QED BY <1>1, <1>2, <1>3, <1>4, <1>5, <1>6, <1>7, <1>8 DEF Next

\* The invariants that the simulation needs, together.
SimulationInv == TypeOK /\ WireInv /\ InputInv /\ OutputInv /\ HandedOver

\* A step that leaves all of this alone is none of Session.
LEMMA Stutters ==
    ASSUME SimulationInv, SimulationInv', inputBytes' + written' = inputBytes + written,
           UNCHANGED <<offered, writer, sink, returned>>, served'.bytes = served.bytes,
           (served'.phase = "closed" \/ link' = "down") <=> (served.phase = "closed" \/ link = "down")
    PROVE  UNCHANGED Abstract!vars
<1>1. DataOf(toServer') = DataOf(toServer)
  BY WireIsFirstBytes, WireIsFirstBytesNext DEF SimulationInv
<1> QED BY <1>1 DEF Abstract!vars

LEMMA SameWire ==
    ASSUME SimulationInv, SimulationInv', inputBytes' + written' = inputBytes + written
    PROVE  DataOf(toServer') = DataOf(toServer)
BY WireIsFirstBytes, WireIsFirstBytesNext DEF SimulationInv

LEMMA EnvironmentSimulated ==
    ASSUME SimulationInv, SimulationInv', Environment
    PROVE  [Abstract!Next]_(Abstract!vars)
<1>0. returned = "none" /\ offered \in Nat /\ served.bytes \in Nat
  BY OutputTypes DEF Environment, None, SimulationInv, TypeOK
<1>1. CASE SendEvent
  <2>1. PICK kind \in EventKinds, len \in DataLens \cup {0} : Send(kind, len)
    BY <1>1 DEF SendEvent
  <2>2. len \in Nat
    BY LensAssumption
  <2>3. /\ offered' = offered + len
        /\ UNCHANGED <<inputBytes, written, toServer, writer, sink, returned, served, link>>
    BY <2>1 DEF Send, pumpVars, wireVars, remoteVars, outVars
  <2>4. CASE len = 0
    <3>1. offered' = offered
      BY <1>0, <2>3, <2>4
    <3> QED BY <2>3, <3>1, Stutters
  <2>5. CASE len # 0
    <3>1. offered' \in Nat /\ offered' > offered
      BY <1>0, <2>2, <2>3, <2>5
    <3>2. DataOf(toServer') = DataOf(toServer)
      BY <2>3, SameWire
    <3>3. Abstract!HandOver
      BY <1>0, <2>3, <3>1, <3>2 DEF Abstract!HandOver
    <3> QED BY <3>3 DEF Abstract!Next
  <2> QED BY <2>4, <2>5
<1>2. CASE DropSender \/ GrantWindow
  BY <1>2, Stutters DEF DropSender, GrantWindow, appVars, pumpVars, wireVars, remoteVars, outVars
<1>3. CASE RemoteData
  <2>1. PICK n \in MsgLens : served' = [served EXCEPT !.bytes = @ + n]
    BY <1>3 DEF RemoteData
  <2>2. n \in Nat
    BY LensAssumption
  <2>3. /\ link = "up" /\ served.phase = "open"
        /\ UNCHANGED <<offered, inputBytes, written, toServer, writer, sink, returned, link>>
    BY <1>3 DEF RemoteData, RemoteMayTalk, appVars, pumpVars, wireVars, outVars
  <2>4. served'.bytes = served.bytes + n /\ served'.phase = served.phase
    BY <2>1, ServedRecord DEF SimulationInv
  <2>5. CASE n = 0
    <3>1. served'.bytes = served.bytes
      BY <1>0, <2>4, <2>5
    <3> QED BY <2>3, <2>4, <3>1, Stutters
  <2>6. CASE n # 0
    <3>1. served'.bytes \in Nat /\ served'.bytes > served.bytes
      BY <1>0, <2>2, <2>4, <2>6
    <3>2. DataOf(toServer') = DataOf(toServer)
      BY <2>3, SameWire
    <3>3. Abstract!RemoteSends
      BY <1>0, <2>3, <2>4, <3>1, <3>2 DEF Abstract!RemoteSends
    <3> QED BY <3>3 DEF Abstract!Next
  <2> QED BY <2>5, <2>6
<1>4. CASE RemoteExitStatus \/ RemoteExitSignal \/ RemoteEof
  <2>1. /\ served'.bytes = served.bytes /\ served.phase # "closed" /\ served'.phase # "closed"
    BY <1>4, ServedRecord
       DEF SimulationInv, RemoteExitStatus, RemoteExitSignal, RemoteEof, RemoteMayTalk
  <2>2. UNCHANGED <<offered, inputBytes, written, toServer, writer, sink, returned, link>>
    BY <1>4 DEF RemoteExitStatus, RemoteExitSignal, RemoteEof, appVars, pumpVars, wireVars, outVars
  <2> QED BY <2>1, <2>2, Stutters
<1>5. CASE RemoteClose
  <2>1. /\ served'.bytes = served.bytes /\ served.phase # "closed" /\ served'.phase = "closed"
        /\ link = "up"
    BY <1>5, ServedRecord DEF SimulationInv, RemoteClose
  <2>2. UNCHANGED <<offered, inputBytes, written, toServer, writer, sink, returned, link>>
    BY <1>5 DEF RemoteClose, appVars, pumpVars, wireVars, outVars
  <2>3. DataOf(toServer') = DataOf(toServer)
    BY <2>2, SameWire
  <2>4. Abstract!RemoteEnds
    BY <1>0, <2>1, <2>2, <2>3 DEF Abstract!RemoteEnds
  <2> QED BY <2>4 DEF Abstract!Next
<1>6. CASE LinkDown
  <2>1. /\ link = "up" /\ link' = "down"
        /\ UNCHANGED <<offered, inputBytes, written, toServer, writer, sink, returned, served>>
    BY <1>6 DEF LinkDown, appVars, pumpVars, remoteVars, outVars
  <2>2. CASE served.phase = "closed"
    BY <2>1, <2>2, Stutters
  <2>3. CASE served.phase # "closed"
    <3>1. DataOf(toServer') = DataOf(toServer)
      BY <2>1, SameWire
    <3>2. Abstract!RemoteEnds
      BY <1>0, <2>1, <2>3, <3>1 DEF Abstract!RemoteEnds
    <3> QED BY <3>2 DEF Abstract!Next
  <2> QED BY <2>2, <2>3
<1> QED BY <1>1, <1>2, <1>3, <1>4, <1>5, <1>6 DEF Environment, Application, Remote

LEMMA FirstBytesLength == ASSUME NEW n \in Nat PROVE Len(Abstract!FirstBytes(n)) = n
<1>1. [i \in 1..n |-> i] \in Seq(Nat)
  OBVIOUS
<1> QED BY <1>1 DEF Abstract!FirstBytes

\* While the pump runs, the run has not returned.
LEMMA PumpBeforeReturn == TypeOK /\ WireInv /\ ipc # "done" => returned = "none"
BY DEF WireInv, Ownership, None

\* One packet of a chunk is one byte accepted.
LEMMA SendPacketSimulated ==
    ASSUME SimulationInv, SimulationInv', SendPacket
    PROVE  Abstract!Accept
<1>1. /\ inputBytes \in Nat /\ written \in Nat /\ offered \in Nat
      /\ ev.first \in Nat /\ ev.len \in Nat
  BY DEF SimulationInv, TypeOK, Events
<1>2. ipc = "write" /\ writer = "open"
  BY DEF SendPacket, WriteAllowed
<1>3. returned = "none"
  BY <1>2, PumpBeforeReturn DEF SimulationInv
<1>4. ev.first = inputBytes + 1 /\ written < ev.len /\ ev.first + ev.len <= offered + 1
  BY <1>2 DEF SimulationInv, HandedOver, InputInv, QueueIsConsecutive, Pumping
<1>5. inputBytes + written < offered
  BY <1>1, <1>4
<1>6. inputBytes' + written' = inputBytes + written + 1
  <2>1. CASE written + 1 = ev.len
    <3>1. written' = 0 /\ inputBytes' = inputBytes + ev.len
      BY <2>1 DEF SendPacket, Counted
    <3> QED BY <1>1, <2>1, <3>1
  <2>2. CASE written + 1 # ev.len
    <3>1. written' = written + 1 /\ inputBytes' = inputBytes
      BY <2>2 DEF SendPacket
    <3> QED BY <1>1, <3>1
  <2> QED BY <2>1, <2>2
<1>7. UNCHANGED <<offered, writer, served, link, sink, returned>>
  BY DEF SendPacket, appVars, remoteVars, outVars
<1>8. /\ DataOf(toServer) = Abstract!FirstBytes(inputBytes + written)
      /\ DataOf(toServer') = Abstract!FirstBytes(inputBytes + written + 1)
  BY <1>6, WireIsFirstBytes, WireIsFirstBytesNext DEF SimulationInv
<1>9. Len(DataOf(toServer)) = inputBytes + written
  BY <1>1, <1>8, FirstBytesLength
<1> QED BY <1>2, <1>3, <1>5, <1>7, <1>8, <1>9 DEF Abstract!Accept

\* The pump closes the channel, or finds it closed or the link gone.
LEMMA CloseSimulated ==
    ASSUME SimulationInv, SimulationInv', NEW outcome, CloseChannel(outcome), returned = "none",
           UNCHANGED <<inputBytes, written, offered, served, link, sink, returned>>
    PROVE  [Abstract!Next]_(Abstract!vars)
<1>1. writer' = writer \/ (writer # "closed" /\ writer' = "closed")
  BY DEF CloseChannel, MarkClosed
<1>2. CASE writer' = writer
  BY <1>2, Stutters
<1>3. CASE writer # "closed" /\ writer' = "closed"
  <2>1. DataOf(toServer') = DataOf(toServer)
    BY SameWire
  <2>2. writer \in {"open", "input_finished"}
    BY <1>3 DEF SimulationInv, TypeOK
  <2>3. Abstract!Close
    BY <1>3, <2>1, <2>2 DEF Abstract!Close
  <2> QED BY <2>3 DEF Abstract!Next
<1> QED BY <1>1, <1>2, <1>3

LEMMA InputPumpSimulated ==
    ASSUME SimulationInv, SimulationInv', InputPump
    PROVE  [Abstract!Next]_(Abstract!vars)
<1>1. CASE SendPacket
  BY <1>1, SendPacketSimulated DEF Abstract!Next
<1>2. CASE CloseOnCancel
  <2>1. PICK outcome \in {"ok", "err"} : CloseChannel(outcome)
    BY <1>2 DEF CloseOnCancel
  <2>2. ipc # "done" /\ UNCHANGED <<inputBytes, written, offered, served, link, sink, returned>>
    BY <1>2 DEF CloseOnCancel, appVars, remoteVars, outVars
  <2>3. returned = "none"
    BY <2>2, PumpBeforeReturn DEF SimulationInv
  <2> QED BY <2>1, <2>2, <2>3, CloseSimulated
<1>3. CASE EmergencyClose
  <2>1. PICK outcome \in {"ok", "err"} : CloseChannel(outcome)
    BY <1>3 DEF EmergencyClose
  <2>2. ipc # "done" /\ UNCHANGED <<inputBytes, written, offered, served, link, sink, returned>>
    BY <1>3 DEF EmergencyClose, appVars, remoteVars, outVars
  <2>3. returned = "none"
    BY <2>2, PumpBeforeReturn DEF SimulationInv
  <2> QED BY <2>1, <2>2, <2>3, CloseSimulated
<1>4. CASE HandleEof
  <2>1. PICK outcome \in {"ok", "err"} : FinishInput(outcome)
    BY <1>4 DEF HandleEof
  <2>2. ipc # "done" /\ UNCHANGED <<inputBytes, written, offered, served, link, sink, returned>>
    BY <1>4 DEF HandleEof, appVars, remoteVars, outVars
  <2>3. returned = "none"
    BY <2>2, PumpBeforeReturn DEF SimulationInv
  <2>4. writer' = writer \/ (writer = "open" /\ writer' = "input_finished")
    BY <2>1 DEF FinishInput, MarkInputFinished, WriteAllowed
  <2>5. CASE writer' = writer
    BY <2>2, <2>5, Stutters
  <2>6. CASE writer = "open" /\ writer' = "input_finished"
    <3>1. DataOf(toServer') = DataOf(toServer)
      BY <2>2, SameWire
    <3>2. Abstract!FinishInput
      BY <2>2, <2>3, <2>6, <3>1 DEF Abstract!FinishInput
    <3> QED BY <3>2 DEF Abstract!Next
  <2> QED BY <2>4, <2>5, <2>6
<1>5. CASE CheckCancelled \/ RecvEvent \/ RecvDisconnected \/ RecvTimeout \/ Dispatch
           \/ WriteCancelled \/ WriteFails \/ Resize \/ HandleCancel
  <2>1. UNCHANGED <<inputBytes, written, offered, writer, served, link, sink, returned>>
    BY <1>5 DEF CheckCancelled, RecvEvent, RecvDisconnected, RecvTimeout, Dispatch, WriteCancelled,
                WriteFails, Resize, HandleCancel, appVars, wireVars, remoteVars, outVars
  <2> QED BY <2>1, Stutters
<1> QED BY <1>1, <1>2, <1>3, <1>4, <1>5 DEF InputPump

\* What is written to the local output is shown.
LEMMA WriteSimulated ==
    ASSUME SimulationInv, SimulationInv', NEW part \in Seq(Nat), sink' = sink \o part,
           returned = "none",
           UNCHANGED <<inputBytes, written, offered, writer, served, link, returned>>
    PROVE  [Abstract!Next]_(Abstract!vars)
<1>1. /\ sink \in Seq(Nat) /\ Len(sink) \in Nat /\ served.bytes \in Nat
      /\ Len(part) \in Nat
  BY OutputTypes, LenProperties DEF SimulationInv
<1>2. Len(sink') = Len(sink) + Len(part) /\ sink' \in Seq(Nat)
  BY <1>1, ConcatProperties
<1>3. CASE part = <<>>
  <2>1. sink' = sink
    BY <1>1, <1>3, ConcatEmptySeq
  <2> QED BY <2>1, Stutters
<1>4. CASE part # <<>>
  <2>1. Len(part) # 0
    BY <1>4, EmptySeq
  <2>2. Len(sink') <= served.bytes /\ \A i \in 1..Len(sink') : sink'[i] = i
    BY DEF SimulationInv, OutputInv, OutputIsPrefix
  <2>3. DOMAIN sink' = 1..Len(sink') /\ sink' = [i \in DOMAIN sink' |-> sink'[i]]
    BY <1>2, LenProperties
  <2>4. sink' = Abstract!FirstBytes(Len(sink'))
    BY <2>2, <2>3 DEF Abstract!FirstBytes
  <2>5. Len(sink') \in (Len(sink) + 1)..served.bytes
    BY <1>1, <1>2, <2>1, <2>2
  <2>6. DataOf(toServer') = DataOf(toServer)
    BY SameWire
  <2>7. Abstract!Show
    BY <2>4, <2>5, <2>6 DEF Abstract!Show
  <2> QED BY <2>7 DEF Abstract!Next
<1> QED BY <1>3, <1>4

\* The end of the run is the one return of the session.
LEMMA CloseAndReturnSimulated ==
    ASSUME SimulationInv, SimulationInv', CloseAndReturn
    PROVE  Abstract!Return
<1>1. PICK closeResult \in {"ok", "err"} :
         /\ IF inputResult = "err"
            THEN closeResult = emergency /\ UNCHANGED <<writer, toServer>>
            ELSE CloseChannel(closeResult)
         /\ returned' = Verdict(closeResult)
  BY DEF CloseAndReturn
<1>2. /\ opc = "close" /\ UNCHANGED <<inputBytes, written, offered, served, link, sink>>
  BY DEF CloseAndReturn, appVars, pumpVars, remoteVars
<1>3. returned = "none"
  BY <1>2 DEF SimulationInv, WireInv, Ownership, None
<1>4. DataOf(toServer') = DataOf(toServer)
  BY <1>2, SameWire
<1>5. returned' \in {"ok", "output", "input", "close"}
  BY <1>1 DEF Verdict
<1>6. writer' = writer \/ writer' = "closed"
  BY <1>1 DEF CloseChannel, MarkClosed
<1>7. ASSUME returned' = "ok"
      PROVE  /\ served.phase = "closed" \/ link = "down"
             /\ sink = Abstract!FirstBytes(served.bytes) /\ writer' = "closed"
  <2>1. outputResult # "err" /\ inputResult # "err" /\ closeResult = "ok"
    BY <1>1, <1>7 DEF Verdict
  <2>2. outputResult = "ok"
    <3>1. outputResult \in {None, "ok", "err"}
      BY DEF SimulationInv, TypeOK
    <3>2. outputResult # None
      BY <1>2 DEF SimulationInv, OutputInv, CopyProgress
    <3> QED BY <2>1, <3>1, <3>2
  <2>3. finished /\ sink = [i \in 1..served.bytes |-> i]
    BY <2>2, NothingLeft DEF SimulationInv
  <2>4. served.phase = "closed" \/ link = "down"
    BY <2>3 DEF SimulationInv, OutputInv, CopyProgress
  <2>5. writer' = "closed"
    BY <1>1, <2>1 DEF CloseChannel, MarkClosed
  <2> QED BY <2>3, <2>4, <2>5 DEF Abstract!FirstBytes
<1> QED BY <1>2, <1>3, <1>4, <1>5, <1>6, <1>7 DEF Abstract!Return

LEMMA OutputPumpSimulated ==
    ASSUME SimulationInv, SimulationInv', OutputPump
    PROVE  [Abstract!Next]_(Abstract!vars)
<1>1. CASE WriteOutput
  <2>1. /\ opc = "write" /\ sink' = sink \o chunk
        /\ UNCHANGED <<inputBytes, written, offered, writer, served, link, returned>>
    BY <1>1 DEF WriteOutput, appVars, pumpVars, wireVars, remoteVars
  <2>2. returned = "none" /\ chunk \in Seq(Nat)
    BY <2>1, OutputTypes DEF SimulationInv, WireInv, Ownership, None
  <2> QED BY <2>1, <2>2, WriteSimulated
<1>2. CASE OutputFails
  <2>1. PICK n \in 0..Len(chunk) : sink' = sink \o SubSeq(chunk, 1, n)
    BY <1>2 DEF OutputFails
  <2>2. /\ opc = "write"
        /\ UNCHANGED <<inputBytes, written, offered, writer, served, link, returned>>
    BY <1>2 DEF OutputFails, appVars, pumpVars, wireVars, remoteVars
  <2>3. returned = "none" /\ chunk \in Seq(Nat) /\ Len(chunk) \in Nat
    BY <2>2, OutputTypes DEF SimulationInv, WireInv, Ownership, None
  <2>4. SubSeq(chunk, 1, n) \in Seq(Nat)
    <3>1. n \in Nat /\ n <= Len(chunk)
      BY <2>3
    <3> QED BY <2>3, <3>1, SubSeqProperties
  <2> QED BY <2>1, <2>2, <2>3, <2>4, WriteSimulated
<1>3. CASE CloseAndReturn
  BY <1>3, CloseAndReturnSimulated DEF Abstract!Next
<1>4. CASE ReadPending \/ ReadData \/ ReadMetadata \/ ReadEnd \/ ReadTimesOut \/ CancelInput \/ Join
  <2>1. UNCHANGED <<inputBytes, written, offered, writer, served, link, sink, returned>>
    BY <1>4 DEF ReadPending, ReadData, ReadMetadata, ReadEnd, ReadTimesOut, CancelInput, Join,
                appVars, pumpVars, wireVars, remoteVars, outVars
  <2> QED BY <2>1, Stutters
<1> QED BY <1>1, <1>2, <1>3, <1>4 DEF OutputPump

\* Where the run starts, a session starts.
LEMMA InitSimulated == Init => Abstract!Init
<1> SUFFICES ASSUME Init PROVE Abstract!Init
  OBVIOUS
<1>1. DataPositions(toServer) = {}
  <2>1. DOMAIN toServer = {}
    BY EmptySeq DEF Init
  <2> QED BY <2>1 DEF DataPositions
<1>2. DataOf(toServer) = <<>>
  <2>1. Cardinality(DataPositions(toServer)) = 0
    BY <1>1, FS_EmptySet
  <2>2. 1..0 = {}
    OBVIOUS
  <2> QED BY <2>1, <2>2 DEF DataOf
<1> QED BY <1>2 DEF Init, Abstract!Init, None

\* For every queue, window, length and number of messages: the runner with its
\* two threads does nothing but what Session allows.
THEOREM SessionImplemented ==
    ASSUME 0 \notin MsgLens
    PROVE  Spec => ImplementsSession
<1>1. TypeOK /\ HandedOver /\ [Next]_vars => HandedOver'
  BY HandedOverKept
<1>2. Spec => []HandedOver
  BY InitHandedOver, <1>1, TypeCorrect, PTL DEF Spec
<1>3. Spec => []SimulationInv
  BY <1>2, TypeCorrect, WireInvCorrect, InputInvCorrect, OutputInvCorrect, PTL DEF SimulationInv
<1>4. SimulationInv /\ SimulationInv' /\ [Next]_vars => [Abstract!Next]_(Abstract!vars)
  <2> SUFFICES ASSUME SimulationInv, SimulationInv', [Next]_vars
               PROVE  [Abstract!Next]_(Abstract!vars)
    OBVIOUS
  <2>1. CASE UNCHANGED vars
    <3>1. UNCHANGED <<inputBytes, written, offered, writer, served, link, sink, returned>>
      BY <2>1 DEF vars, appVars, pumpVars, wireVars, remoteVars, outVars
    <3> QED BY <3>1, Stutters
  <2> QED BY <2>1, EnvironmentSimulated, InputPumpSimulated, OutputPumpSimulated DEF Next
<1> QED BY InitSimulated, <1>3, <1>4, PTL DEF Spec, ImplementsSession, Abstract!Spec
=============================================================================
