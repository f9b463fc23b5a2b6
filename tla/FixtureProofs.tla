--------------------------- MODULE FixtureProofs ---------------------------
(***************************************************************************)
(* Theorems about the fixture server beyond its life cycle: the services   *)
(* of a session and the echo server (FixtureServices), for any file system *)
(* and any clients; and remote forwarding (FixtureForwards), for any sets  *)
(* of forwards, connections, addresses and ports.                          *)
(***************************************************************************)
EXTENDS FixtureServices, FixtureForwards, FiniteSetTheorems, SequenceTheorems,
        WellFoundedInduction, TLAPS

-----------------------------------------------------------------------------
(* The channels of a session.                                              *)

LEMMA ChannelsStart == Channels!ChannelsInit => Channels!ChannelsInv
BY DEF Channels!ChannelsInit, Channels!ChannelsInv

\* Whatever a client requests, in whatever order, the handler lets go of a
\* channel when a service takes it, and a shell runs one command.
LEMMA ChannelsStep ==
    ASSUME Channels!ChannelsInv, Channels!ChannelsNext
    PROVE  Channels!ChannelsInv'
<1> USE DEF Channels!ChannelsInv
<1>1. ASSUME NEW b \in BOOLEAN, Channels!Auth(b) PROVE Channels!ChannelsInv'
  BY <1>1 DEF Channels!Auth
<1>2. ASSUME NEW c \in Chans, Channels!Handler(c) PROVE Channels!ChannelsInv'
  <2>1. CASE Channels!ChannelOpenSession(c)
    BY <2>1 DEF Channels!ChannelOpenSession
  <2>2. CASE Channels!ChannelOpenDirectTcpip(c)
    BY <2>2 DEF Channels!ChannelOpenDirectTcpip
  <2>3. CASE Channels!ChannelClose(c)
    BY <2>3 DEF Channels!ChannelClose
  <2>4. CASE Channels!ShellRequest(c)
    BY <2>4 DEF Channels!ShellRequest
  <2>5. CASE Channels!ExecScp(c)
    BY <2>5 DEF Channels!ExecScp, Channels!HandOver
  <2>6. CASE Channels!SubsystemSftp(c)
    BY <2>6 DEF Channels!SubsystemSftp, Channels!HandOver
  <2>7. CASE Channels!ExecCommand(c)
    BY <2>7 DEF Channels!ExecCommand
  <2>8. ASSUME NEW n \in 0..MaxPending, Channels!Data(c, n) PROVE Channels!ChannelsInv'
    <3>1. /\ UNCHANGED <<open, held, service, asked>> /\ c \in shells
          /\ UNCHANGED <<shells, ran>> \/ Channels!RunLine(c)
      BY <2>8 DEF Channels!Data
    <3> QED BY <3>1 DEF Channels!RunLine
  <2>9. CASE Channels!DataTooLong(c)
    BY <2>9 DEF Channels!DataTooLong
  <2> QED BY <1>2, <2>1, <2>2, <2>3, <2>4, <2>5, <2>6, <2>7, <2>8, <2>9 DEF Channels!Handler
<1> QED BY <1>1, <1>2 DEF Channels!ChannelsNext

LEMMA ChannelsStutter ==
    ASSUME Channels!ChannelsInv, UNCHANGED channelVars
    PROVE  Channels!ChannelsInv'
BY DEF Channels!ChannelsInv, channelVars

-----------------------------------------------------------------------------
(* The SCP sink.                                                           *)

LEMMA SinkStart == Scp!ScpInit => Scp!SinkCounts /\ Scp!SinkOkMeansStored
BY DEF Scp!ScpInit, Scp!SinkCounts, Scp!SinkOkMeansStored

\* A sink only gets to its next line, and so to an end with status 0, over the
\* file it was announced last.
LEMMA SinkStep ==
    ASSUME Scp!SinkCounts, Scp!ScpNext
    PROVE  Scp!SinkCounts'
<1> USE DEF Scp!SinkCounts, Scp!Finish
<1>1. ASSUME NEW req \in Scp!Requests, Scp!ServeSink(req) PROVE Scp!SinkCounts'
  <2>1. /\ spc = "idle" /\ req.sink /\ request' = req /\ UNCHANGED <<announced, stored>>
        /\ (spc' = "line" /\ status' = status) \/ (spc' = "done" /\ status' = "1")
    BY <1>1 DEF Scp!ServeSink
  <2> QED BY <2>1
<1>2. ASSUME NEW req \in Scp!Requests, Scp!ServeSource(req) PROVE Scp!SinkCounts'
  <2>1. /\ spc = "idle" /\ ~req.sink /\ request' = req /\ UNCHANGED <<announced, stored>>
        /\ (spc' = "ready" /\ status' = status) \/ (spc' = "done" /\ status' = "1")
    BY <1>2 DEF Scp!ServeSource
  <2> QED BY <2>1
<1>3. CASE Scp!ServeInvalid
  BY <1>3 DEF Scp!ServeInvalid
<1>4. CASE Scp!BeginLine \/ Scp!LineTimes
  BY <1>4 DEF Scp!BeginLine, Scp!LineTimes, Scp!ReadLine
<1>5. CASE Scp!LineEnd
  BY <1>5 DEF Scp!LineEnd, Scp!ReadLine
<1>6. ASSUME NEW name \in Offered, Scp!LineDirectory(name) PROVE Scp!SinkCounts'
  BY <1>6 DEF Scp!LineDirectory, Scp!ReadLine
<1>7. ASSUME NEW name \in Offered, NEW size \in 0..(MaxSize + 1), Scp!LineFile(name, size)
      PROVE  Scp!SinkCounts'
  <2>1. /\ spc = "line" /\ spc' = "data" /\ announced' = announced + 1
        /\ UNCHANGED <<request, stored, status>>
    BY <1>7 DEF Scp!LineFile, Scp!ReadLine
  <2> QED BY <2>1
<1>8. ASSUME NEW b \in Bytes, Scp!ReadByte(b) PROVE Scp!SinkCounts'
  BY <1>8 DEF Scp!ReadByte
<1>9. CASE Scp!StoreFile
  <2>1. /\ spc = "data" /\ spc' = "line" /\ stored' = stored + 1
        /\ UNCHANGED <<request, announced, status>>
    BY <1>9 DEF Scp!StoreFile
  <2> QED BY <2>1
<1>10. CASE Scp!StoreFails
  <2>1. spc = "data" /\ spc' = "done" /\ status' = "1" /\ UNCHANGED <<request, announced, stored>>
    BY <1>10 DEF Scp!StoreFails
  <2> QED BY <2>1
<1>11. CASE Scp!SinkEof
  BY <1>11 DEF Scp!SinkEof
<1>12. CASE Scp!SourceStep
  <2>1. UNCHANGED <<spc, request, announced, stored, status>>
    BY <1>12 DEF Scp!SourceStep
  <2> QED BY <2>1
<1>13. CASE Scp!SourceEnds
  BY <1>13 DEF Scp!SourceEnds
<1>14. CASE Scp!Fail
  BY <1>14 DEF Scp!Fail
<1> QED BY <1>1, <1>2, <1>3, <1>4, <1>5, <1>6, <1>7, <1>8, <1>9, <1>10, <1>11, <1>12, <1>13,
           <1>14 DEF Scp!ScpNext

\* Status 0 is set at the end of a sink with nothing open, or of a source.
LEMMA SinkOkStep ==
    ASSUME Scp!SinkCounts, Scp!ScpNext
    PROVE  Scp!SinkOkMeansStored'
<1> USE DEF Scp!SinkCounts, Scp!Finish
<1>1. CASE Scp!SinkEof
  BY <1>1 DEF Scp!SinkEof, Scp!SinkOkMeansStored
<1>2. CASE Scp!SourceEnds
  BY <1>2 DEF Scp!SourceEnds, Scp!SinkOkMeansStored
<1>3. CASE ~Scp!SinkEof /\ ~Scp!SourceEnds
  <2>1. ASSUME NEW req \in Scp!Requests, Scp!ServeSink(req) PROVE status' # "0"
    BY <2>1 DEF Scp!ServeSink
  <2>2. ASSUME NEW req \in Scp!Requests, Scp!ServeSource(req) PROVE status' # "0"
    BY <2>2 DEF Scp!ServeSource
  <2>3. ASSUME Scp!ServeInvalid \/ Scp!BeginLine \/ Scp!LineTimes \/ Scp!LineEnd
        PROVE  status' # "0"
    BY <2>3 DEF Scp!ServeInvalid, Scp!BeginLine, Scp!LineTimes, Scp!LineEnd, Scp!ReadLine
  <2>4. ASSUME NEW name \in Offered, Scp!LineDirectory(name) PROVE status' # "0"
    BY <2>4 DEF Scp!LineDirectory, Scp!ReadLine
  <2>5. ASSUME NEW name \in Offered, NEW size \in 0..(MaxSize + 1), Scp!LineFile(name, size)
        PROVE  status' # "0"
    BY <2>5 DEF Scp!LineFile, Scp!ReadLine
  <2>6. ASSUME NEW b \in Bytes, Scp!ReadByte(b) PROVE status' # "0"
    BY <2>6 DEF Scp!ReadByte
  <2>7. ASSUME Scp!StoreFile PROVE status' # "0"
    BY <2>7 DEF Scp!StoreFile
  <2>8. ASSUME Scp!StoreFails PROVE status' # "0"
    BY <2>8 DEF Scp!StoreFails
  <2>9. ASSUME Scp!SourceStep PROVE status' # "0"
    BY <2>9 DEF Scp!SourceStep
  <2>10. ASSUME Scp!Fail PROVE status' # "0"
    BY <2>10 DEF Scp!Fail
  <2>11. status' # "0"
    BY <1>3, <2>1, <2>2, <2>3, <2>4, <2>5, <2>6, <2>7, <2>8, <2>9, <2>10
    DEF Scp!ScpNext
  <2> QED BY <2>11 DEF Scp!SinkOkMeansStored
<1> QED BY <1>1, <1>2, <1>3

LEMMA SinkStutter ==
    ASSUME Scp!SinkCounts, Scp!SinkOkMeansStored, UNCHANGED scpVars
    PROVE  Scp!SinkCounts' /\ Scp!SinkOkMeansStored'
BY DEF Scp!SinkCounts, Scp!SinkOkMeansStored, scpVars

-----------------------------------------------------------------------------
(* The loopback echo server.                                               *)

LEMMA EchoStart == Echo!Init => Echo!EchoInv
BY DEF Echo!Init, Echo!EchoInv, Echo!TypeOK, Echo!ThreadsPlaced, Echo!ResultHonest,
       Echo!OwnerHonest, Echo!NoThreadForgotten, Echo!Active, Echo!Over

\* The owner's steps: a thread it does not wait for any longer is the reaper's.
LEMMA EchoOwnerStep ==
    ASSUME Echo!EchoInv, Echo!Owner \/ Echo!Stop
    PROVE  Echo!EchoInv'
<1> USE DEF Echo!EchoInv, Echo!TypeOK, Echo!ThreadsPlaced, Echo!ResultHonest, Echo!OwnerHonest,
            Echo!NoThreadForgotten, Echo!Active, Echo!Return, Echo!channels
<1>1. CASE Echo!Start
  BY <1>1 DEF Echo!Start
<1>2. CASE Echo!StartReady
  BY <1>2 DEF Echo!StartReady
<1>3. CASE Echo!StartTimeout
  BY <1>3 DEF Echo!StartTimeout
<1>4. CASE Echo!JoinUnready
  BY <1>4 DEF Echo!JoinUnready
<1>5. CASE Echo!StopCompletion
  BY <1>5 DEF Echo!StopCompletion
<1>6. CASE Echo!StopTimeout
  BY <1>6 DEF Echo!StopTimeout
<1>7. CASE Echo!JoinWorker
  BY <1>7 DEF Echo!JoinWorker
<1>8. CASE Echo!Stop
  BY <1>8 DEF Echo!Stop
<1> QED BY <1>1, <1>2, <1>3, <1>4, <1>5, <1>6, <1>7, <1>8 DEF Echo!Owner

\* The listener's steps: a connection leaves its vector over and joined, or for
\* the reaper, and an error among them stays in the result.
LEMMA EchoListenerStep ==
    ASSUME Echo!EchoInv, Echo!Listener
    PROVE  Echo!EchoInv'
<1> USE DEF Echo!EchoInv, Echo!TypeOK, Echo!ThreadsPlaced, Echo!ResultHonest, Echo!OwnerHonest,
            Echo!NoThreadForgotten, Echo!Active, Echo!Finished, Echo!Over, Echo!JoinFinished,
            Echo!ownerVars, Echo!channels
<1>1. CASE Echo!WorkerReady
  BY <1>1 DEF Echo!WorkerReady
<1>2. CASE Echo!WorkerPanic
  BY <1>2 DEF Echo!WorkerPanic
<1>3. CASE Echo!Accept
  <2>1. PICK c \in Clients :
            /\ conn[c] = "none"
            /\ \/ /\ conn' = [conn EXCEPT ![c] = "check"] /\ owned' = owned \cup {c}
                  /\ UNCHANGED <<cancelled, result>>
               \/ /\ conn' = [conn EXCEPT ![c] = "refused"] /\ UNCHANGED owned
                  /\ cancelled' = TRUE /\ result' = "error"
    BY <1>3 DEF Echo!Accept
  <2>2. /\ wpc = "loop" /\ wpc' = "reap"
        /\ UNCHANGED <<opc, outcome, ready, completion, joined, reaper>>
    BY <1>3 DEF Echo!Accept
  <2>3. CASE conn' = [conn EXCEPT ![c] = "check"] /\ owned' = owned \cup {c}
             /\ UNCHANGED <<cancelled, result>>
    BY <2>1, <2>2, <2>3
  <2>4. CASE conn' = [conn EXCEPT ![c] = "refused"] /\ UNCHANGED owned
             /\ cancelled' = TRUE /\ result' = "error"
    BY <2>1, <2>2, <2>4
  <2> QED BY <2>1, <2>3, <2>4
<1>4. CASE Echo!AcceptNothing
  BY <1>4 DEF Echo!AcceptNothing
<1>5. CASE Echo!Reap
  BY <1>5 DEF Echo!Reap
<1>6. CASE Echo!LeaveLoop
  BY <1>6 DEF Echo!LeaveLoop
<1>7. CASE Echo!Drain
  BY <1>7 DEF Echo!Drain
<1>8. CASE Echo!DrainExpired
  BY <1>8 DEF Echo!DrainExpired
<1>9. CASE Echo!Report
  BY <1>9 DEF Echo!Report
<1>10. CASE Echo!WorkerEnds
  BY <1>10 DEF Echo!WorkerEnds
<1> QED BY <1>1, <1>2, <1>3, <1>4, <1>5, <1>6, <1>7, <1>8, <1>9, <1>10 DEF Echo!Listener

LEMMA EchoConnectionStep ==
    ASSUME Echo!EchoInv, NEW c \in Clients, Echo!Connection(c)
    PROVE  Echo!EchoInv'
<1> USE DEF Echo!EchoInv, Echo!TypeOK, Echo!ThreadsPlaced, Echo!ResultHonest, Echo!OwnerHonest,
            Echo!NoThreadForgotten, Echo!Active, Echo!Over, Echo!ConnEnds, Echo!ownerVars,
            Echo!channels
<1>1. CASE Echo!ConnCheck(c)
  BY <1>1 DEF Echo!ConnCheck
<1>2. CASE Echo!ConnRead(c)
  BY <1>2 DEF Echo!ConnRead
<1>3. CASE Echo!ConnPanic(c)
  BY <1>3 DEF Echo!ConnPanic
<1> QED BY <1>1, <1>2, <1>3 DEF Echo!Connection

LEMMA EchoStutter ==
    ASSUME Echo!EchoInv, UNCHANGED echoVars
    PROVE  Echo!EchoInv'
BY DEF Echo!EchoInv, Echo!TypeOK, Echo!ThreadsPlaced, Echo!ResultHonest, Echo!OwnerHonest,
       Echo!NoThreadForgotten, Echo!Active, Echo!Over, echoVars

LEMMA EchoOwned == Echo!EchoInv => EchoThreadsOwned
<1> SUFFICES ASSUME Echo!EchoInv PROVE EchoThreadsOwned
  OBVIOUS
<1>1. Echo!NoThreadForgotten
  BY DEF Echo!EchoInv
<1>2. Echo!StopOkMeansEnded
  BY DEF Echo!EchoInv, Echo!TypeOK, Echo!ThreadsPlaced, Echo!ResultHonest, Echo!OwnerHonest,
         Echo!StopOkMeansEnded, Echo!Active, Echo!Over
<1> QED BY <1>1, <1>2 DEF EchoThreadsOwned

-----------------------------------------------------------------------------
(* The services together.                                                  *)

\* The invariant of the channels, the echo server and the SCP sink: one part's
\* steps leave the state of the others alone.
THEOREM ServicesInvariant == Spec => []ServicesInv
<1>1. Init => ServicesInv
  BY ChannelsStart, SinkStart, EchoStart DEF Init, ServicesInv
<1>2. ServicesInv /\ [Next]_vars => ServicesInv'
  <2> SUFFICES ASSUME ServicesInv, [Next]_vars PROVE ServicesInv'
    OBVIOUS
  <2>0. Channels!ChannelsInv /\ Echo!EchoInv /\ Scp!SinkCounts /\ Scp!SinkOkMeansStored
    BY DEF ServicesInv
  <2>1. CASE HandlerStep
    BY <2>0, <2>1, ChannelsStep, SinkStutter, EchoStutter DEF HandlerStep, ServicesInv
  <2>2. CASE ScpStep
    BY <2>0, <2>2, ChannelsStutter, SinkStep, SinkOkStep, EchoStutter DEF ScpStep, ServicesInv
  <2>3. CASE SftpStep
    BY <2>0, <2>3, ChannelsStutter, SinkStutter, EchoStutter DEF SftpStep, ServicesInv
  <2>4. CASE EchoStep(Echo!Next)
    <3>1. Echo!Next /\ UNCHANGED <<channelVars, scpVars>>
      BY <2>4 DEF EchoStep
    <3>2. Echo!EchoInv'
      BY <2>0, <3>1, EchoOwnerStep, EchoListenerStep, EchoConnectionStep DEF Echo!Next
    <3> QED BY <2>0, <3>1, <3>2, ChannelsStutter, SinkStutter DEF ServicesInv
  <2>5. CASE UNCHANGED vars
    <3>1. UNCHANGED <<channelVars, scpVars, echoVars>>
      BY <2>5 DEF vars
    <3> QED BY <2>0, <3>1, ChannelsStutter, SinkStutter, EchoStutter DEF ServicesInv
  <2> QED BY <2>1, <2>2, <2>3, <2>4, <2>5 DEF Next
<1> QED BY <1>1, <1>2, PTL DEF Spec

\* FixtureHandler: whatever requests a client sends on its channels, in
\* whatever order, a channel has one owner and a shell runs one command.
THEOREM ServicesDiscipline == Spec => []ChannelDiscipline
<1>1. ServicesInv => ChannelDiscipline
  BY DEF ServicesInv, Channels!ChannelsInv, ChannelDiscipline, Channels!ChannelDiscipline
<1> QED BY <1>1, ServicesInvariant, PTL

\* serve_scp: exit status 0 from a sink means that every file it acknowledged
\* was stored and nothing was left open, for any stream a client may send.
THEOREM ServicesSinkStored == Spec => []ScpSinkOkMeansStored
<1>1. ServicesInv => ScpSinkOkMeansStored
  BY DEF ServicesInv, ScpSinkOkMeansStored
<1> QED BY <1>1, ServicesInvariant, PTL

\* LoopbackEchoServer: a stop that returns Ok leaves no thread behind, and no
\* running thread is ever without an owner, for any number of connections.
THEOREM ServicesEchoOwned == Spec => []EchoThreadsOwned
<1>1. ServicesInv => EchoThreadsOwned
  BY EchoOwned DEF ServicesInv
<1> QED BY <1>1, ServicesInvariant, PTL

-----------------------------------------------------------------------------
(* The sandbox: sequences as paths.                                        *)

LEMMA PrefixAt ==
    ASSUME NEW S, NEW s \in Seq(S), NEW t \in Seq(S)
    PROVE  IsPrefix(s, t) <=> Len(s) <= Len(t) /\ \A i \in 1..Len(s) : s[i] = t[i]
<1>1. CASE Len(s) <= Len(t)
  <2>1. SubSeq(s, 1, Len(s)) = s
    BY SubSeqFull
  <2>2. /\ SubSeq(t, 1, Len(s)) \in Seq(S) /\ Len(SubSeq(t, 1, Len(s))) = Len(s)
        /\ \A i \in 1..Len(s) : SubSeq(t, 1, Len(s))[i] = t[i]
    BY <1>1, SubSeqProperties
  <2>3. s = SubSeq(t, 1, Len(s)) <=> \A i \in 1..Len(s) : s[i] = t[i]
    BY <2>2, SeqEqual
  <2> QED BY <1>1, <2>1, <2>3 DEF IsPrefix
<1> QED BY <1>1 DEF IsPrefix

LEMMA PrefixOfAppend ==
    ASSUME NEW S, NEW s \in Seq(S), NEW t \in Seq(S), NEW x \in S, IsPrefix(s, t)
    PROVE  IsPrefix(s, Append(t, x)) /\ Append(t, x) \in Seq(S) /\ Append(t, x) # s
<1>1. Len(s) <= Len(t) /\ \A i \in 1..Len(s) : s[i] = t[i]
  BY PrefixAt
<1>2. /\ Append(t, x) \in Seq(S) /\ Len(Append(t, x)) = Len(t) + 1
      /\ \A i \in 1..Len(t) : Append(t, x)[i] = t[i]
  BY AppendProperties
<1>3. Len(s) <= Len(t) + 1 /\ Len(s) # Len(t) + 1 /\ \A i \in 1..Len(s) : i \in 1..Len(t)
  BY <1>1
<1>4. \A i \in 1..Len(s) : s[i] = Append(t, x)[i]
  BY <1>1, <1>2, <1>3
<1> QED BY <1>2, <1>3, <1>4, PrefixAt

LEMMA PrefixOfConcat ==
    ASSUME NEW S, NEW s \in Seq(S), NEW t \in Seq(S), NEW u \in Seq(S), IsPrefix(s, t)
    PROVE  IsPrefix(s, t \o u) /\ t \o u \in Seq(S) /\ (t \o u = s => t = s)
<1>1. Len(s) <= Len(t) /\ \A i \in 1..Len(s) : s[i] = t[i]
  BY PrefixAt
<1>2. /\ t \o u \in Seq(S) /\ Len(t \o u) = Len(t) + Len(u)
      /\ \A i \in 1..Len(t) : (t \o u)[i] = t[i]
  BY ConcatProperties
<1>3. Len(s) <= Len(t) + Len(u) /\ \A i \in 1..Len(s) : i \in 1..Len(t)
  BY <1>1
<1>4. \A i \in 1..Len(s) : s[i] = (t \o u)[i]
  BY <1>1, <1>2, <1>3
<1>5. ASSUME t \o u = s PROVE t = s
  <2>1. Len(t) = Len(s)
    BY <1>1, <1>2, <1>5
  <2> QED BY <2>1, <1>1, SeqEqual
<1> QED BY <1>2, <1>3, <1>4, <1>5, PrefixAt

\* What is left of a path below its first k names.
Rest(q, k) == SubSeq(q, k + 1, Len(q))

\* Moving a path from below old to below new, and back again.
LEMMA MoveBack ==
    ASSUME NEW S, NEW old \in Seq(S), NEW new \in Seq(S), NEW q \in Seq(S), IsPrefix(old, q)
    PROVE  /\ Rest(q, Len(old)) \in Seq(S)
           /\ old \o Rest(new \o Rest(q, Len(old)), Len(new)) = q
<1> DEFINE rest == SubSeq(q, Len(old) + 1, Len(q))
           r == new \o rest
<1>1. Len(old) <= Len(q) /\ \A i \in 1..Len(old) : old[i] = q[i]
  BY PrefixAt
<1>2. Len(old) \in Nat /\ Len(q) \in Nat /\ Len(new) \in Nat
  OBVIOUS
<1>3. /\ rest \in Seq(S) /\ Len(rest) = Len(q) - Len(old)
      /\ \A i \in 1..(Len(q) - Len(old)) : rest[i] = q[Len(old) + i]
  BY <1>1, <1>2, SubSeqProperties
<1> HIDE DEF rest
<1>4. SubSeq(r, Len(new) + 1, Len(r)) = rest
  BY <1>3, SubSeqOfConcat2, SubSeqFull, ConcatProperties
<1>5. old \o rest \in Seq(S) /\ Len(old \o rest) = Len(q)
  BY <1>1, <1>2, <1>3, ConcatProperties
<1>6. ASSUME NEW i \in 1..Len(q) PROVE (old \o rest)[i] = q[i]
  <2>1. CASE i <= Len(old)
    BY <2>1, <1>1, <1>2, <1>3, ConcatProperties
  <2>2. CASE ~(i <= Len(old))
    <3>1. i - Len(old) \in 1..(Len(q) - Len(old)) /\ Len(old) + (i - Len(old)) = i
      BY <2>2, <1>2
    <3>2. (old \o rest)[i] = rest[i - Len(old)]
      BY <2>2, <3>1, <1>2, <1>3, ConcatProperties
    <3> QED BY <3>1, <3>2, <1>3
  <2> QED BY <2>1, <2>2
<1>7. old \o rest = q
  BY <1>5, <1>6, SeqEqual
<1> QED BY <1>3, <1>4, <1>7 DEF rest, Rest

\* Two paths each of which is a prefix of the other are one.
LEMMA PrefixBoth ==
    ASSUME NEW S, NEW s \in Seq(S), NEW t \in Seq(S), IsPrefix(s, t), IsPrefix(t, s)
    PROVE  s = t
<1>1. Len(s) = Len(t) /\ \A i \in 1..Len(s) : s[i] = t[i]
  BY PrefixAt
<1> QED BY <1>1, SeqEqual

LEMMA PrefixChain ==
    ASSUME NEW S, NEW s \in Seq(S), NEW t \in Seq(S), NEW u \in Seq(S),
           IsPrefix(s, t), IsPrefix(t, u)
    PROVE  IsPrefix(s, u)
<1>1. Len(s) <= Len(t) /\ \A i \in 1..Len(s) : s[i] = t[i]
  BY PrefixAt
<1>2. Len(t) <= Len(u) /\ \A i \in 1..Len(t) : t[i] = u[i]
  BY PrefixAt
<1>3. Len(s) <= Len(u) /\ \A i \in 1..Len(s) : i \in 1..Len(t)
  BY <1>1, <1>2
<1> QED BY <1>1, <1>2, <1>3, PrefixAt

LEMMA RestOfPath ==
    ASSUME NEW S, NEW s \in Seq(S), NEW k \in Nat
    PROVE  SubSeq(s, k + 1, Len(s)) \in Seq(S)
<1>1. CASE k <= Len(s)
  BY <1>1, SubSeqProperties
<1>2. CASE ~(k <= Len(s))
  BY <1>2, SubSeqEmpty
<1> QED BY <1>1, <1>2

-----------------------------------------------------------------------------
(* The sandbox: what a step may do to the tree, the disk and the handles.  *)

\* The tree below the root changes as long as the root stays and files get
\* places of their own; the disk grows and keeps what is outside; handles are
\* opened on places that are not outside.
TreeStep ==
    /\ DOMAIN fs' \subseteq Seq(STRING) /\ Is(fs', Root, "dir")
    /\ \A p \in DOMAIN fs' : ~UnderRoot(p) => p \in DOMAIN fs /\ fs'[p] = fs[p]
    /\ \A p \in DOMAIN fs : ~UnderRoot(p) => p \in DOMAIN fs'
    /\ \A p \in DOMAIN fs' : UnderRoot(p) =>
        /\ fs'[p] \in {Dir, Link(fs'[p].to), File(fs'[p].at)}
        /\ fs'[p].kind = "file" => fs'[p].at \in DOMAIN disk' \ OutsidePlaces

DiskStep ==
    /\ \E n \in Nat : DOMAIN disk' = 1..n
    /\ DOMAIN disk \subseteq DOMAIN disk'
    /\ \A i \in OutsidePlaces : disk'[i] = disk[i]

HandleStep ==
    \A t \in DOMAIN handles' :
        /\ DOMAIN handles'[t] = {"kind", "at", "writable", "entries"}
        /\ handles'[t].kind = "file" => /\ handles'[t].at \notin OutsidePlaces
                                        /\ handles'[t].writable => handles'[t].at \in DOMAIN disk'

LEMMA SandboxStep ==
    ASSUME PlacesSound, OutsideKept, TreeStep, DiskStep, HandleStep
    PROVE  PlacesSound' /\ OutsideKept'
<1>1. DOMAIN fs' \subseteq Seq(STRING) /\ \E n \in Nat : DOMAIN disk' = 1..n
  BY DEF TreeStep, DiskStep
<1>2. ASSUME NEW p \in DOMAIN fs'
      PROVE  /\ fs'[p] \in {Dir, Link(fs'[p].to), File(fs'[p].at)}
             /\ fs'[p].kind = "file" => /\ fs'[p].at \in DOMAIN disk'
                                        /\ UnderRoot(p) => fs'[p].at \notin OutsidePlaces
  <2>1. CASE UnderRoot(p)
    BY <2>1 DEF TreeStep
  <2>2. CASE ~UnderRoot(p)
    BY <2>2 DEF TreeStep, DiskStep, PlacesSound
  <2> QED BY <2>1, <2>2
<1>3. PlacesSound'
  BY <1>1, <1>2 DEF PlacesSound, HandleStep
<1>4. OutsideKept'
  BY DEF OutsideKept, TreeStep, DiskStep
<1> QED BY <1>3, <1>4

LEMMA TreeUnchanged ==
    ASSUME PlacesSound, OutsideKept, UNCHANGED fs, DiskStep PROVE TreeStep
BY DEF PlacesSound, OutsideKept, DiskStep, TreeStep

LEMMA DiskUnchanged ==
    ASSUME PlacesSound, UNCHANGED disk PROVE DiskStep
BY DEF PlacesSound, DiskStep

LEMMA HandlesUnchanged ==
    ASSUME PlacesSound, UNCHANGED handles, DiskStep PROVE HandleStep
BY DEF PlacesSound, DiskStep, HandleStep

\* The places outside are on the disk; 0 is not.
LEMMA OutsideOnDisk ==
    ASSUME PlacesSound, OutsideKept
    PROVE  OutsidePlaces \subseteq DOMAIN disk /\ 0 \notin OutsidePlaces
<1>1. ASSUME NEW i \in OutsidePlaces PROVE i \in DOMAIN disk
  <2>1. PICK p \in DOMAIN Tree : ~UnderRoot(p) /\ Is(Tree, p, "file") /\ i = Tree[p].at
    BY <1>1 DEF OutsidePlaces
  <2> QED BY <2>1 DEF OutsideKept, PlacesSound, Is
<1>2. 0 \notin DOMAIN disk
  BY DEF PlacesSound
<1> QED BY <1>1, <1>2

\* A place a file may be written at: one of a file in the sandbox, or the next.
Writable(at) == at \notin OutsidePlaces /\ (at \in DOMAIN disk \/ at = Cardinality(DOMAIN disk) + 1)

LEMMA NextPlace ==
    ASSUME PlacesSound, OutsideKept
    PROVE  Writable(Cardinality(DOMAIN disk) + 1)
<1>1. PICK n \in Nat : DOMAIN disk = 1..n
  BY DEF PlacesSound
<1>2. Cardinality(DOMAIN disk) = n
  BY <1>1, FS_Interval
<1>3. n + 1 \notin DOMAIN disk
  BY <1>1
<1> QED BY <1>2, <1>3, OutsideOnDisk DEF Writable

LEMMA FillDisk ==
    ASSUME PlacesSound, NEW at, NEW data, Writable(at),
           disk' = [i \in DOMAIN disk \cup {at} |-> IF i = at THEN data ELSE disk[i]],
           OutsidePlaces \subseteq DOMAIN disk
    PROVE  DiskStep /\ at \in DOMAIN disk'
<1>1. PICK n \in Nat : DOMAIN disk = 1..n
  BY DEF PlacesSound
<1>2. Cardinality(DOMAIN disk) = n
  BY <1>1, FS_Interval
<1>3. DOMAIN disk' = DOMAIN disk \cup {at}
  OBVIOUS
<1>4. at \notin OutsidePlaces /\ (at \in DOMAIN disk \/ at = n + 1)
  BY <1>2 DEF Writable
<1>5. \E m \in Nat : DOMAIN disk' = 1..m
  <2>1. CASE at \in DOMAIN disk
    BY <1>1, <1>3, <2>1
  <2>2. CASE at = n + 1
    <3>1. (1..n) \cup {n + 1} = 1..(n + 1)
      OBVIOUS
    <3> QED BY <1>1, <1>3, <2>2, <3>1
  <2> QED BY <1>4, <2>1, <2>2
<1>6. \A i \in OutsidePlaces : disk'[i] = disk[i]
  BY <1>4
<1> QED BY <1>3, <1>5, <1>6 DEF DiskStep

\* A node that may be put at a path of the sandbox.
PutAt(p, node) ==
    /\ p \in Seq(STRING) /\ UnderRoot(p) /\ p # Root
    /\ node = Dir \/ \E at \in DOMAIN disk' \ OutsidePlaces : node = File(at)

LEMMA PutTree ==
    ASSUME PlacesSound, OutsideKept, DiskStep, NEW p, NEW node, PutAt(p, node),
           fs' = [q \in DOMAIN fs \cup {p} |-> IF q = p THEN node ELSE fs[q]]
    PROVE  TreeStep
<1>1. DOMAIN fs' = DOMAIN fs \cup {p} /\ \A q \in DOMAIN fs' : q # p => fs'[q] = fs[q]
  OBVIOUS
<1>2. fs'[p] = node /\ p \in Seq(STRING) /\ UnderRoot(p) /\ p # Root
  BY <1>1 DEF PutAt
<1>3. /\ node \in {Dir, Link(node.to), File(node.at)}
      /\ node.kind = "file" => node.at \in DOMAIN disk' \ OutsidePlaces
  BY DEF PutAt, Dir, File
<1>4. Is(fs', Root, "dir")
  BY <1>1, <1>2 DEF OutsideKept, Is, Exists
<1>5. \A q \in DOMAIN fs : fs[q].kind = "file" => fs[q].at \in DOMAIN disk'
  BY DEF PlacesSound, DiskStep
<1>6. ASSUME NEW q \in DOMAIN fs', UnderRoot(q)
      PROVE  /\ fs'[q] \in {Dir, Link(fs'[q].to), File(fs'[q].at)}
             /\ fs'[q].kind = "file" => fs'[q].at \in DOMAIN disk' \ OutsidePlaces
  <2>1. CASE q = p
    BY <2>1, <1>2, <1>3
  <2>2. CASE q # p
    BY <2>2, <1>1, <1>5, <1>6 DEF PlacesSound
  <2> QED BY <2>1, <2>2
<1>7. DOMAIN fs' \subseteq Seq(STRING)
  BY <1>1, <1>2 DEF PlacesSound
<1>8. \A q \in DOMAIN fs' : ~UnderRoot(q) => q \in DOMAIN fs /\ fs'[q] = fs[q]
  BY <1>1, <1>2
<1> QED BY <1>1, <1>4, <1>6, <1>7, <1>8 DEF TreeStep

LEMMA RemoveFromTree ==
    ASSUME PlacesSound, OutsideKept, DiskStep, NEW p, UnderRoot(p), p # Root,
           fs' = [q \in DOMAIN fs \ {p} |-> fs[q]]
    PROVE  TreeStep
<1>1. DOMAIN fs' = DOMAIN fs \ {p} /\ \A q \in DOMAIN fs' : fs'[q] = fs[q]
  OBVIOUS
<1>2. Is(fs', Root, "dir")
  BY <1>1 DEF OutsideKept, Is, Exists
<1>3. \A q \in DOMAIN fs : fs[q].kind = "file" => fs[q].at \in DOMAIN disk'
  BY DEF PlacesSound, DiskStep
<1> QED BY <1>1, <1>2, <1>3 DEF PlacesSound, TreeStep

\* A rename within the sandbox: every path keeps its node under its new name.
LEMMA MoveTree ==
    ASSUME PlacesSound, OutsideKept, DiskStep, NEW old, NEW new,
           old \in Seq(STRING), UnderRoot(old), ~IsPrefix(old, Root),
           new \in Seq(STRING), UnderRoot(new), new # Root,
           fs' = Sftp!Moved(old, new)
    PROVE  TreeStep
<1> DEFINE below == {q \in DOMAIN fs : IsPrefix(old, q)}
           at(q) == new \o Rest(q, Len(old))
           source(r) == old \o Rest(r, Len(new))
           targets == {at(q) : q \in below}
<1>1. fs' = [r \in (DOMAIN fs \ below) \cup targets |->
                IF r \in targets THEN fs[source(r)] ELSE fs[r]]
  BY DEF Sftp!Moved, Sftp!IsPrefix, IsPrefix, Rest
<1>2. Root \in Seq(STRING)
  BY TreeAssumption
<1>3. ASSUME NEW r \in targets
      PROVE  r \in Seq(STRING) /\ UnderRoot(r) /\ r # Root /\ source(r) \in below
  <2>1. PICK q \in DOMAIN fs :
            IsPrefix(old, q) /\ r = new \o Rest(q, Len(old))
    BY <1>3
  <2>2. q \in Seq(STRING)
    BY DEF PlacesSound
  <2>3. Rest(q, Len(old)) \in Seq(STRING) /\ source(r) = q
    BY <2>1, <2>2, MoveBack
  <2>4. r \in Seq(STRING) /\ UnderRoot(r) /\ r # Root
    <3> HIDE DEF source
    <3> QED BY <2>1, <2>3, <1>2, PrefixOfConcat DEF UnderRoot
  <2> QED BY <2>1, <2>3, <2>4
<1>4. ASSUME NEW q \in below PROVE UnderRoot(q)
  BY <1>2, <1>4, PrefixChain DEF PlacesSound, UnderRoot
<1> HIDE DEF at, source, targets
<1>5. DOMAIN fs' = (DOMAIN fs \ below) \cup targets
  BY <1>1
<1>6. /\ \A r \in targets : fs'[r] = fs[source(r)]
      /\ \A r \in DOMAIN fs' : r \notin targets => r \in DOMAIN fs /\ fs'[r] = fs[r]
  BY <1>1, <1>5
<1>7. Is(fs', Root, "dir")
  BY <1>3, <1>5, <1>6 DEF OutsideKept, Is, Exists
<1>8. DOMAIN fs' \subseteq Seq(STRING)
  BY <1>3, <1>5 DEF PlacesSound
<1>9. \A p \in DOMAIN fs' : ~UnderRoot(p) => p \in DOMAIN fs /\ fs'[p] = fs[p]
  BY <1>3, <1>6
<1>10. \A p \in DOMAIN fs : ~UnderRoot(p) => p \in DOMAIN fs'
  BY <1>4, <1>5
<1>11. \A q \in DOMAIN fs : UnderRoot(q) =>
        /\ fs[q] \in {Dir, Link(fs[q].to), File(fs[q].at)}
        /\ fs[q].kind = "file" => fs[q].at \in DOMAIN disk' \ OutsidePlaces
  BY DEF PlacesSound, DiskStep
<1>12. ASSUME NEW p \in DOMAIN fs', UnderRoot(p)
       PROVE  /\ fs'[p] \in {Dir, Link(fs'[p].to), File(fs'[p].at)}
              /\ fs'[p].kind = "file" => fs'[p].at \in DOMAIN disk' \ OutsidePlaces
  <2>1. CASE p \in targets
    <3>1. source(p) \in DOMAIN fs /\ UnderRoot(source(p)) /\ fs'[p] = fs[source(p)]
      BY <2>1, <1>3, <1>4, <1>6
    <3> QED BY <3>1, <1>11
  <2>2. CASE p \notin targets
    BY <2>2, <1>6, <1>11, <1>12
  <2> QED BY <2>1, <2>2
<1> QED BY <1>7, <1>8, <1>9, <1>10, <1>12 DEF TreeStep

-----------------------------------------------------------------------------
(* The sandbox: path resolution, and the SFTP requests.                    *)

LEMMA NoPathOutside == ~UnderRoot(<<>>)
<1>1. Root \in Seq(STRING) /\ Root # <<>> /\ Len(<<>>) = 0
  BY TreeAssumption
<1>2. Len(Root) \in Nat \ {0}
  BY <1>1, EmptySeq
<1>3. ~(Len(Root) <= Len(<<>>))
  BY <1>1, <1>2
<1> QED BY <1>3 DEF UnderRoot, IsPrefix

\* What a resolved path is: in the sandbox, and not a link.
InSandbox(p) == p \in Seq(STRING) /\ UnderRoot(p) /\ (p \in DOMAIN fs => fs[p].kind # "link")

LEMMA SftpCanonical ==
    ASSUME NEW f, NEW p, Sftp!Canonical(f, p) # <<>>
    PROVE  Sftp!Canonical(f, p) \in DOMAIN f /\ f[Sftp!Canonical(f, p)].kind # "link"
BY DEF Sftp!Canonical, Sftp!Exists, Sftp!Is, Sftp!NoPath

LEMMA SftpExisting ==
    ASSUME PlacesSound, NEW rel, Sftp!ResolveExisting(rel) # <<>>
    PROVE  InSandbox(Sftp!ResolveExisting(rel)) /\ Sftp!ResolveExisting(rel) \in DOMAIN fs
<1> DEFINE p == Sftp!Canonical(fs, Root \o rel)
<1>1. Sftp!ResolveExisting(rel) = p /\ UnderRoot(p) /\ p # <<>>
  BY DEF Sftp!ResolveExisting, Sftp!UnderRoot, Sftp!IsPrefix, UnderRoot, IsPrefix, Sftp!NoPath
<1>2. p \in DOMAIN fs /\ fs[p].kind # "link"
  BY <1>1, SftpCanonical
<1> QED BY <1>1, <1>2 DEF PlacesSound, InSandbox

LEMMA SftpNew ==
    ASSUME PlacesSound, NEW rel \in Seq(STRING), Sftp!ResolveNew(rel) # <<>>
    PROVE  InSandbox(Sftp!ResolveNew(rel)) /\ Sftp!ResolveNew(rel) # Root
<1> DEFINE parent == Sftp!Canonical(fs, Root \o Sftp!Front(rel))
           p == Append(parent, Sftp!Last(rel))
<1>1. /\ Sftp!ResolveNew(rel) = p /\ rel # <<>> /\ UnderRoot(parent) /\ parent \in DOMAIN fs
      /\ p \in DOMAIN fs => fs[p].kind # "link"
  BY DEF Sftp!ResolveNew, Sftp!ResolveForCreate, Sftp!UnderRoot, Sftp!IsPrefix, UnderRoot,
         IsPrefix, Sftp!NoPath, Sftp!Is, Sftp!Exists
<1>2. Sftp!Last(rel) \in STRING
  BY <1>1, EmptySeq, ElementOfSeq DEF Sftp!Last
<1>3. parent \in Seq(STRING) /\ Root \in Seq(STRING)
  BY <1>1, TreeAssumption DEF PlacesSound
<1> HIDE DEF parent
<1>4. p \in Seq(STRING) /\ UnderRoot(p) /\ p # Root
  BY <1>1, <1>2, <1>3, PrefixOfAppend DEF UnderRoot
<1> QED BY <1>1, <1>4 DEF InSandbox

LEMMA SftpCardinality == ASSUME NEW S PROVE Sftp!Cardinality(S) = Cardinality(S)
BY Zenon DEF Sftp!Cardinality, Cardinality

LEMMA HandleInserted ==
    ASSUME PlacesSound, DiskStep, NEW h, Sftp!InsertHandle(h),
           DOMAIN h = {"kind", "at", "writable", "entries"},
           h.kind = "file" => h.at \notin OutsidePlaces /\ (h.writable => h.at \in DOMAIN disk')
    PROVE  HandleStep
<1>1. handles' = [t \in DOMAIN handles \cup {nextHandle} |->
                    IF t = nextHandle THEN h ELSE handles[t]]
  BY DEF Sftp!InsertHandle
<1>2. ASSUME NEW t \in DOMAIN handles'
      PROVE  handles'[t] = h \/ (t \in DOMAIN handles /\ handles'[t] = handles[t])
  BY <1>1
<1> QED BY <1>2 DEF PlacesSound, DiskStep, HandleStep

\* A file of the sandbox is written where it is.
LEMMA SandboxFile ==
    ASSUME PlacesSound, NEW p \in DOMAIN fs, UnderRoot(p), fs[p].kind = "file"
    PROVE  Writable(fs[p].at) /\ fs[p].at \in DOMAIN disk \ OutsidePlaces
BY DEF PlacesSound, Writable

LEMMA RootIsDirectory ==
    ASSUME OutsideKept PROVE Root \in DOMAIN fs /\ fs[Root].kind = "dir"
BY DEF OutsideKept, Is, Exists

SandboxSteps == TreeStep /\ DiskStep /\ HandleStep

\* A file is opened in the sandbox, or made there; a directory is only opened
\* to read, and its handle is on no place at all.
LEMMA SftpOpen ==
    ASSUME PlacesSound, OutsideKept, NEW rel \in Seq(STRING), NEW flags \in Sftp!Flags,
           Sftp!Open(rel, flags)
    PROVE  SandboxSteps
<1> DEFINE p == IF "create" \in flags THEN Sftp!ResolveNew(rel) ELSE Sftp!ResolveExisting(rel)
           at == Sftp!Place(fs, disk, p)
           write == "write" \in flags
<1>1. /\ p # <<>>
      /\ ~(p \in DOMAIN fs /\ fs[p].kind = "dir") \/ ~write
      /\ IF p \in DOMAIN fs THEN UNCHANGED fs
         ELSE fs' = [q \in DOMAIN fs \cup {p} |-> IF q = p THEN File(at) ELSE fs[q]]
      /\ IF "truncate" \in flags \/ p \notin DOMAIN fs
         THEN disk' = [i \in DOMAIN disk \cup {at} |-> IF i = at THEN <<>> ELSE disk[i]]
         ELSE UNCHANGED disk
      /\ Sftp!InsertHandle(Sftp!FileHandle(at, write))
  BY DEF Sftp!Open, Sftp!NoPath, Sftp!Is, Sftp!Exists, Sftp!Put, Sftp!Fill, Sftp!File, File,
         NoPath
<1>2. "truncate" \in flags => write
  BY DEF Sftp!Flags
<1>3. InSandbox(p)
  BY <1>1, SftpNew, SftpExisting
<1> HIDE DEF p
<1>4. at = IF p \in DOMAIN fs THEN fs[p].at ELSE Cardinality(DOMAIN disk) + 1
  BY SftpCardinality DEF Sftp!Place, Sftp!Exists
<1> HIDE DEF at
<1>5. /\ DOMAIN Sftp!FileHandle(at, write) = {"kind", "at", "writable", "entries"}
      /\ (Sftp!FileHandle(at, write)).kind = "file" /\ (Sftp!FileHandle(at, write)).at = at
      /\ (Sftp!FileHandle(at, write)).writable <=> write
  BY DEF Sftp!FileHandle
<1>6. OutsidePlaces \subseteq DOMAIN disk /\ 0 \notin OutsidePlaces
  BY OutsideOnDisk
<1>7. CASE p \in DOMAIN fs /\ fs[p].kind = "file"
  <2>1. Writable(at) /\ at \in DOMAIN disk \ OutsidePlaces
    BY <1>3, <1>4, <1>7, SandboxFile DEF InSandbox
  <2>2. DiskStep
    BY <1>1, <1>6, <1>7, <2>1, FillDisk, DiskUnchanged
  <2>3. TreeStep
    BY <1>1, <1>7, <2>2, TreeUnchanged
  <2>4. HandleStep
    BY <1>1, <1>5, <2>1, <2>2, HandleInserted DEF DiskStep
  <2> QED BY <2>2, <2>3, <2>4 DEF SandboxSteps
<1>8. CASE p \in DOMAIN fs /\ fs[p].kind = "dir"
  <2>1. at = 0 /\ ~write /\ UNCHANGED <<fs, disk>>
    BY <1>1, <1>2, <1>4, <1>8 DEF PlacesSound, Dir, Link, File
  <2>2. DiskStep
    BY <2>1, DiskUnchanged
  <2>3. TreeStep
    BY <2>1, <2>2, TreeUnchanged
  <2>4. HandleStep
    BY <1>1, <1>5, <1>6, <2>1, <2>2, HandleInserted
  <2> QED BY <2>2, <2>3, <2>4 DEF SandboxSteps
<1>9. CASE p \notin DOMAIN fs
  <2>1. Writable(at)
    BY <1>4, <1>9, NextPlace
  <2>2. DiskStep /\ at \in DOMAIN disk'
    BY <1>1, <1>6, <1>9, <2>1, FillDisk
  <2>3. PutAt(p, File(at))
    BY <1>3, <1>9, <2>1, <2>2, RootIsDirectory DEF InSandbox, PutAt, Writable
  <2>4. TreeStep
    BY <1>1, <1>9, <2>2, <2>3, PutTree
  <2>5. HandleStep
    BY <1>1, <1>5, <2>1, <2>2, HandleInserted DEF Writable
  <2> QED BY <2>2, <2>4, <2>5 DEF SandboxSteps
<1>10. p \in DOMAIN fs => fs[p].kind \in {"file", "dir"}
  BY <1>3 DEF InSandbox, PlacesSound, Dir, Link, File
<1> QED BY <1>7, <1>8, <1>9, <1>10

LEMMA SftpOpenSized ==
    ASSUME PlacesSound, OutsideKept, NEW rel, NEW n, Sftp!OpenSized(rel, n)
    PROVE  SandboxSteps
<1> DEFINE p == Sftp!ResolveExisting(rel)
           data == Sftp!SetLen(disk[fs[p].at], n)
<1>1. /\ p # <<>> /\ fs[p].kind = "file" /\ UNCHANGED fs
      /\ disk' = [i \in DOMAIN disk \cup {fs[p].at} |-> IF i = fs[p].at THEN data ELSE disk[i]]
      /\ Sftp!InsertHandle(Sftp!FileHandle(fs[p].at, TRUE))
  BY DEF Sftp!OpenSized, Sftp!NoPath, Sftp!Is, Sftp!Fill
<1>2. InSandbox(p) /\ p \in DOMAIN fs
  BY <1>1, SftpExisting
<1> HIDE DEF p, data
<1>3. /\ DOMAIN Sftp!FileHandle(fs[p].at, TRUE) = {"kind", "at", "writable", "entries"}
      /\ (Sftp!FileHandle(fs[p].at, TRUE)).at = fs[p].at
  BY DEF Sftp!FileHandle
<1>4. Writable(fs[p].at) /\ fs[p].at \in DOMAIN disk \ OutsidePlaces
  BY <1>1, <1>2, SandboxFile DEF InSandbox
<1>5. DiskStep
  BY <1>1, <1>4, OutsideOnDisk, FillDisk
<1>6. TreeStep
  BY <1>1, <1>5, TreeUnchanged
<1>7. HandleStep
  BY <1>1, <1>3, <1>4, <1>5, HandleInserted DEF DiskStep
<1> QED BY <1>5, <1>6, <1>7 DEF SandboxSteps

LEMMA SftpSetstat ==
    ASSUME PlacesSound, OutsideKept, NEW rel, NEW n, Sftp!Setstat(rel, n)
    PROVE  SandboxSteps
<1> DEFINE p == Sftp!ResolveExisting(rel)
           data == Sftp!SetLen(disk[fs[p].at], n)
<1>1. /\ p # <<>> /\ fs[p].kind = "file" /\ UNCHANGED <<fs, handles>>
      /\ disk' = [i \in DOMAIN disk \cup {fs[p].at} |-> IF i = fs[p].at THEN data ELSE disk[i]]
  BY DEF Sftp!Setstat, Sftp!NoPath, Sftp!Is, Sftp!Fill, Sftp!handleVars
<1>2. InSandbox(p) /\ p \in DOMAIN fs
  BY <1>1, SftpExisting
<1> HIDE DEF p, data
<1>3. Writable(fs[p].at)
  BY <1>1, <1>2, SandboxFile DEF InSandbox
<1>4. DiskStep
  BY <1>1, <1>3, OutsideOnDisk, FillDisk
<1> QED BY <1>1, <1>4, TreeUnchanged, HandlesUnchanged DEF SandboxSteps

\* Writing through a handle, whatever has become of the path meanwhile.
LEMMA SftpWritten ==
    ASSUME PlacesSound, OutsideKept, NEW t, Sftp!Writable(t), NEW data,
           UNCHANGED <<fs, handles>>, disk' = Sftp!Fill(disk, handles[t].at, data)
    PROVE  SandboxSteps
<1>1. Writable(handles[t].at)
  BY DEF Sftp!Writable, PlacesSound, Writable
<1>2. DiskStep
  BY <1>1, OutsideOnDisk, FillDisk DEF Sftp!Fill
<1> QED BY <1>2, TreeUnchanged, HandlesUnchanged DEF SandboxSteps

LEMMA SftpRemoved ==
    ASSUME PlacesSound, OutsideKept, NEW p, UnderRoot(p), p # Root,
           UNCHANGED <<disk, handles>>, fs' = Sftp!Without({p})
    PROVE  SandboxSteps
<1>1. DiskStep
  BY DiskUnchanged
<1>2. fs' = [q \in DOMAIN fs \ {p} |-> fs[q]]
  BY DEF Sftp!Without
<1> QED BY <1>1, <1>2, RemoveFromTree, HandlesUnchanged DEF SandboxSteps

\* The root is neither moved, for the new name would be below it, nor replaced.
LEMMA SftpRename ==
    ASSUME PlacesSound, OutsideKept, NEW rel, NEW newrel \in Seq(STRING),
           Sftp!Rename(rel, newrel)
    PROVE  SandboxSteps
<1> DEFINE old == Sftp!ResolveExisting(rel)
           new == Sftp!ResolveNew(newrel)
<1>1. /\ old # <<>> /\ new # <<>> /\ UNCHANGED <<disk, handles>> /\ fs' = Sftp!Moved(old, new)
      /\ old \in DOMAIN fs /\ fs[old].kind = "dir" => ~IsPrefix(old, new)
  BY DEF Sftp!Rename, Sftp!NoPath, Sftp!Is, Sftp!Exists, Sftp!IsPrefix, IsPrefix, Sftp!handleVars
<1>2. InSandbox(old) /\ old \in DOMAIN fs /\ InSandbox(new) /\ new # Root
  BY <1>1, SftpExisting, SftpNew
<1> HIDE DEF old, new
<1>3. Root \in Seq(STRING) /\ Root \in DOMAIN fs /\ fs[Root].kind = "dir"
  BY TreeAssumption, RootIsDirectory
<1>4. ~IsPrefix(old, Root)
  <2> SUFFICES ASSUME IsPrefix(old, Root) PROVE FALSE
    OBVIOUS
  <2>1. old = Root
    BY <1>2, <1>3, PrefixBoth DEF InSandbox, UnderRoot
  <2> QED BY <2>1, <1>1, <1>2, <1>3 DEF InSandbox, UnderRoot
<1>5. DiskStep
  BY <1>1, DiskUnchanged
<1>6. TreeStep
  BY <1>1, <1>2, <1>4, <1>5, MoveTree DEF InSandbox
<1> QED BY <1>1, <1>5, <1>6, HandlesUnchanged DEF SandboxSteps

\* A request of an SFTP client changes nothing outside the sandbox.
LEMMA SftpSandbox ==
    ASSUME PlacesSound, OutsideKept, Sftp!SftpNext
    PROVE  PlacesSound' /\ OutsideKept'
<1>1. SUFFICES SandboxSteps
  BY SandboxStep DEF SandboxSteps
<1>2. ASSUME UNCHANGED <<fs, disk, handles>> PROVE SandboxSteps
  BY <1>2, DiskUnchanged, TreeUnchanged, HandlesUnchanged DEF SandboxSteps
<1>3. CASE Sftp!InitRequest
  BY <1>2, <1>3 DEF Sftp!InitRequest, Sftp!handleVars
<1>4. ASSUME NEW rel \in Targets,
             \/ \E flags \in Sftp!Flags : Sftp!Open(rel, flags)
             \/ \E n \in 0..MaxLength : Sftp!OpenSized(rel, n) \/ Sftp!Setstat(rel, n)
             \/ Sftp!Opendir(rel) \/ Sftp!RemoveFile(rel) \/ Sftp!Mkdir(rel) \/ Sftp!Rmdir(rel)
             \/ \E newrel \in Targets : Sftp!Rename(rel, newrel)
      PROVE  SandboxSteps
  <2>0. rel \in Seq(STRING)
    BY NamesAssumption
  <2>1. ASSUME NEW flags \in Sftp!Flags, Sftp!Open(rel, flags) PROVE SandboxSteps
    BY <2>0, <2>1, SftpOpen
  <2>2. ASSUME NEW n \in 0..MaxLength, Sftp!OpenSized(rel, n) \/ Sftp!Setstat(rel, n)
        PROVE  SandboxSteps
    BY <2>2, SftpOpenSized, SftpSetstat
  <2>3. CASE Sftp!Opendir(rel)
    <3> DEFINE entries == {n \in Sftp!Names(fs, Sftp!ResolveExisting(rel)) :
                              ~Sftp!Is(fs, Append(Sftp!ResolveExisting(rel), n), "link")}
    <3>1. UNCHANGED <<fs, disk>> /\ Sftp!InsertHandle(Sftp!DirHandle(entries))
      BY <2>3 DEF Sftp!Opendir
    <3> HIDE DEF entries
    <3>2. /\ DOMAIN Sftp!DirHandle(entries) = {"kind", "at", "writable", "entries"}
          /\ (Sftp!DirHandle(entries)).kind # "file"
      BY DEF Sftp!DirHandle
    <3>3. DiskStep
      BY <3>1, DiskUnchanged
    <3> QED BY <3>1, <3>2, <3>3, HandleInserted, TreeUnchanged DEF SandboxSteps
  <2>4. CASE Sftp!RemoveFile(rel)
    <3> DEFINE p == Sftp!ResolveExisting(rel)
    <3>1. /\ p # <<>> /\ ~(p \in DOMAIN fs /\ fs[p].kind = "dir") /\ fs' = Sftp!Without({p})
          /\ UNCHANGED <<disk, handles>>
      BY <2>4 DEF Sftp!RemoveFile, Sftp!NoPath, Sftp!Is, Sftp!Exists, Sftp!handleVars
    <3>2. UnderRoot(p) /\ p # Root
      BY <3>1, SftpExisting, RootIsDirectory DEF InSandbox
    <3> QED BY <3>1, <3>2, SftpRemoved
  <2>5. CASE Sftp!Mkdir(rel)
    <3> DEFINE p == Sftp!ResolveNew(rel)
    <3>1. /\ p # <<>> /\ UNCHANGED <<disk, handles>>
          /\ fs' = [q \in DOMAIN fs \cup {p} |-> IF q = p THEN Dir ELSE fs[q]]
      BY <2>5 DEF Sftp!Mkdir, Sftp!NoPath, Sftp!Put, Sftp!Dir, Dir, NoPath, Sftp!handleVars
    <3>2. DiskStep
      BY <3>1, DiskUnchanged
    <3>3. PutAt(p, Dir)
      BY <2>0, <3>1, SftpNew DEF InSandbox, PutAt
    <3> HIDE DEF p
    <3> QED BY <3>1, <3>2, <3>3, PutTree, HandlesUnchanged DEF SandboxSteps
  <2>6. CASE Sftp!Rmdir(rel)
    <3> DEFINE p == Sftp!ResolveExisting(rel)
    <3>1. p # <<>> /\ p # Root /\ fs' = Sftp!Without({p}) /\ UNCHANGED <<disk, handles>>
      BY <2>6 DEF Sftp!Rmdir, Sftp!NoPath, Sftp!handleVars
    <3>2. UnderRoot(p)
      BY <3>1, SftpExisting DEF InSandbox
    <3> QED BY <3>1, <3>2, SftpRemoved
  <2>7. ASSUME NEW newrel \in Targets, Sftp!Rename(rel, newrel) PROVE SandboxSteps
    BY <2>7, NamesAssumption, SftpRename
  <2> QED BY <1>4, <2>1, <2>2, <2>3, <2>4, <2>5, <2>6, <2>7
<1>5. ASSUME NEW t \in 0..(MaxHandles - 1),
             \/ Sftp!Close(t) \/ Sftp!Readdir(t)
             \/ \E n \in 0..MaxLength : Sftp!Write(t, n, 1) \/ Sftp!Fsetstat(t, n)
      PROVE  SandboxSteps
  <2>1. CASE Sftp!Close(t)
    <3>1. /\ UNCHANGED <<fs, disk>>
          /\ \A u \in DOMAIN handles' : u \in DOMAIN handles /\ handles'[u] = handles[u]
      BY <2>1 DEF Sftp!Close
    <3>2. DiskStep
      BY <3>1, DiskUnchanged
    <3>3. HandleStep
      BY <3>1, <3>2 DEF PlacesSound, DiskStep, HandleStep
    <3> QED BY <3>1, <3>2, <3>3, TreeUnchanged DEF SandboxSteps
  <2>2. CASE Sftp!Readdir(t)
    <3>1. /\ UNCHANGED <<fs, disk>> /\ DOMAIN handles' = DOMAIN handles
          /\ \A u \in DOMAIN handles' : u # t => handles'[u] = handles[u]
          /\ handles[t].kind = "dir" /\ handles'[t] = [handles[t] EXCEPT !.entries = {}]
      BY <2>2 DEF Sftp!Readdir
    <3>2. DiskStep
      BY <3>1, DiskUnchanged
    <3>3. HandleStep
      BY <3>1, <3>2 DEF PlacesSound, DiskStep, HandleStep
    <3> QED BY <3>1, <3>2, <3>3, TreeUnchanged DEF SandboxSteps
  <2>3. ASSUME NEW n \in 0..MaxLength, Sftp!Write(t, n, 1) PROVE SandboxSteps
    <3>1. PICK data : disk' = Sftp!Fill(disk, handles[t].at, data)
      BY <2>3 DEF Sftp!Write
    <3>2. Sftp!Writable(t) /\ UNCHANGED <<fs, handles>>
      BY <2>3 DEF Sftp!Write, Sftp!handleVars
    <3> QED BY <3>1, <3>2, SftpWritten
  <2>4. ASSUME NEW n \in 0..MaxLength, Sftp!Fsetstat(t, n) PROVE SandboxSteps
    <3>1. PICK data : disk' = Sftp!Fill(disk, handles[t].at, data)
      BY <2>4 DEF Sftp!Fsetstat
    <3>2. Sftp!Writable(t) /\ UNCHANGED <<fs, handles>>
      BY <2>4 DEF Sftp!Fsetstat, Sftp!handleVars
    <3> QED BY <3>1, <3>2, SftpWritten
  <2> QED BY <1>5, <2>1, <2>2, <2>3, <2>4
<1> QED BY <1>3, <1>4, <1>5 DEF Sftp!SftpNext

-----------------------------------------------------------------------------
(* The sandbox: the SCP sink and source.                                   *)

LEMMA ScpCanonical ==
    ASSUME NEW f, NEW p, Scp!Canonical(f, p) # <<>>
    PROVE  Scp!Canonical(f, p) \in DOMAIN f /\ f[Scp!Canonical(f, p)].kind # "link"
BY DEF Scp!Canonical, Scp!Exists, Scp!Is, Scp!NoPath

LEMMA ScpCreate ==
    ASSUME PlacesSound, NEW rel, rel # <<>> => Scp!Last(rel) \in STRING,
           Scp!ResolveForCreate(fs, rel) # <<>>
    PROVE  /\ InSandbox(Scp!ResolveForCreate(fs, rel))
           /\ Scp!ResolveForCreate(fs, rel) # Root
<1> DEFINE parent == Scp!Canonical(fs, Root \o Scp!Front(rel))
           p == Append(parent, Scp!Last(rel))
<1>1. /\ Scp!ResolveForCreate(fs, rel) = p /\ rel # <<>> /\ UnderRoot(parent)
      /\ parent \in DOMAIN fs
      /\ p \in DOMAIN fs => fs[p].kind # "link"
  BY DEF Scp!ResolveForCreate, Scp!UnderRoot, Scp!IsPrefix, UnderRoot, IsPrefix, Scp!NoPath,
         Scp!Is, Scp!Exists
<1>2. parent \in Seq(STRING) /\ Root \in Seq(STRING)
  BY <1>1, TreeAssumption DEF PlacesSound
<1> HIDE DEF parent
<1>3. p \in Seq(STRING) /\ UnderRoot(p) /\ p # Root
  BY <1>1, <1>2, PrefixOfAppend DEF UnderRoot
<1> QED BY <1>1, <1>3 DEF InSandbox

LEMMA ScpChild ==
    ASSUME PlacesSound, dirs \in Seq(Seq(STRING)), dirs # <<>>, NEW name \in Offered,
           Scp!ChildPath(name) # <<>>
    PROVE  InSandbox(Scp!ChildPath(name)) /\ Scp!ChildPath(name) # Root
<1> DEFINE rest == SubSeq(Scp!Last(dirs), Len(Root) + 1, Len(Scp!Last(dirs)))
<1>1. Scp!Last(dirs) \in Seq(STRING)
  BY EmptySeq, ElementOfSeq DEF Scp!Last
<1>2. Len(Root) \in Nat
  BY TreeAssumption
<1>3. rest \in Seq(STRING)
  <2> HIDE DEF Scp!Last
  <2> QED BY <1>1, <1>2, RestOfPath
<1>4. Scp!ChildPath(name) = Scp!ResolveForCreate(fs, Append(rest, name))
  BY DEF Scp!ChildPath
<1> HIDE DEF rest
<1>5. Scp!Last(Append(rest, name)) \in STRING
  <2>1. name \in STRING
    BY NamesAssumption
  <2>2. Append(rest, name)[Len(Append(rest, name))] = name
    <3>1. /\ Len(Append(rest, name)) = Len(rest) + 1
          /\ Append(rest, name)[Len(rest) + 1] = name
      BY <1>3, <2>1, AppendProperties
    <3> QED BY <3>1
  <2> QED BY <2>1, <2>2 DEF Scp!Last
<1> QED BY <1>4, <1>5, ScpCreate

LEMMA ScpCardinality == ASSUME NEW S PROVE Scp!Cardinality(S) = Cardinality(S)
BY Zenon DEF Scp!Cardinality, Cardinality

\* A file is stored at its path in the sandbox, whole or not.
LEMMA ScpStored ==
    ASSUME PlacesSound, OutsideKept, NEW p, InSandbox(p),
           ~(p \in DOMAIN fs /\ fs[p].kind = "dir"), NEW data, UNCHANGED handles,
           fs' = Scp!Put(fs, p, Scp!File(Scp!Place(fs, disk, p))),
           disk' = Scp!Fill(disk, Scp!Place(fs, disk, p), data)
    PROVE  SandboxSteps
<1> DEFINE at == Scp!Place(fs, disk, p)
<1>1. at = IF p \in DOMAIN fs THEN fs[p].at ELSE Cardinality(DOMAIN disk) + 1
  BY ScpCardinality DEF Scp!Place, Scp!Exists
<1>2. /\ fs' = [q \in DOMAIN fs \cup {p} |-> IF q = p THEN File(at) ELSE fs[q]]
      /\ disk' = [i \in DOMAIN disk \cup {at} |-> IF i = at THEN data ELSE disk[i]]
  BY DEF Scp!Put, Scp!File, File, Scp!NoPath, NoPath, Scp!Fill
<1> HIDE DEF at
<1>3. p \in DOMAIN fs => fs[p].kind = "file"
  BY DEF InSandbox, PlacesSound, Dir, Link, File
<1>4. Writable(at)
  BY <1>1, <1>3, SandboxFile, NextPlace DEF InSandbox
<1>5. DiskStep /\ at \in DOMAIN disk'
  BY <1>2, <1>4, OutsideOnDisk, FillDisk
<1>6. PutAt(p, File(at))
  BY <1>4, <1>5, RootIsDirectory DEF InSandbox, PutAt, Writable
<1> QED BY <1>2, <1>5, <1>6, PutTree, HandlesUnchanged DEF SandboxSteps

LEMMA ScpMade ==
    ASSUME PlacesSound, OutsideKept, NEW p, InSandbox(p), p # Root, UNCHANGED <<disk, handles>>,
           fs' = Scp!Put(fs, p, Scp!Dir)
    PROVE  SandboxSteps
<1>1. fs' = [q \in DOMAIN fs \cup {p} |-> IF q = p THEN Dir ELSE fs[q]]
  BY DEF Scp!Put, Scp!Dir, Scp!NoPath, Dir, NoPath
<1>2. DiskStep
  BY DiskUnchanged
<1>3. PutAt(p, Dir)
  BY DEF InSandbox, PutAt
<1> QED BY <1>1, <1>2, <1>3, PutTree, HandlesUnchanged DEF SandboxSteps

LEMMA ScpUntouched ==
    ASSUME SandboxInv, UNCHANGED <<fs, disk, handles>>
    PROVE  PlacesSound' /\ OutsideKept'
BY DiskUnchanged, TreeUnchanged, HandlesUnchanged, SandboxStep DEF SandboxInv

\* Every path the sink resolves, for the target or for a name in an open
\* directory, is in the sandbox, and is so still when it is written.
LEMMA SinkTargets ==
    ASSUME PlacesSound, OutsideKept, NEW req, req.target \in Seq(STRING),
           (Scp!SinkTarget(req)).ok
    PROVE  /\ (Scp!SinkTarget(req)).dir \in Seq(STRING)
           /\ (Scp!SinkTarget(req)).forced # <<>> => InSandbox((Scp!SinkTarget(req)).forced)
           /\ (Scp!SinkTarget(req)).made # <<>> =>
                /\ InSandbox((Scp!SinkTarget(req)).made) /\ (Scp!SinkTarget(req)).made # Root
                /\ (Scp!SinkTarget(req)).forced = <<>>
<1> DEFINE t == Scp!SinkTarget(req)
           p == Scp!Lstat(fs, Root \o req.target)
           q == Scp!ResolveForCreate(fs, req.target)
<1>1. \/ /\ p \in DOMAIN fs
         /\ t = [ok |-> TRUE, dir |-> p, forced |-> <<>>, made |-> <<>>]
      \/ /\ UnderRoot(p) /\ p \in DOMAIN fs /\ fs[p].kind = "file"
         /\ t = [ok |-> TRUE, dir |-> Scp!Front(p), forced |-> p, made |-> <<>>]
      \/ q # <<>> /\ t = [ok |-> TRUE, dir |-> q, forced |-> <<>>, made |-> q]
      \/ q # <<>> /\ t = [ok |-> TRUE, dir |-> Scp!Front(q), forced |-> q, made |-> <<>>]
  <2> HIDE DEF p, q
  <2> QED BY DEF p, q, Scp!SinkTarget, Scp!NoPath, Scp!Exists, Scp!Is, Scp!UnderRoot, Scp!IsPrefix,
                 UnderRoot, IsPrefix
<1>2. req.target # <<>> => Scp!Last(req.target) \in STRING
  BY EmptySeq, ElementOfSeq DEF Scp!Last
<1>3. q # <<>> => InSandbox(q) /\ q # Root
  BY <1>2, ScpCreate
<1> HIDE DEF p, q, t
<1>4. \A s \in Seq(STRING) : Scp!Front(s) \in Seq(STRING)
  <2>1. ASSUME NEW s \in Seq(STRING) PROVE Scp!Front(s) \in Seq(STRING)
    <3>1. \A i \in 1..(Len(s) - 1) : s[i] \in STRING
      BY ElementOfSeq
    <3> QED BY <3>1, SubSeqProperties DEF Scp!Front
  <2> QED BY <2>1
<1>5. t.dir \in Seq(STRING) /\ (t.forced # <<>> => InSandbox(t.forced))
  BY <1>1, <1>3, <1>4 DEF InSandbox, PlacesSound
<1>6. t.made # <<>> => InSandbox(t.made) /\ t.made # Root /\ t.forced = <<>>
  BY <1>1, <1>3
<1> QED BY <1>5, <1>6 DEF t

LEMMA ScpSandbox ==
    ASSUME SandboxInv, Started("scp"), Scp!ScpNext, UNCHANGED <<service, handles>>
    PROVE  SandboxInv'
<1>0. PlacesSound /\ OutsideKept /\ SinkPaths
  BY DEF SandboxInv
<1>1. Started("scp")'
  BY DEF Started
<1>2. \A p : Storable(p) <=> InSandbox(p)
  BY DEF Storable, InSandbox, Is, Exists
<1>3. ASSUME NEW req \in Scp!Requests, Scp!ServeSink(req) PROVE SandboxInv'
  <2> DEFINE t == Scp!SinkTarget(req)
  <2>1. req.target \in Seq(STRING)
    BY NamesAssumption DEF Scp!Requests
  <2>2. CASE t.ok
    <3>1. /\ spc' = "line" /\ dirs' = <<t.dir>> /\ forced' = t.forced /\ UNCHANGED disk
          /\ fs' = IF t.made = <<>> THEN fs ELSE Scp!Put(fs, t.made, Scp!Dir)
      <4> HIDE DEF t
      <4> QED BY <1>3, <2>2 DEF t, Scp!ServeSink, Scp!NoPath
    <3>2. /\ t.dir \in Seq(STRING) /\ (t.forced # <<>> => InSandbox(t.forced))
          /\ t.made # <<>> => InSandbox(t.made) /\ t.made # Root /\ t.forced = <<>>
      BY <1>0, <2>1, <2>2, SinkTargets
    <3> HIDE DEF t
    <3>3. PlacesSound' /\ OutsideKept'
      <4>1. CASE t.made = <<>>
        BY <3>1, <4>1, ScpUntouched
      <4>2. CASE t.made # <<>>
        BY <1>0, <3>1, <3>2, <4>2, ScpMade, SandboxStep DEF SandboxSteps
      <4> QED BY <4>1, <4>2
    <3>4. forced' # <<>> => Storable(forced)'
      BY <3>1, <3>2 DEF Storable, InSandbox, Is, Exists
    <3>5. dirs' \in Seq(Seq(STRING)) /\ dirs' # <<>>
      BY <3>1, <3>2
    <3> QED BY <1>1, <3>1, <3>3, <3>4, <3>5 DEF SandboxInv, SinkPaths, NoPath
  <2>3. CASE ~t.ok
    <3>1. spc' = "done" /\ UNCHANGED <<fs, disk>>
      <4> HIDE DEF t
      <4> QED BY <1>3, <2>3 DEF t, Scp!ServeSink, Scp!Finish
    <3> QED BY <1>1, <3>1, ScpUntouched DEF SandboxInv, SinkPaths
  <2> QED BY <2>2, <2>3
<1>4. ASSUME spc' \in {"ready", "done"}, UNCHANGED <<fs, disk>> PROVE SandboxInv'
  BY <1>1, <1>4, ScpUntouched DEF SandboxInv, SinkPaths
<1>5. ASSUME NEW req \in Scp!Requests, Scp!ServeSource(req) PROVE SandboxInv'
  BY <1>4, <1>5 DEF Scp!ServeSource, Scp!Finish
<1>6. CASE Scp!ServeInvalid \/ Scp!SinkEof \/ Scp!SourceStep \/ Scp!SourceEnds \/ Scp!Fail
  BY <1>4, <1>6
  DEF Scp!ServeInvalid, Scp!SinkEof, Scp!SourceStep, Scp!SourceEnds, Scp!Fail, Scp!Finish
<1>7. ASSUME spc = "line", spc' = "line", UNCHANGED <<fs, disk, forced>>,
             dirs' \in Seq(Seq(STRING)), dirs' # <<>>
      PROVE  SandboxInv'
  BY <1>0, <1>1, <1>7, ScpUntouched DEF SandboxInv, SinkPaths, Storable, Is, Exists, NoPath
<1>8. CASE Scp!BeginLine \/ Scp!LineTimes
  BY <1>0, <1>7, <1>8 DEF Scp!BeginLine, Scp!LineTimes, Scp!ReadLine, SinkPaths
<1>9. CASE Scp!LineEnd
  <2>1. /\ spc = "line" /\ spc' = "line" /\ UNCHANGED <<fs, disk, forced>>
        /\ Len(dirs) > 1 /\ dirs' = Scp!Front(dirs)
    BY <1>9 DEF Scp!LineEnd, Scp!ReadLine
  <2>2. dirs \in Seq(Seq(STRING)) /\ \A i \in 1..(Len(dirs) - 1) : dirs[i] \in Seq(STRING)
    BY <1>0, <2>1, ElementOfSeq DEF SinkPaths
  <2>3. dirs' \in Seq(Seq(STRING)) /\ Len(dirs') = Len(dirs) - 1
    BY <2>1, <2>2, SubSeqProperties DEF Scp!Front
  <2>4. dirs' # <<>>
    BY <2>1, <2>2, <2>3
  <2> QED BY <1>7, <2>1, <2>3, <2>4
<1>10. ASSUME NEW name \in Offered, Scp!LineDirectory(name) PROVE SandboxInv'
  <2> DEFINE p == Scp!ChildPath(name)
  <2>1. /\ spc = "line" /\ spc' = "line" /\ forced = <<>> /\ forced' = <<>> /\ UNCHANGED disk
        /\ p # <<>> /\ fs' = Scp!Put(fs, p, Scp!Dir) /\ dirs' = Append(dirs, p)
    BY <1>10 DEF Scp!LineDirectory, Scp!ReadLine, Scp!NoPath
  <2>2. dirs \in Seq(Seq(STRING)) /\ dirs # <<>>
    BY <1>0, <2>1 DEF SinkPaths
  <2>3. InSandbox(p) /\ p # Root
    BY <1>0, <2>1, <2>2, ScpChild
  <2> HIDE DEF p
  <2>4. PlacesSound' /\ OutsideKept'
    BY <1>0, <2>1, <2>3, ScpMade, SandboxStep DEF SandboxSteps
  <2>5. dirs' \in Seq(Seq(STRING)) /\ dirs' # <<>>
    BY <2>1, <2>2, <2>3 DEF InSandbox
  <2> QED BY <1>1, <2>1, <2>4, <2>5 DEF SandboxInv, SinkPaths, NoPath
<1>11. ASSUME NEW name \in Offered, NEW size \in 0..(MaxSize + 1), Scp!LineFile(name, size)
       PROVE  SandboxInv'
  <2>0. PICK p : p = IF forced # <<>> THEN forced ELSE Scp!ChildPath(name)
    OBVIOUS
  <2>1. /\ spc = "line" /\ spc' = "data" /\ forced' = <<>> /\ UNCHANGED <<fs, disk, dirs>>
        /\ p # <<>> /\ file' = [path |-> p, size |-> size, data |-> <<>>]
    BY <1>11, <2>0 DEF Scp!LineFile, Scp!ReadLine, Scp!NoPath
  <2>2. dirs \in Seq(Seq(STRING)) /\ dirs # <<>> /\ (forced # <<>> => Storable(forced))
    BY <1>0, <2>1 DEF SinkPaths, NoPath
  <2>3. Storable(p)
    BY <1>0, <1>2, <2>0, <2>1, <2>2, ScpChild
  <2>4. DOMAIN file' = {"path", "size", "data"} /\ file'.path = p /\ Storable(p)'
    BY <2>1, <2>3 DEF Storable, Is, Exists
  <2>5. PlacesSound' /\ OutsideKept'
    BY <2>1, ScpUntouched
  <2> QED BY <1>1, <2>1, <2>2, <2>4, <2>5 DEF SandboxInv, SinkPaths, NoPath, Storable
<1>12. ASSUME NEW b \in Bytes, Scp!ReadByte(b) PROVE SandboxInv'
  <2>1. /\ spc = "data" /\ spc' = "data" /\ UNCHANGED <<fs, disk, dirs, forced>>
        /\ file' = [file EXCEPT !.data = Append(@, b)]
    BY <1>12 DEF Scp!ReadByte
  <2>2. /\ DOMAIN file' = {"path", "size", "data"} /\ file'.path = file.path
        /\ Storable(file.path) /\ dirs \in Seq(Seq(STRING)) /\ dirs # <<>>
        /\ forced # <<>> => Storable(forced)
    BY <1>0, <2>1 DEF SinkPaths, NoPath
  <2>3. PlacesSound' /\ OutsideKept'
    BY <2>1, ScpUntouched
  <2> QED BY <1>1, <2>1, <2>2, <2>3 DEF SandboxInv, SinkPaths, NoPath, Storable, Is, Exists
<1>13. ASSUME NEW data, spc = "data", spc' \in {"line", "done"}, UNCHANGED <<dirs, forced>>,
              ~Scp!Is(fs, file.path, "dir"),
              fs' = Scp!Put(fs, file.path, Scp!File(Scp!Place(fs, disk, file.path))),
              disk' = Scp!Fill(disk, Scp!Place(fs, disk, file.path), data)
       PROVE  SandboxInv'
  <2>1. /\ InSandbox(file.path) /\ dirs \in Seq(Seq(STRING)) /\ dirs # <<>>
        /\ forced # <<>> => Storable(forced)
    BY <1>0, <1>2, <1>13 DEF SinkPaths, NoPath
  <2>2. PlacesSound' /\ OutsideKept'
    BY <1>0, <1>13, <2>1, ScpStored, SandboxStep DEF SandboxSteps, Scp!Is, Scp!Exists
  <2>3. forced # <<>> => Storable(forced)'
    BY <1>13, <2>1 DEF Storable, Is, Exists, Scp!Put, Scp!File
  <2> QED BY <1>1, <1>13, <2>1, <2>2, <2>3 DEF SandboxInv, SinkPaths, NoPath
<1>14. CASE Scp!StoreFile
  BY <1>13, <1>14 DEF Scp!StoreFile
<1>15. CASE Scp!StoreFails
  <2>1. PICK n \in 0..file.size :
            disk' = Scp!Fill(disk, Scp!Place(fs, disk, file.path), SubSeq(file.data, 1, n))
    BY <1>15 DEF Scp!StoreFails
  <2> QED BY <1>13, <1>15, <2>1 DEF Scp!StoreFails, Scp!Finish
<1> QED BY <1>3, <1>5, <1>6, <1>8, <1>9, <1>10, <1>11, <1>12, <1>14, <1>15 DEF Scp!ScpNext

-----------------------------------------------------------------------------
(* The sandbox.                                                            *)

LEMMA SandboxStart == Init => SandboxInv
<1> SUFFICES ASSUME Init PROVE SandboxInv
  OBVIOUS
<1>1. fs = Tree /\ disk = Disk /\ spc = "idle" /\ handles = <<>>
  BY DEF Init, Scp!ScpInit, Sftp!SftpInit
<1>2. DOMAIN disk = 1..Len(Disk) /\ Len(Disk) \in Nat
  BY <1>1, TreeAssumption
<1>3. ASSUME NEW p \in DOMAIN fs, UnderRoot(p), fs[p].kind = "file"
      PROVE  fs[p].at \notin OutsidePlaces
  BY <1>1, <1>3, TreeAssumption DEF OutsidePlaces, Is, Exists
<1>4. DOMAIN handles = {}
  BY <1>1
<1>5. PlacesSound
  BY <1>1, <1>2, <1>3, <1>4, TreeAssumption DEF PlacesSound
<1>6. OutsideKept
  BY <1>1, TreeAssumption DEF OutsideKept
<1> QED BY <1>1, <1>5, <1>6 DEF SandboxInv, SinkPaths

LEMMA SandboxMeaning == SandboxInv => SandboxHolds
<1> SUFFICES ASSUME SandboxInv PROVE SandboxHolds
  OBVIOUS
<1>1. Is(fs, Root, "dir")
  BY DEF SandboxInv, OutsideKept
<1>2. {q \in DOMAIN fs : ~UnderRoot(q)} = {q \in DOMAIN Tree : ~UnderRoot(q)}
  BY DEF SandboxInv, OutsideKept
<1>3. ASSUME NEW p \in DOMAIN Tree, ~UnderRoot(p)
      PROVE  /\ fs[p] = Tree[p]
             /\ Tree[p].kind = "file" => disk[Tree[p].at] = Disk[Tree[p].at]
  <2>1. p \in DOMAIN fs /\ fs[p] = Tree[p]
    BY <1>3 DEF SandboxInv, OutsideKept
  <2>2. Tree[p].kind = "file" => Tree[p].at \in OutsidePlaces
    BY <1>3 DEF OutsidePlaces, Is, Exists
  <2> QED BY <2>1, <2>2 DEF SandboxInv, OutsideKept
<1>4. Outside(fs, disk) = Outside(Tree, Disk)
  BY <1>2, <1>3 DEF Outside
<1>5. Sftp!NotOpen(OutsidePlaces)
  BY DEF Sftp!NotOpen, SandboxInv, PlacesSound
<1> QED BY <1>1, <1>4, <1>5 DEF SandboxHolds

\* The services require that nobody else changes the tree between their check
\* of a path and its use: of the two, at most one has been started.
OneService == ~(Started("scp") /\ Started("sftp"))

LEMMA SandboxKept ==
    ASSUME SandboxInv, OneService, [Next]_vars
    PROVE  SandboxInv'
<1>1. ASSUME UNCHANGED <<fs, disk, handles>>, spc' = "idle" PROVE SandboxInv'
  BY <1>1, ScpUntouched DEF SandboxInv, SinkPaths
<1>2. ASSUME UNCHANGED <<fs, disk, handles, spc, dirs, forced, file, service>> PROVE SandboxInv'
  <2>1. PlacesSound' /\ OutsideKept'
    BY <1>2, ScpUntouched
  <2> QED BY <1>2, <2>1 DEF SandboxInv, SinkPaths, Started, Storable, Is, Exists
<1>3. CASE HandlerStep
  BY <1>1, <1>3 DEF HandlerStep, scpVars, sftpVars
<1>4. CASE ScpStep
  BY <1>4, ScpSandbox DEF ScpStep, channelVars, sftpVars
<1>5. CASE SftpStep
  <2>1. /\ Started("sftp") /\ Sftp!SftpNext /\ spc' = spc
    BY <1>5 DEF SftpStep, scpVars
  <2>2. spc = "idle"
    BY <2>1 DEF SandboxInv, SinkPaths, OneService
  <2>3. PlacesSound' /\ OutsideKept'
    BY <2>1, SftpSandbox DEF SandboxInv
  <2> QED BY <2>1, <2>2, <2>3 DEF SandboxInv, SinkPaths
<1>6. CASE EchoStep(Echo!Next)
  BY <1>2, <1>6 DEF EchoStep, channelVars, scpVars, sftpVars
<1>7. CASE UNCHANGED vars
  BY <1>2, <1>7 DEF vars, channelVars, scpVars, sftpVars
<1> QED BY <1>3, <1>4, <1>5, <1>6, <1>7 DEF Next

\* serve_scp and SandboxedSftpSession: whatever a client uploads, removes,
\* renames or follows a link to, for every tree with its links, every set of
\* names and every sequence of requests, nothing outside the sandbox root is
\* changed or opened, as long as the two services do not work at once.
THEOREM ServicesSandbox == Spec /\ []OneService => []SandboxHolds
<1>1. SandboxInv /\ OneService /\ [Next]_vars => SandboxInv'
  BY SandboxKept
<1> QED BY <1>1, SandboxStart, SandboxMeaning, PTL DEF Spec

\* With one channel there is one service.
THEOREM ServicesSandboxOneChannel ==
    ASSUME NEW c, Chans = {c}
    PROVE  Spec => []SandboxHolds
<1>1. OneService
  BY DEF OneService, Started
<1> QED BY <1>1, ServicesSandbox, PTL

-----------------------------------------------------------------------------
(* Recursion over a sequence.  A set of numbers that has 0 and the         *)
(* successor of each of its members has them all; with sets, unlike with   *)
(* predicates, that is a lemma a proof can use.                            *)

LEMMA LeastNumber ==
    ASSUME NEW T, T \subseteq Nat, T # {}
    PROVE  \E x \in T : \A y \in T : ~(y < x)
<1> DEFINE R == OpToRel(<, Nat)
<1>1. IsWellFoundedOn(R, Nat)
  BY NatLessThanWellFounded
<1>2. PICK x \in T : \A y \in T : ~(<<y, x>> \in R)
  <2> HIDE DEF R
  <2> QED BY <1>1, WFMin
<1>3. ASSUME NEW y \in T, y < x PROVE <<y, x>> \in R
  BY <1>3 DEF OpToRel
<1> QED BY <1>2, <1>3

LEMMA SetInduction ==
    ASSUME NEW S, 0 \in S, \A n \in Nat : n \in S => n + 1 \in S
    PROVE  Nat \subseteq S
<1> DEFINE T == {n \in Nat : n \notin S}
<1>1. ASSUME T # {} PROVE FALSE
  <2>1. PICK x \in T : \A y \in T : ~(y < x)
    BY <1>1, LeastNumber
  <2>2. x # 0 /\ x - 1 \in Nat /\ x - 1 < x
    OBVIOUS
  <2>3. x - 1 \in S
    BY <2>1, <2>2
  <2> QED BY <2>2, <2>3
<1> QED BY <1>1

\* The recursive functions of ScpService and FixtureTree, by name, so that what
\* they have in common is proved once: the client's view, a walk along names,
\* the sorted listing and canonicalize.
Step(k, a, s, x) ==
    CASE k = "see"    -> Scp!SeeRecord(s, x)
      [] k = "walk"   -> Scp!Enter(Tree, s, x)
      [] k = "list"   -> IF x \in a THEN Append(s, x) ELSE s
      [] k = "follow" -> Scp!FollowLink(Tree, s)

\* The states of a scan of the first n items.
States(k, a, start, line, n, st) ==
    st = [i \in 0..n |-> IF i = 0 THEN start ELSE Step(k, a, st[i - 1], line[i])]

LEMMA StatesExist ==
    ASSUME NEW k, NEW a, NEW start, NEW line, NEW n \in Nat
    PROVE  \E st : States(k, a, start, line, n, st)
<1> DEFINE S == {m \in Nat : \E st : States(k, a, start, line, m, st)}
<1>1. 0 \in S
  <2> DEFINE st == [i \in 0..0 |-> start]
  <2>1. st = [i \in 0..0 |-> IF i = 0 THEN start ELSE Step(k, a, st[i - 1], line[i])]
    OBVIOUS
  <2>2. States(k, a, start, line, 0, st)
    BY <2>1, Zenon DEF States
  <2> QED BY <2>2
<1>2. ASSUME NEW m \in Nat, m \in S PROVE m + 1 \in S
  <2>1. PICK st : States(k, a, start, line, m, st)
    BY <1>2
  <2> DEFINE last == Step(k, a, st[m], line[m + 1])
             ext == [i \in 0..(m + 1) |-> IF i = m + 1 THEN last ELSE st[i]]
  <2>2. \A i \in 0..m : st[i] = IF i = 0 THEN start ELSE Step(k, a, st[i - 1], line[i])
    BY <2>1 DEF States
  <2>3. ASSUME NEW i \in 0..(m + 1)
        PROVE  ext[i] = IF i = 0 THEN start ELSE Step(k, a, ext[i - 1], line[i])
    <3>1. CASE i = m + 1
      BY <3>1
    <3>2. CASE i # m + 1
      <4>1. i \in 0..m /\ ext[i] = st[i] /\ (i # 0 => i - 1 \in 0..m /\ ext[i - 1] = st[i - 1])
        BY <3>2
      <4> HIDE DEF ext
      <4> QED BY <4>1, <2>2
    <3> QED BY <3>1, <3>2
  <2>4. ext = [i \in 0..(m + 1) |-> IF i = 0 THEN start ELSE Step(k, a, ext[i - 1], line[i])]
    BY <2>3
  <2>5. States(k, a, start, line, m + 1, ext)
    <3> HIDE DEF ext
    <3> QED BY <2>4 DEF States
  <2> QED BY <2>5
<1> HIDE DEF S
<1>3. Nat \subseteq S
  BY <1>1, <1>2, SetInduction
<1> QED BY <1>3 DEF S

\* Scans of two lines agree as long as the lines do.
LEMMA StatesAgree ==
    ASSUME NEW k, NEW a, NEW start, NEW one, NEW other, NEW m \in Nat, NEW n \in Nat, m <= n,
           NEW st, States(k, a, start, one, m, st), NEW su, States(k, a, start, other, n, su),
           \A i \in 1..m : one[i] = other[i]
    PROVE  st[m] = su[m]
<1> DEFINE S == {i \in Nat : i <= m => st[i] = su[i]}
<1>1. /\ \A i \in 0..m : st[i] = IF i = 0 THEN start ELSE Step(k, a, st[i - 1], one[i])
      /\ \A i \in 0..n : su[i] = IF i = 0 THEN start ELSE Step(k, a, su[i - 1], other[i])
  BY DEF States
<1>2. 0 \in S
  BY <1>1
<1>3. ASSUME NEW i \in Nat, i \in S PROVE i + 1 \in S
  <2>1. CASE i + 1 <= m
    <3>1. i + 1 \in 0..m /\ i + 1 \in 0..n /\ i + 1 \in 1..m /\ i + 1 # 0 /\ (i + 1) - 1 = i
      BY <2>1
    <3>2. st[i] = su[i]
      BY <1>3, <2>1
    <3> QED BY <3>1, <3>2, <1>1
  <2>2. CASE ~(i + 1 <= m)
    BY <2>2
  <2> QED BY <2>1, <2>2
<1> HIDE DEF S
<1>4. Nat \subseteq S
  BY <1>2, <1>3, SetInduction
<1> QED BY <1>4 DEF S

\* One item more is one step more.
LEMMA StatesAppend ==
    ASSUME NEW k, NEW a, NEW start, NEW A, NEW line \in Seq(A), NEW x \in A,
           NEW st, States(k, a, start, line, Len(line), st),
           NEW su, States(k, a, start, Append(line, x), Len(Append(line, x)), su)
    PROVE  su[Len(Append(line, x))] = Step(k, a, st[Len(line)], x)
<1>1. PICK m, longer : m = Len(line) /\ longer = Append(line, x)
  OBVIOUS
<1>2. /\ m \in Nat /\ Len(longer) = m + 1 /\ longer[m + 1] = x
      /\ \A i \in 1..m : line[i] = longer[i]
  BY <1>1, AppendProperties
<1>3. m + 1 \in Nat /\ m <= m + 1 /\ m + 1 \in 0..(m + 1) /\ m + 1 # 0 /\ (m + 1) - 1 = m
  BY <1>2
<1>4. States(k, a, start, line, m, st) /\ States(k, a, start, longer, m + 1, su)
  BY <1>1, <1>2
<1>5. st[m] = su[m]
  BY <1>2, <1>3, <1>4, StatesAgree
<1>6. su[m + 1] = Step(k, a, su[m], longer[m + 1])
  BY <1>3, <1>4 DEF States
<1> QED BY <1>1, <1>2, <1>5, <1>6


LEMMA SeenStates ==
    ASSUME NEW records, Len(records) \in Nat
    PROVE  \E st : /\ States("see", 0, Scp!NothingSeen, records, Len(records), st)
                   /\ Scp!Seen(records) = st[Len(records)]
<1> DEFINE P(st) == st = [i \in 0..Len(records) |-> IF i = 0 THEN Scp!NothingSeen
                                                ELSE Scp!SeeRecord(st[i - 1], records[i])]
<1>1. \A st : States("see", 0, Scp!NothingSeen, records, Len(records), st) <=> P(st)
  BY DEF States, Step
<1>2. \E st : P(st)
  BY <1>1, StatesExist, Zenon
<1>3. P(CHOOSE st : P(st))
  <2> HIDE DEF P
  <2> QED BY <1>2, Zenon
<1>4. Scp!Seen(records) = (CHOOSE st : P(st))[Len(records)]
  BY Zenon DEF Scp!Seen
<1> HIDE DEF P
<1> QED BY <1>1, <1>3, <1>4, Zenon

LEMMA WalkStates ==
    ASSUME NEW p, NEW names, Len(names) \in Nat
    PROVE  \E st : /\ States("walk", 0, p, names, Len(names), st)
                   /\ Scp!Walk(Tree, p, names) = st[Len(names)]
<1> DEFINE P(st) == st = [i \in 0..Len(names) |-> IF i = 0 THEN p
                                                ELSE Scp!Enter(Tree, st[i - 1], names[i])]
<1>1. \A st : States("walk", 0, p, names, Len(names), st) <=> P(st)
  BY DEF States, Step
<1>2. \E st : P(st)
  BY <1>1, StatesExist, Zenon
<1>3. P(CHOOSE st : P(st))
  <2> HIDE DEF P
  <2> QED BY <1>2, Zenon
<1>4. Scp!Walk(Tree, p, names) = (CHOOSE st : P(st))[Len(names)]
  BY Zenon DEF Scp!Walk
<1> HIDE DEF P
<1> QED BY <1>1, <1>3, <1>4, Zenon

LEMMA ListedStates ==
    ASSUME NEW names, Len(Entries) \in Nat
    PROVE  \E st : /\ States("list", names, <<>>, Entries, Len(Entries), st)
                   /\ Scp!Listed(names) = st[Len(Entries)]
<1> DEFINE P(st) == st = [i \in 0..Len(Entries) |-> IF i = 0 THEN <<>>
                                                ELSE IF Entries[i] \in names
                                                THEN Append(st[i - 1], Entries[i])
                                                ELSE st[i - 1]]
<1>1. \A st : States("list", names, <<>>, Entries, Len(Entries), st) <=> P(st)
  BY DEF States, Step
<1>2. \E st : P(st)
  BY <1>1, StatesExist, Zenon
<1>3. P(CHOOSE st : P(st))
  <2> HIDE DEF P
  <2> QED BY <1>2, Zenon
<1>4. Scp!Listed(names) = (CHOOSE st : P(st))[Len(Entries)]
  BY Zenon DEF Scp!Listed
<1> HIDE DEF P
<1> QED BY <1>1, <1>3, <1>4, Zenon

\* What a client makes of one more record.
LEMMA SeenNext ==
    ASSUME NEW S, NEW records \in Seq(S), NEW r \in S
    PROVE  /\ Scp!Seen(<<>>) = Scp!NothingSeen
           /\ Scp!Seen(Append(records, r)) = Scp!SeeRecord(Scp!Seen(records), r)
<1>1. Len(records) \in Nat /\ Len(<<>>) = 0 /\ Len(Append(records, r)) \in Nat
  BY AppendProperties
<1>2. PICK st : /\ States("see", 0, Scp!NothingSeen, records, Len(records), st)
                /\ Scp!Seen(records) = st[Len(records)]
  BY <1>1, SeenStates
<1>3. PICK su : /\ States("see", 0, Scp!NothingSeen, Append(records, r),
                          Len(Append(records, r)), su)
                /\ Scp!Seen(Append(records, r)) = su[Len(Append(records, r))]
  BY <1>1, SeenStates
<1>4. Scp!Seen(Append(records, r)) = Step("see", 0, Scp!Seen(records), r)
  BY <1>2, <1>3, StatesAppend
<1>5. PICK sv : /\ States("see", 0, Scp!NothingSeen, <<>>, Len(<<>>), sv)
                /\ Scp!Seen(<<>>) = sv[Len(<<>>)]
  BY <1>1, SeenStates
<1>6. Scp!Seen(<<>>) = Scp!NothingSeen
  BY <1>1, <1>5 DEF States
<1> QED BY <1>4, <1>6 DEF Step

\* A walk is over where it starts, goes nowhere from nowhere, and takes its
\* first step first.
LEMMA WalkNone == ASSUME NEW p PROVE Scp!Walk(Tree, p, <<>>) = p
<1>1. PICK st : /\ States("walk", 0, p, <<>>, Len(<<>>), st)
                /\ Scp!Walk(Tree, p, <<>>) = st[Len(<<>>)]
  BY WalkStates
<1> QED BY <1>1 DEF States

LEMMA WalkNowhere ==
    ASSUME NEW S, NEW names \in Seq(S)
    PROVE  Scp!Walk(Tree, Scp!NoPath, names) = Scp!NoPath
<1>1. PICK n : n = Len(names) /\ n \in Nat
  OBVIOUS
<1>2. PICK st : /\ States("walk", 0, Scp!NoPath, names, n, st)
                /\ Scp!Walk(Tree, Scp!NoPath, names) = st[n]
  BY <1>1, WalkStates
<1>3. \A i \in 0..n : st[i] = IF i = 0 THEN Scp!NoPath ELSE Scp!Enter(Tree, st[i - 1], names[i])
  BY <1>2 DEF States, Step
<1> DEFINE S0 == {i \in Nat : i <= n => st[i] = Scp!NoPath}
<1>4. 0 \in S0
  BY <1>1, <1>3
<1>5. ASSUME NEW i \in Nat, i \in S0 PROVE i + 1 \in S0
  <2>1. CASE i + 1 <= n
    <3>1. i + 1 \in 0..n /\ i + 1 # 0 /\ (i + 1) - 1 = i /\ st[i] = Scp!NoPath
      BY <1>1, <1>5, <2>1
    <3> QED BY <1>3, <3>1 DEF Scp!Enter
  <2>2. CASE ~(i + 1 <= n)
    BY <2>2
  <2> QED BY <2>1, <2>2
<1> HIDE DEF S0
<1>6. Nat \subseteq S0
  BY <1>4, <1>5, SetInduction
<1> QED BY <1>1, <1>2, <1>6 DEF S0

LEMMA WalkFirst ==
    ASSUME NEW S, NEW p, NEW q, NEW x \in S, NEW names \in Seq(S), q = Scp!Enter(Tree, p, x)
    PROVE  Scp!Walk(Tree, p, <<x>> \o names) = Scp!Walk(Tree, q, names)
<1>1. PICK n, all : n = Len(names) /\ all = <<x>> \o names
  OBVIOUS
<1>2. n \in Nat /\ Len(all) = n + 1 /\ all[1] = x /\ \A i \in 1..n : all[i + 1] = names[i]
  <2>1. <<x>> \in Seq(S) /\ Len(<<x>>) = 1 /\ <<x>>[1] = x
    OBVIOUS
  <2>2. n \in Nat /\ Len(all) = n + 1
    BY <1>1, <2>1, ConcatProperties
  <2>3. \A i \in 1..(Len(<<x>>) + Len(names)) :
            all[i] = IF i <= Len(<<x>>) THEN <<x>>[i] ELSE names[i - Len(<<x>>)]
    BY <1>1, <2>1, ConcatProperties
  <2>4. \A i \in 1..(n + 1) : all[i] = IF i <= 1 THEN x ELSE names[i - 1]
    <3> SUFFICES ASSUME NEW i \in 1..(n + 1) PROVE all[i] = IF i <= 1 THEN x ELSE names[i - 1]
      OBVIOUS
    <3>1. i \in 1..(Len(<<x>>) + Len(names)) /\ (i <= 1 => i = 1)
      BY <1>1, <2>1, <2>2
    <3> QED BY <2>1, <2>3, <3>1
  <2>5. \A i \in 1..n : i + 1 \in 1..(n + 1) /\ ~(i + 1 <= 1) /\ (i + 1) - 1 = i
    BY <2>2
  <2> QED BY <2>2, <2>4, <2>5
<1>3. PICK st : States("walk", 0, p, all, n + 1, st) /\ Scp!Walk(Tree, p, all) = st[n + 1]
  BY <1>2, WalkStates
<1>4. PICK su : States("walk", 0, q, names, n, su) /\ Scp!Walk(Tree, q, names) = su[n]
  BY <1>1, <1>2, WalkStates
<1>5. \A i \in 0..(n + 1) : st[i] = IF i = 0 THEN p ELSE Scp!Enter(Tree, st[i - 1], all[i])
  BY <1>3 DEF States, Step
<1>6. \A i \in 0..n : su[i] = IF i = 0 THEN q ELSE Scp!Enter(Tree, su[i - 1], names[i])
  BY <1>4 DEF States, Step
<1> DEFINE S0 == {i \in Nat : i <= n => st[i + 1] = su[i]}
<1>7. 0 \in S0
  <2>1. 0 \in 0..(n + 1) /\ 1 \in 0..(n + 1) /\ 1 # 0 /\ 1 - 1 = 0 /\ 0 \in 0..n
    BY <1>2
  <2>2. st[0] = p /\ st[1] = Scp!Enter(Tree, st[0], all[1]) /\ su[0] = q
    BY <1>5, <1>6, <2>1
  <2>3. st[0 + 1] = su[0]
    BY <1>2, <2>2
  <2> QED BY <2>3
<1>8. ASSUME NEW i \in Nat, i \in S0 PROVE i + 1 \in S0
  <2>1. CASE i + 1 <= n
    <3>1. /\ (i + 1) + 1 \in 0..(n + 1) /\ (i + 1) + 1 # 0 /\ ((i + 1) + 1) - 1 = i + 1
          /\ i + 1 \in 0..n /\ i + 1 # 0 /\ (i + 1) - 1 = i /\ i + 1 \in 1..n
      BY <1>2, <2>1
    <3>2. st[i + 1] = su[i]
      BY <1>2, <1>8, <2>1
    <3>3. st[(i + 1) + 1] = Scp!Enter(Tree, st[i + 1], all[(i + 1) + 1])
      BY <1>5, <3>1
    <3>4. su[i + 1] = Scp!Enter(Tree, su[i], names[i + 1])
      BY <1>6, <3>1
    <3>5. st[(i + 1) + 1] = su[i + 1]
      BY <1>2, <3>1, <3>2, <3>3, <3>4
    <3> QED BY <3>5
  <2>2. CASE ~(i + 1 <= n)
    BY <2>2
  <2> QED BY <2>1, <2>2
<1>9. Nat \subseteq S0
  <2> HIDE DEF S0
  <2> QED BY <1>7, <1>8, SetInduction
<1>10. st[n + 1] = su[n]
  BY <1>2, <1>9
<1> QED BY <1>1, <1>3, <1>4, <1>10

LEMMA PathAppended ==
    ASSUME NEW p \in Seq(STRING), NEW x \in STRING
    PROVE  /\ Append(p, x) \in Seq(STRING) /\ Len(Append(p, x)) = Len(p) + 1 /\ Len(p) \in Nat
           /\ Append(p, x)[Len(p) + 1] = x /\ \A i \in 1..Len(p) : Append(p, x)[i] = p[i]
<1>1. Len(p) \in Nat
  BY LenProperties
<1>2. Append(p, x) \in Seq(STRING) /\ Len(Append(p, x)) = Len(p) + 1
  BY AppendProperties
<1>3. Append(p, x)[Len(p) + 1] = x
  BY AppendProperties
<1>4. \A i \in 1..Len(p) : Append(p, x)[i] = p[i]
  BY AppendProperties
<1> QED BY <1>1, <1>2, <1>3, <1>4

\* The listing has the names it is asked for, and no others.
LEMMA ListedNames ==
    ASSUME NEW names
    PROVE  /\ Scp!Listed(names) \in Seq(STRING)
           /\ \A x : (\E i \in DOMAIN Scp!Listed(names) : Scp!Listed(names)[i] = x) <=>
                        x \in names /\ \E i \in DOMAIN Entries : Entries[i] = x
<1>1. PICK n : n = Len(Entries)
  OBVIOUS
<1>2. n \in Nat /\ DOMAIN Entries = 1..n /\ \A i \in 1..n : Entries[i] \in STRING
  BY <1>1, EntriesAssumption
<1>3. PICK st : States("list", names, <<>>, Entries, n, st) /\ Scp!Listed(names) = st[n]
  BY <1>1, <1>2, ListedStates
<1>4. \A i \in 0..n : st[i] = IF i = 0 THEN <<>>
                              ELSE IF Entries[i] \in names THEN Append(st[i - 1], Entries[i])
                                   ELSE st[i - 1]
  BY <1>3 DEF States, Step
<1> DEFINE Holds(s, m) ==
              /\ s \in Seq(STRING)
              /\ \A x : (\E i \in DOMAIN s : s[i] = x) <=>
                            x \in names /\ \E i \in 1..m : Entries[i] = x
           S0 == {m \in Nat : m <= n => Holds(st[m], m)}
<1>5. 0 \in S0
  <2>1. st[0] = <<>>
    <3>1. 0 \in 0..n
      BY <1>2
    <3> QED BY ONLY <1>4, <3>1
  <2>2. Holds(<<>>, 0)
    <3>1. <<>> \in Seq(STRING)
      OBVIOUS
    <3>2. DOMAIN <<>> = {} /\ 1..0 = {}
      OBVIOUS
    <3> QED BY <3>1, <3>2
  <2> QED BY <2>1, <2>2
<1>6. ASSUME NEW m \in Nat, m \in S0 PROVE m + 1 \in S0
  <2>1. CASE m + 1 <= n
    <3>1. m + 1 \in 0..n /\ m + 1 # 0 /\ (m + 1) - 1 = m /\ m + 1 \in 1..n
      BY <1>2, <2>1
    <3>2. Holds(st[m], m)
      BY <1>2, <1>6, <2>1
    <3>3. PICK s, t, y : s = st[m] /\ t = st[m + 1] /\ y = Entries[m + 1]
      OBVIOUS
    <3>4. s \in Seq(STRING) /\ y \in STRING
      BY <1>2, <3>1, <3>2, <3>3
    <3>5. t = IF y \in names THEN Append(s, y) ELSE s
      BY <1>4, <3>1, <3>3
    <3>6. \A x : (\E i \in 1..(m + 1) : Entries[i] = x)
                    <=> (\E i \in 1..m : Entries[i] = x) \/ x = y
      <4>1. \A i \in 1..(m + 1) : i \in 1..m \/ i = m + 1
        OBVIOUS
      <4>2. (\A i \in 1..m : i \in 1..(m + 1)) /\ m + 1 \in 1..(m + 1)
        OBVIOUS
      <4> QED BY <3>3, <4>1, <4>2
    <3>7. CASE y \notin names
      <4>1. t = s /\ \A x : x \in names => x # y
        BY <3>5, <3>7
      <4>2. Holds(t, m + 1)
        BY <3>2, <3>3, <3>6, <4>1
      <4> QED BY <3>3, <4>2
    <3>8. CASE y \in names
      <4>0. t = Append(s, y)
        BY <3>5, <3>8
      <4>1. /\ t \in Seq(STRING) /\ Len(t) = Len(s) + 1 /\ Len(s) \in Nat
            /\ \A i \in 1..Len(s) : t[i] = s[i]
        BY ONLY <3>4, <4>0, PathAppended
      <4>2. t[Len(s) + 1] = y
        BY ONLY <3>4, <4>0, PathAppended
      <4>3. DOMAIN s = 1..Len(s) /\ DOMAIN t = 1..(Len(s) + 1)
        BY <3>4, <4>1, LenProperties
      <4>4. \A i \in 1..(Len(s) + 1) : i \in 1..Len(s) \/ i = Len(s) + 1
        BY <4>1
      <4>5. (\A i \in 1..Len(s) : i \in 1..(Len(s) + 1)) /\ Len(s) + 1 \in 1..(Len(s) + 1)
        BY <4>1
      <4>6. \A x : (\E i \in DOMAIN t : t[i] = x) <=> (\E i \in DOMAIN s : s[i] = x) \/ x = y
        BY <4>1, <4>2, <4>3, <4>4, <4>5
      <4>7. Holds(t, m + 1)
        BY <3>2, <3>3, <3>6, <3>8, <4>1, <4>6
      <4> QED BY <3>3, <4>7
    <3> QED BY <3>7, <3>8
  <2>2. CASE ~(m + 1 <= n)
    BY <2>2
  <2> QED BY <2>1, <2>2
<1>7. Nat \subseteq S0
  <2> HIDE DEF S0
  <2> QED BY <1>5, <1>6, SetInduction
<1>8. Holds(st[n], n)
  <2> HIDE DEF Holds
  <2>1. n \in S0 /\ n <= n
    <3> HIDE DEF S0
    <3> QED BY <1>2, <1>7
  <2> QED BY <2>1
<1> QED BY <1>2, <1>3, <1>8

\* canonicalize, as the states it passes through.
LEMMA CanonicalStates ==
    ASSUME NEW p
    PROVE  \E st : /\ States("follow", 0, p, <<>>, MaxLinks, st)
                   /\ Scp!Canonical(Tree, p) =
                        IF Scp!Exists(Tree, st[MaxLinks]) /\ ~Scp!Is(Tree, st[MaxLinks], "link")
                        THEN st[MaxLinks] ELSE Scp!NoPath
<1> DEFINE P(st) == st = [n \in 0..MaxLinks |-> IF n = 0 THEN p
                                                ELSE Scp!FollowLink(Tree, st[n - 1])]
<1>1. \A st : States("follow", 0, p, <<>>, MaxLinks, st) <=> P(st)
  BY DEF States, Step
<1>2. \E st : P(st)
  <2>1. \E st : States("follow", 0, p, <<>>, MaxLinks, st)
    BY EntriesAssumption, StatesExist
  <2> QED BY <1>1, <2>1
<1>3. P(CHOOSE st : P(st))
  <2> HIDE DEF P
  <2> QED BY <1>2, Zenon
<1>4. Scp!Canonical(Tree, p) =
        IF Scp!Exists(Tree, (CHOOSE st : P(st))[MaxLinks])
           /\ ~Scp!Is(Tree, (CHOOSE st : P(st))[MaxLinks], "link")
        THEN (CHOOSE st : P(st))[MaxLinks] ELSE Scp!NoPath
  BY Zenon DEF Scp!Canonical
<1> HIDE DEF P
<1> QED BY <1>1, <1>3, <1>4, Zenon

LEMMA PathTop ==
    ASSUME NEW p \in Seq(STRING), NEW x \in STRING
    PROVE  /\ Append(p, x) \in Seq(STRING) /\ Append(p, x) # <<>>
           /\ DOMAIN Append(p, x) = 1..(Len(p) + 1) /\ Len(p) \in Nat
           /\ SubSeq(Append(p, x), 1, Len(p) + 1) = Append(p, x)
           /\ SubSeq(p, 1, Len(p)) = p
           /\ \A i \in 1..Len(p) : SubSeq(Append(p, x), 1, i) = SubSeq(p, 1, i)
<1>1. PICK n, q : n = Len(p) /\ q = Append(p, x)
  OBVIOUS
<1>2. /\ q \in Seq(STRING) /\ q # <<>> /\ n \in Nat /\ Len(q) = n + 1 /\ DOMAIN q = 1..(n + 1)
      /\ \A i \in 1..n : q[i] = p[i]
  <2>1. /\ q \in Seq(STRING) /\ n \in Nat /\ Len(q) = n + 1
        /\ \A i \in 1..n : q[i] = p[i]
    BY <1>1, PathAppended
  <2>2. DOMAIN q = 1..(n + 1) /\ Len(<<>>) = 0 /\ n + 1 # 0
    BY <2>1, LenProperties
  <2> QED BY <2>1, <2>2
<1>3. SubSeq(q, 1, n + 1) = q
  BY <1>2, SubSeqFull
<1>4. SubSeq(p, 1, n) = p
  BY <1>1, <1>2, SubSeqFull
<1>5. ASSUME NEW i \in 1..n PROVE SubSeq(q, 1, i) = SubSeq(p, 1, i)
  <2>1. /\ \A j \in 1..i : j \in 1..n
        /\ \A j \in 1..i : j \in 1..Len(q) /\ j \in 1..Len(p)
    BY <1>1, <1>2, <1>5
  <2>2. PICK a, b : a = SubSeq(q, 1, i) /\ b = SubSeq(p, 1, i)
    OBVIOUS
  <2>3. a \in Seq(STRING) /\ Len(a) = i /\ \A j \in 1..i : a[j] = q[j]
    BY <1>2, <1>5, <2>1, <2>2
  <2>4. b \in Seq(STRING) /\ Len(b) = i /\ \A j \in 1..i : b[j] = p[j]
    BY <1>1, <1>5, <2>1, <2>2
  <2> QED BY <1>2, <2>1, <2>2, <2>3, <2>4, SeqEqual
<1> QED BY <1>1, <1>2, <1>3, <1>4, <1>5

\* What is not in the tree and not behind a link has no canonical path.
LEMMA AbsentPath ==
    ASSUME NEW p \in DOMAIN Tree, Tree[p].kind # "link", NEW x \in STRING,
           Append(p, x) \notin DOMAIN Tree
    PROVE  Scp!Canonical(Tree, Append(p, x)) = Scp!NoPath
<1>1. PICK n, q : n = Len(p) /\ q = Append(p, x)
  OBVIOUS
<1>2. p \in Seq(STRING) /\ q \notin DOMAIN Tree
  BY <1>1, TreeAssumption
<1>3. /\ DOMAIN q = 1..(n + 1) /\ n \in Nat /\ SubSeq(q, 1, n + 1) = q /\ SubSeq(p, 1, n) = p
      /\ \A i \in 1..n : SubSeq(q, 1, i) = SubSeq(p, 1, i)
  BY <1>1, <1>2, PathTop
<1>4. ASSUME NEW i \in DOMAIN q PROVE ~Scp!Is(Tree, SubSeq(q, 1, i), "link")
  <2>1. CASE i = n + 1
    BY <1>2, <1>3, <2>1 DEF Scp!Is, Scp!Exists
  <2>2. CASE i = n
    <3>1. n \in 1..n
      BY <1>3, <1>4, <2>2
    <3>2. SubSeq(q, 1, i) = p
      BY <1>3, <2>2, <3>1
    <3> QED BY <3>2 DEF Scp!Is, Scp!Exists
  <2>3. CASE i \in 1..(n - 1)
    <3>1. Is(Tree, SubSeq(p, 1, i), "dir")
      BY <1>1, <2>3, DirectoriesAssumption
    <3>2. SubSeq(q, 1, i) = SubSeq(p, 1, i)
      BY <1>3, <2>3
    <3> QED BY <3>1, <3>2 DEF Is, Exists, Scp!Is, Scp!Exists
  <2>4. i = n + 1 \/ i = n \/ i \in 1..(n - 1)
    BY <1>3, <1>4
  <2> QED BY <2>1, <2>2, <2>3, <2>4
<1>5. Scp!FollowLink(Tree, q) = q
  BY <1>4 DEF Scp!FollowLink
<1>6. PICK st : /\ States("follow", 0, q, <<>>, MaxLinks, st)
                /\ Scp!Canonical(Tree, q) =
                        IF Scp!Exists(Tree, st[MaxLinks]) /\ ~Scp!Is(Tree, st[MaxLinks], "link")
                        THEN st[MaxLinks] ELSE Scp!NoPath
  BY CanonicalStates
<1>7. \A i \in 0..MaxLinks : st[i] = IF i = 0 THEN q ELSE Scp!FollowLink(Tree, st[i - 1])
  BY <1>6 DEF States, Step
<1> DEFINE S0 == {i \in Nat : i <= MaxLinks => st[i] = q}
<1>8. 0 \in S0
  BY <1>7, EntriesAssumption
<1>9. ASSUME NEW i \in Nat, i \in S0 PROVE i + 1 \in S0
  <2>1. CASE i + 1 <= MaxLinks
    <3>1. i + 1 \in 0..MaxLinks /\ i + 1 # 0 /\ (i + 1) - 1 = i /\ st[i] = q
      BY <1>9, <2>1, EntriesAssumption
    <3> QED BY <1>5, <1>7, <3>1
  <2>2. CASE ~(i + 1 <= MaxLinks)
    BY <2>2
  <2> QED BY <2>1, <2>2
<1>10. Nat \subseteq S0
  <2> HIDE DEF S0
  <2> QED BY <1>8, <1>9, SetInduction
<1>11. st[MaxLinks] = q
  BY <1>10, EntriesAssumption
<1> QED BY <1>1, <1>2, <1>6, <1>11 DEF Scp!Exists

LEMMA NamesIn ==
    ASSUME NEW p \in Seq(STRING), NEW x \in STRING
    PROVE  x \in Scp!Names(Tree, p) <=> Append(p, x) \in DOMAIN Tree
<1>1. ASSUME Append(p, x) \in DOMAIN Tree PROVE x \in Scp!Names(Tree, p)
  <2>1. PICK q : q = Append(p, x)
    OBVIOUS
  <2>2. q # <<>> /\ Len(q) = Len(p) + 1 /\ q[Len(p) + 1] = x /\ Len(p) \in Nat
    BY <2>1, PathTop, PathAppended
  <2>3. SubSeq(q, 1, Len(p)) = p
    <3>1. CASE Len(p) = 0
      <4>1. p = <<>> /\ SubSeq(q, 1, 0) = <<>>
        BY <3>1, EmptySeq
      <4> QED BY <3>1, <4>1
    <3>2. CASE Len(p) # 0
      <4>1. Len(p) \in 1..Len(p)
        BY <2>2, <3>2
      <4> QED BY <2>1, <4>1, PathTop
    <3> QED BY <3>1, <3>2
  <2>4. Scp!Last(q) = x /\ Scp!Front(q) = p
    BY <2>2, <2>3 DEF Scp!Last, Scp!Front
  <2> QED BY <1>1, <2>1, <2>2, <2>4 DEF Scp!Names
<1>2. ASSUME x \in Scp!Names(Tree, p) PROVE Append(p, x) \in DOMAIN Tree
  <2>1. PICK q \in DOMAIN Tree : q # <<>> /\ Scp!Front(q) = p /\ Scp!Last(q) = x
    BY <1>2 DEF Scp!Names
  <2>2. PICK n : n = Len(q) - 1
    OBVIOUS
  <2>3. q \in Seq(STRING) /\ n \in Nat /\ Len(q) = n + 1
    BY <2>1, <2>2, TreeAssumption, EmptySeq
  <2>4. SubSeq(q, 1, n) = p /\ q[n + 1] = x
    BY <2>1, <2>2, <2>3 DEF Scp!Front, Scp!Last
  <2>5. Len(p) = n /\ \A j \in 1..n : p[j] = q[j]
    BY <2>3, <2>4
  <2>6. PICK r : r = Append(p, x)
    OBVIOUS
  <2>7. r \in Seq(STRING) /\ Len(r) = n + 1 /\ r[n + 1] = x /\ \A j \in 1..n : r[j] = p[j]
    <3>1. /\ r \in Seq(STRING) /\ Len(r) = Len(p) + 1 /\ r[Len(p) + 1] = x
          /\ \A j \in 1..Len(p) : r[j] = p[j]
      BY ONLY <2>6, p \in Seq(STRING), x \in STRING, PathAppended
    <3> QED BY <2>5, <3>1
  <2>8. \A j \in 1..(n + 1) : j \in 1..n \/ j = n + 1
    BY <2>3
  <2>9. r = q
    BY <2>3, <2>4, <2>5, <2>7, <2>8, SeqEqual
  <2> QED BY <2>1, <2>6, <2>9
<1> QED BY <1>1, <1>2

\* The names that entries have.
Known == Scp!Range(Entries)

LEMMA KnownNames ==
    /\ Known \subseteq STRING
    /\ \A x : x \in Known <=> \E i \in DOMAIN Entries : Entries[i] = x
<1>1. \A i \in DOMAIN Entries : Entries[i] \in STRING
  BY EntriesAssumption
<1> QED BY <1>1 DEF Known, Scp!Range

LEMMA LeadingIs ==
    ASSUME NEW p, NEW n \in Int, NEW names
    PROVE  names \in Scp!Leading(Tree, p, n) <=>
                /\ names \in Seq(Known) /\ Len(names) <= n
                /\ Scp!Is(Tree, Scp!Walk(Tree, p, names), "file")
<1> DEFINE Short == UNION {[1..k -> Known] : k \in 0..n}
<1>1. ASSUME names \in Short PROVE names \in Seq(Known) /\ Len(names) <= n
  <2>1. PICK k \in 0..n : names \in [1..k -> Known]
    BY <1>1
  <2> QED BY <2>1
<1>2. ASSUME names \in Seq(Known), Len(names) <= n PROVE names \in Short
  <2>1. PICK k : k = Len(names)
    OBVIOUS
  <2>2. k \in 0..n /\ names \in [1..k -> Known]
    BY <1>2, <2>1, LenProperties
  <2> QED BY <2>2
<1>3. names \in Scp!Leading(Tree, p, n) <=>
        names \in Short /\ Scp!Is(Tree, Scp!Walk(Tree, p, names), "file")
  BY DEF Scp!Leading, Known
<1> HIDE DEF Short
<1> QED BY <1>1, <1>2, <1>3

\* The first name of several.
LEMMA FirstName ==
    ASSUME NEW names \in Seq(Known), names # <<>>
    PROVE  \E x \in Known, rest \in Seq(Known) :
                names = <<x>> \o rest /\ Len(names) = Len(rest) + 1
<1>1. PICK x, rest, n : x = Head(names) /\ rest = Tail(names) /\ n = Len(rest)
  OBVIOUS
<1>2. /\ x \in Known /\ rest \in Seq(Known) /\ n \in Nat /\ Len(names) = n + 1
      /\ \A i \in 1..n : rest[i] = names[i + 1]
  BY <1>1, HeadTailProperties, LenProperties
<1>3. x = names[1]
  BY <1>1
<1>4. PICK all : all = <<x>> \o rest
  OBVIOUS
<1>5. /\ all \in Seq(Known) /\ Len(all) = n + 1
      /\ \A i \in 1..(n + 1) : all[i] = IF i <= 1 THEN x ELSE rest[i - 1]
  <2>1. <<x>> \in Seq(Known) /\ Len(<<x>>) = 1 /\ <<x>>[1] = x
    BY <1>2
  <2>2. all \in Seq(Known) /\ Len(all) = n + 1
    BY <1>1, <1>2, <1>4, <2>1, ConcatProperties
  <2>3. \A i \in 1..(Len(<<x>>) + Len(rest)) :
            all[i] = IF i <= Len(<<x>>) THEN <<x>>[i] ELSE rest[i - Len(<<x>>)]
    BY <1>2, <1>4, <2>1, ConcatProperties
  <2>4. ASSUME NEW i \in 1..(n + 1) PROVE all[i] = IF i <= 1 THEN x ELSE rest[i - 1]
    <3>1. i \in 1..(Len(<<x>>) + Len(rest)) /\ (i <= 1 => i = 1)
      BY <1>1, <1>2, <2>1, <2>4
    <3> QED BY <2>1, <2>3, <3>1
  <2> QED BY <2>2, <2>4
<1>6. ASSUME NEW i \in 1..(n + 1) PROVE all[i] = names[i]
  <2>1. CASE i = 1
    BY <1>2, <1>3, <1>5, <2>1
  <2>2. CASE i # 1
    <3>1. i - 1 \in 1..n /\ ~(i <= 1) /\ (i - 1) + 1 = i
      BY <1>2, <1>6, <2>2
    <3> QED BY <1>2, <1>5, <3>1
  <2> QED BY <2>1, <2>2
<1>7. all = names
  BY <1>2, <1>5, <1>6, SeqEqual
<1> QED BY <1>1, <1>2, <1>4, <1>7

LEMMA MoreNames ==
    ASSUME NEW x \in Known, NEW rest \in Seq(Known)
    PROVE  /\ <<x>> \o rest \in Seq(Known) /\ Len(<<x>> \o rest) = Len(rest) + 1
           /\ Len(rest) \in Nat
<1>1. <<x>> \in Seq(Known) /\ Len(<<x>>) = 1 /\ Len(rest) \in Nat
  BY LenProperties
<1> QED BY <1>1, ConcatProperties

\* A name in a path that is in the tree: what it leads to.
LEMMA EnterIs ==
    ASSUME NEW p \in DOMAIN Tree, Tree[p].kind # "link", NEW x \in Known
    PROVE  /\ Scp!Enter(Tree, p, x) = Scp!Canonical(Tree, Append(p, x))
           /\ x \notin Scp!Names(Tree, p) => Scp!Canonical(Tree, Append(p, x)) = Scp!NoPath
<1>1. p # Scp!NoPath /\ p \in Seq(STRING) /\ x \in STRING
  BY DirectoriesAssumption, TreeAssumption, KnownNames DEF NoPath, Scp!NoPath
<1>2. x \notin Scp!Names(Tree, p) => Append(p, x) \notin DOMAIN Tree
  BY <1>1, NamesIn
<1> QED BY <1>1, <1>2, AbsentPath DEF Scp!Enter

LEMMA NowhereNoFile == ASSUME NEW names \in Seq(Known)
    PROVE ~Scp!Is(Tree, Scp!Walk(Tree, Scp!NoPath, names), "file")
<1>1. Scp!Walk(Tree, Scp!NoPath, names) = Scp!NoPath
  BY WalkNowhere
<1> QED BY <1>1, DirectoriesAssumption DEF Scp!Is, Scp!Exists, NoPath, Scp!NoPath

\* Nothing leads further from a file.
LEMMA LeadingFile ==
    ASSUME NEW p \in DOMAIN Tree, Tree[p].kind = "file", NEW n \in Nat
    PROVE  Scp!Leading(Tree, p, n) = {<<>>}
<1>1. <<>> \in Scp!Leading(Tree, p, n)
  <2>1. PICK none : none = <<>>
    OBVIOUS
  <2>2. none \in Seq(Known) /\ Len(none) <= n /\ Scp!Walk(Tree, p, none) = p
    BY <2>1, WalkNone
  <2>3. Scp!Is(Tree, Scp!Walk(Tree, p, none), "file") /\ n \in Int
    BY <2>2 DEF Scp!Is, Scp!Exists
  <2>4. none \in Scp!Leading(Tree, p, n)
    BY <2>2, <2>3, LeadingIs
  <2> QED BY <2>1, <2>4
<1>2. ASSUME NEW names \in Scp!Leading(Tree, p, n), names # <<>> PROVE FALSE
  <2>1. /\ names \in Seq(Known) /\ Scp!Is(Tree, Scp!Walk(Tree, p, names), "file")
    BY <1>2, LeadingIs
  <2>2. PICK x \in Known, rest \in Seq(Known) : names = <<x>> \o rest
    BY <1>2, <2>1, FirstName
  <2>3. Scp!Walk(Tree, p, names) = Scp!Walk(Tree, Scp!Enter(Tree, p, x), rest)
    BY <2>2, WalkFirst
  <2>4. Append(p, x) \notin DOMAIN Tree
    <3>1. p \in Seq(STRING) /\ x \in STRING
      BY TreeAssumption, KnownNames
    <3>2. PICK q : q = Append(p, x)
      OBVIOUS
    <3>3. p # <<>> /\ Len(q) = Len(p) + 1 /\ Len(p) \in Nat /\ Len(p) # 0
      BY <3>1, <3>2, PathAppended, DirectoriesAssumption, EmptySeq DEF NoPath
    <3>4. SubSeq(q, 1, Len(p)) = p
      <4>1. Len(p) \in 1..Len(p)
        BY <3>3
      <4> QED BY <3>1, <3>2, <4>1, PathTop
    <3>5. Len(p) \in 1..(Len(q) - 1)
      BY <3>3
    <3>6. q \in DOMAIN Tree => Is(Tree, SubSeq(q, 1, Len(p)), "dir")
      BY <3>5, DirectoriesAssumption
    <3> QED BY <3>2, <3>4, <3>6 DEF Is
  <2>5. Scp!Enter(Tree, p, x) = Scp!NoPath
    <3>1. x \in STRING
      BY KnownNames
    <3> QED BY <2>4, <3>1, AbsentPath, EnterIs
  <2> QED BY <2>1, <2>3, <2>5, NowhereNoFile
<1> QED BY <1>1, <1>2

\* From a directory, every file is reached through one of its entries.
LEMMA LeadingDir ==
    ASSUME NEW p \in DOMAIN Tree, Tree[p].kind = "dir", NEW n \in Int, NEW names
    PROVE  names \in Scp!Leading(Tree, p, n) <=>
                \E x, rest :
                    /\ x \in Known /\ names = <<x>> \o rest /\ x \in Scp!Names(Tree, p)
                    /\ rest \in Scp!Leading(Tree, Scp!Canonical(Tree, Append(p, x)), n - 1)
<1>1. ASSUME names \in Scp!Leading(Tree, p, n)
      PROVE  \E x, rest :
                    /\ x \in Known /\ names = <<x>> \o rest /\ x \in Scp!Names(Tree, p)
                    /\ rest \in Scp!Leading(Tree, Scp!Canonical(Tree, Append(p, x)), n - 1)
  <2>1. /\ names \in Seq(Known) /\ Len(names) <= n
        /\ Scp!Is(Tree, Scp!Walk(Tree, p, names), "file")
    BY <1>1, LeadingIs
  <2>2. names # <<>>
    BY <2>1, WalkNone DEF Scp!Is
  <2>3. PICK x \in Known, rest \in Seq(Known) : names = <<x>> \o rest /\ Len(names) = Len(rest) + 1
    BY <2>1, <2>2, FirstName
  <2>4. PICK q : q = Scp!Canonical(Tree, Append(p, x))
    OBVIOUS
  <2>5. Scp!Walk(Tree, p, names) = Scp!Walk(Tree, q, rest)
    BY <2>3, <2>4, WalkFirst, EnterIs
  <2>6. x \in Scp!Names(Tree, p)
    BY <2>1, <2>3, <2>4, <2>5, NowhereNoFile, EnterIs
  <2>7. Len(rest) <= n - 1 /\ n - 1 \in Int
    BY <2>1, <2>3, LenProperties
  <2>8. rest \in Scp!Leading(Tree, q, n - 1)
    BY <2>1, <2>3, <2>5, <2>7, LeadingIs
  <2> QED BY <2>3, <2>4, <2>6, <2>8
<1>2. ASSUME NEW x \in Known, NEW rest,
             names = <<x>> \o rest, x \in Scp!Names(Tree, p),
             rest \in Scp!Leading(Tree, Scp!Canonical(Tree, Append(p, x)), n - 1)
      PROVE  names \in Scp!Leading(Tree, p, n)
  <2>1. PICK q : q = Scp!Canonical(Tree, Append(p, x))
    OBVIOUS
  <2>2. rest \in Seq(Known) /\ Len(rest) <= n - 1 /\ Scp!Is(Tree, Scp!Walk(Tree, q, rest), "file")
    <3>1. n - 1 \in Int
      OBVIOUS
    <3> QED BY <1>2, <2>1, <3>1, LeadingIs
  <2>3. Scp!Walk(Tree, p, names) = Scp!Walk(Tree, q, rest)
    BY <1>2, <2>1, <2>2, WalkFirst, EnterIs
  <2>4. names \in Seq(Known) /\ Len(names) <= n
    BY <1>2, <2>2, MoreNames
  <2> QED BY <2>2, <2>3, <2>4, LeadingIs
<1> QED BY <1>1, <1>2

-----------------------------------------------------------------------------
(* The agenda of the SCP source.                                           *)

Items ==
    {e \in [op : {"entry", "header", "end"}, path : DOMAIN Tree \cup {Scp!NoPath}, name : STRING,
            depth : Nat] :
        /\ e.path # Scp!NoPath => Tree[e.path].kind # "link"
        /\ e.op = "header" => e.depth < MaxDepth /\ e.path # Scp!NoPath}

\* Where a client is after an item, having been at p before.
After(p, e) == IF e.op = "end" THEN Scp!Front(p) ELSE p

\* The directory pre[i] is where the client will be when the i-th item is sent:
\* at the end it has left them all.
Fits(a, pre) ==
    /\ a \in Seq(Items) /\ pre \in [Nat -> Seq(STRING)] /\ pre[Len(a) + 1] = <<>>
    /\ \A i \in 1..Len(a) :
        pre[i + 1] = After(pre[i], a[i]) /\ (a[i].op = "end" => pre[i] # <<>>)

\* The files that an item, and the whole agenda, will bring.
Under(p, e) ==
    IF e.op = "end" THEN {}
    ELSE {(p \o <<e.name>>) \o names :
            names \in Scp!Leading(Tree, e.path, MaxDepth - e.depth)}
Pending(a, pre) == UNION {Under(pre[i], a[i]) : i \in 1..Len(a)}

\* The first item is taken off.
LEMMA AgendaTail ==
    ASSUME NEW a, NEW pre, Fits(a, pre), a # <<>>
    PROVE  /\ a[1] \in Items /\ pre[1] \in Seq(STRING) /\ (a[1].op = "end" => pre[1] # <<>>)
           /\ \E rest : /\ Fits(Tail(a), rest) /\ rest[1] = After(pre[1], a[1])
                        /\ Pending(a, pre) = Under(pre[1], a[1]) \cup Pending(Tail(a), rest)
<1>1. PICK n, b : n = Len(Tail(a)) /\ b = Tail(a)
  OBVIOUS
<1>2. /\ a \in Seq(Items) /\ b \in Seq(Items) /\ n \in Nat /\ Len(b) = n /\ Len(a) = n + 1
      /\ \A i \in 1..n : b[i] = a[i + 1]
  BY <1>1, HeadTailProperties, LenProperties DEF Fits
<1>3. 1 \in 1..(n + 1) /\ a[1] \in Items
  BY <1>2, ElementOfSeq
<1>4. /\ pre \in [Nat -> Seq(STRING)] /\ pre[(n + 1) + 1] = <<>>
      /\ \A i \in 1..(n + 1) : /\ pre[i + 1] = After(pre[i], a[i])
                               /\ a[i].op = "end" => pre[i] # <<>>
  BY <1>2 DEF Fits
<1> DEFINE rest0 == [i \in Nat |-> pre[i + 1]]
<1>5. PICK rest : rest = rest0
  OBVIOUS
<1>6. rest \in [Nat -> Seq(STRING)] /\ \A i \in Nat : rest[i] = pre[i + 1]
  BY <1>4, <1>5
<1>7. rest[n + 1] = <<>> /\ rest[1] = After(pre[1], a[1])
  <2>1. n + 1 \in Nat /\ 1 \in Nat
    BY <1>2
  <2>2. rest[n + 1] = pre[(n + 1) + 1] /\ rest[1] = pre[1 + 1]
    BY <1>6, <2>1
  <2>3. pre[1 + 1] = After(pre[1], a[1])
    BY <1>3, <1>4
  <2> QED BY <1>4, <2>2, <2>3
<1>8. ASSUME NEW i \in 1..n
      PROVE  rest[i + 1] = After(rest[i], b[i]) /\ (b[i].op = "end" => rest[i] # <<>>)
  <2>1. i \in Nat /\ i + 1 \in Nat /\ i + 1 \in 1..(n + 1)
    BY <1>2, <1>8
  <2>2. rest[i + 1] = pre[(i + 1) + 1] /\ rest[i] = pre[i + 1] /\ b[i] = a[i + 1]
    BY <1>2, <1>6, <1>8, <2>1
  <2> QED BY <1>4, <2>1, <2>2
<1>9. Fits(b, rest)
  BY <1>2, <1>6, <1>7, <1>8 DEF Fits
<1>10. Pending(a, pre) = Under(pre[1], a[1]) \cup Pending(b, rest)
  <2>1. ASSUME NEW f \in Pending(a, pre) PROVE f \in Under(pre[1], a[1]) \cup Pending(b, rest)
    <3>1. PICK i \in 1..(n + 1) : f \in Under(pre[i], a[i])
      BY <1>2, <2>1 DEF Pending
    <3>2. CASE i = 1
      BY <3>1, <3>2
    <3>3. CASE i # 1
      <4>1. PICK j : j = i - 1
        OBVIOUS
      <4>2. j \in 1..n /\ j \in Nat /\ j + 1 = i
        BY <1>2, <3>3, <4>1
      <4>3. rest[j] = pre[i] /\ b[j] = a[i]
        BY <1>2, <1>6, <4>2
      <4>4. f \in Under(rest[j], b[j])
        BY <3>1, <4>3
      <4> QED BY <1>2, <4>2, <4>4 DEF Pending
    <3> QED BY <3>2, <3>3
  <2>2. ASSUME NEW f \in Under(pre[1], a[1]) PROVE f \in Pending(a, pre)
    BY <1>2, <1>3, <2>2 DEF Pending
  <2>3. ASSUME NEW f \in Pending(b, rest) PROVE f \in Pending(a, pre)
    <3>1. PICK i \in 1..n : f \in Under(rest[i], b[i])
      BY <1>2, <2>3 DEF Pending
    <3>2. i \in Nat /\ i + 1 \in 1..(n + 1)
      BY <1>2
    <3>3. rest[i] = pre[i + 1] /\ b[i] = a[i + 1]
      BY <1>2, <1>6, <3>2
    <3>4. f \in Under(pre[i + 1], a[i + 1])
      BY <3>1, <3>3
    <3> QED BY <1>2, <3>2, <3>4 DEF Pending
  <2> QED BY <2>1, <2>2, <2>3
<1>11. pre[1] \in Seq(STRING) /\ (a[1].op = "end" => pre[1] # <<>>)
  BY <1>3, <1>4
<1> QED BY <1>1, <1>3, <1>7, <1>9, <1>10, <1>11

LEMMA Difference == ASSUME NEW i \in Nat, NEW m \in Nat, ~(i <= m) PROVE i - m \in Nat
OBVIOUS

\* The items s take a client along f to p.
LeadsTo(s, f, p) ==
    /\ s \in Seq(Items) /\ f \in [Nat -> Seq(STRING)] /\ f[Len(s) + 1] = p
    /\ \A i \in 1..Len(s) : f[i + 1] = After(f[i], s[i]) /\ (s[i].op = "end" => f[i] # <<>>)

\* Items are put in front.
LEMMA AgendaSplice ==
    ASSUME NEW s, NEW f, NEW b, NEW pre, Fits(b, pre), LeadsTo(s, f, pre[1])
    PROVE  \E new : /\ Fits(s \o b, new) /\ new[1] = f[1]
                    /\ Pending(s \o b, new) = Pending(s, f) \cup Pending(b, pre)
<1>1. PICK m, n, a : m = Len(s) /\ n = Len(b) /\ a = s \o b
  OBVIOUS
<1>0. /\ s \in Seq(Items) /\ f \in [Nat -> Seq(STRING)] /\ f[m + 1] = pre[1]
      /\ \A i \in 1..m : f[i + 1] = After(f[i], s[i]) /\ (s[i].op = "end" => f[i] # <<>>)
  BY <1>1 DEF LeadsTo
<1>2. /\ b \in Seq(Items) /\ a \in Seq(Items) /\ m \in Nat /\ n \in Nat /\ Len(a) = m + n
      /\ \A i \in 1..(m + n) : a[i] = IF i <= m THEN s[i] ELSE b[i - m]
  BY <1>0, <1>1, ConcatProperties, LenProperties DEF Fits
<1>3. /\ pre \in [Nat -> Seq(STRING)] /\ pre[n + 1] = <<>>
      /\ \A i \in 1..n : pre[i + 1] = After(pre[i], b[i]) /\ (b[i].op = "end" => pre[i] # <<>>)
  BY <1>1 DEF Fits
<1> DEFINE new0 == [i \in Nat |-> IF i <= m THEN f[i] ELSE pre[i - m]]
<1>4. PICK new : new = new0
  OBVIOUS
<1>5. new \in [Nat -> Seq(STRING)] /\ \A i \in Nat : new[i] = IF i <= m THEN f[i] ELSE pre[i - m]
  <2>1. m \in Nat
    BY <1>2
  <2>2. ASSUME NEW i \in Nat PROVE (IF i <= m THEN f[i] ELSE pre[i - m]) \in Seq(STRING)
    <3>1. ~(i <= m) => i - m \in Nat
      BY <2>1, Difference
    <3> QED BY <1>0, <1>3, <3>1
  <2> QED BY <1>4, <2>2
<1>6. new[(m + n) + 1] = <<>>
  <2>1. (m + n) + 1 \in Nat /\ ~((m + n) + 1 <= m) /\ ((m + n) + 1) - m = n + 1
    BY <1>2
  <2> QED BY <1>3, <1>5, <2>1
<1>7. new[1] = f[1]
  <2>1. CASE m = 0
    <3>1. 1 \in Nat /\ ~(1 <= m) /\ 1 - m = 1 /\ m + 1 = 1
      BY <2>1
    <3>2. new[1] = pre[1] /\ f[m + 1] = pre[1]
      BY <1>0, <1>5, <3>1
    <3> QED BY <3>1, <3>2
  <2>2. CASE m # 0
    <3>1. 1 \in Nat /\ 1 <= m
      BY <1>2, <2>2
    <3> QED BY <1>5, <3>1
  <2> QED BY <2>1, <2>2
<1>8. ASSUME NEW i \in 1..(m + n)
      PROVE  new[i + 1] = After(new[i], a[i]) /\ (a[i].op = "end" => new[i] # <<>>)
  <2>1. CASE i <= m
    <3>1. i \in Nat /\ i + 1 \in Nat /\ i \in 1..m
      BY <1>2, <2>1
    <3>2. new[i] = f[i] /\ a[i] = s[i]
      BY <1>2, <1>5, <2>1, <3>1
    <3>3. f[i + 1] = After(f[i], s[i]) /\ (s[i].op = "end" => f[i] # <<>>)
      BY <1>0, <3>1
    <3>4. new[i + 1] = f[i + 1]
      <4>1. CASE i + 1 <= m
        BY <1>5, <3>1, <4>1
      <4>2. CASE ~(i + 1 <= m)
        <5>1. i + 1 = m + 1 /\ (i + 1) - m = 1
          BY <1>2, <2>1, <4>2
        <5> QED BY <1>0, <1>5, <3>1, <4>2, <5>1
      <4> QED BY <4>1, <4>2
    <3> QED BY <3>2, <3>3, <3>4
  <2>2. CASE ~(i <= m)
    <3>1. PICK j : j = i - m
      OBVIOUS
    <3>2. /\ j \in 1..n /\ i \in Nat /\ i + 1 \in Nat /\ ~(i + 1 <= m) /\ (i + 1) - m = j + 1
      BY <1>2, <2>2, <3>1
    <3>3. new[i] = pre[j] /\ new[i + 1] = pre[j + 1] /\ a[i] = b[j]
      BY <1>2, <1>5, <2>2, <3>1, <3>2
    <3> QED BY <1>3, <3>2, <3>3
  <2> QED BY <2>1, <2>2
<1>9. Fits(a, new)
  BY <1>2, <1>5, <1>6, <1>8 DEF Fits
<1>10. Pending(a, new) = Pending(s, f) \cup Pending(b, pre)
  <2>1. ASSUME NEW x \in Pending(a, new) PROVE x \in Pending(s, f) \cup Pending(b, pre)
    <3>1. PICK i \in 1..(m + n) : x \in Under(new[i], a[i])
      BY <1>2, <2>1 DEF Pending
    <3>2. CASE i <= m
      <4>1. i \in Nat /\ i \in 1..m
        BY <1>2, <3>2
      <4>2. x \in Under(f[i], s[i])
        BY <1>2, <1>5, <3>1, <3>2, <4>1
      <4> QED BY <1>1, <4>1, <4>2 DEF Pending
    <3>3. CASE ~(i <= m)
      <4>1. PICK j : j = i - m
        OBVIOUS
      <4>2. i \in Nat /\ j \in 1..n
        BY <1>2, <3>3, <4>1
      <4>3. x \in Under(pre[j], b[j])
        BY <1>2, <1>5, <3>1, <3>3, <4>1, <4>2
      <4> QED BY <1>1, <4>2, <4>3 DEF Pending
    <3> QED BY <3>2, <3>3
  <2>2. ASSUME NEW x \in Pending(s, f) PROVE x \in Pending(a, new)
    <3>1. PICK i \in 1..m : x \in Under(f[i], s[i])
      BY <1>1, <2>2 DEF Pending
    <3>2. i \in 1..(m + n) /\ i \in Nat /\ i <= m
      BY <1>2
    <3>3. x \in Under(new[i], a[i])
      BY <1>2, <1>5, <3>1, <3>2
    <3> QED BY <1>2, <3>2, <3>3 DEF Pending
  <2>3. ASSUME NEW x \in Pending(b, pre) PROVE x \in Pending(a, new)
    <3>1. PICK j \in 1..n : x \in Under(pre[j], b[j])
      BY <1>1, <2>3 DEF Pending
    <3>2. PICK i : i = j + m
      OBVIOUS
    <3>3. i \in 1..(m + n) /\ i \in Nat /\ ~(i <= m) /\ i - m = j
      BY <1>2, <3>2
    <3>4. new[i] = pre[j] /\ a[i] = b[j]
      BY <1>2, <1>5, <3>3
    <3>5. x \in Under(new[i], a[i])
      BY <3>1, <3>4
    <3> QED BY <1>2, <3>3, <3>5 DEF Pending
  <2> QED BY <2>1, <2>2, <2>3
<1> QED BY <1>1, <1>7, <1>9, <1>10

\* A file is sent.
LEMMA AdvanceFile ==
    ASSUME NEW a, NEW pre, Fits(a, pre), a # <<>>, a[1].op # "end", a[1].path \in DOMAIN Tree,
           Tree[a[1].path].kind = "file", a[1].depth < MaxDepth
    PROVE  \E new : /\ Fits(Tail(a), new) /\ new[1] = pre[1]
                    /\ Pending(a, pre) = {Append(pre[1], a[1].name)} \cup Pending(Tail(a), new)
<1>1. PICK e, at : e = a[1] /\ at = pre[1]
  OBVIOUS
<1>2. PICK new : /\ Fits(Tail(a), new) /\ new[1] = After(at, e)
                 /\ Pending(a, pre) = Under(at, e) \cup Pending(Tail(a), new)
  BY <1>1, AgendaTail
<1>3. e \in Items /\ at \in Seq(STRING)
  BY <1>1, AgendaTail
<1>4. e.name \in STRING /\ MaxDepth - e.depth \in Nat
  BY <1>1, <1>3, EntriesAssumption DEF Items
<1>5. Scp!Leading(Tree, e.path, MaxDepth - e.depth) = {<<>>}
  BY <1>1, <1>4, LeadingFile
<1>6. (at \o <<e.name>>) \o <<>> = Append(at, e.name)
  <2>1. at \o <<e.name>> = Append(at, e.name)
    BY <1>3, <1>4, AppendIsConcat
  <2>2. Append(at, e.name) \in Seq(STRING)
    BY <1>3, <1>4, PathAppended
  <2>3. PICK t : t = Append(at, e.name)
    OBVIOUS
  <2>4. t \o <<>> = t
    BY <2>2, <2>3, ConcatEmptySeq
  <2> QED BY <2>1, <2>3, <2>4
<1>7. Under(at, e) = {Append(at, e.name)}
  BY <1>1, <1>5, <1>6 DEF Under
<1>8. After(at, e) = at
  BY <1>1 DEF After
<1> QED BY <1>1, <1>2, <1>7, <1>8

\* A directory is left.
LEMMA AdvanceEnd ==
    ASSUME NEW a, NEW pre, Fits(a, pre), a # <<>>, a[1].op = "end"
    PROVE  /\ pre[1] # <<>>
           /\ \E new : /\ Fits(Tail(a), new) /\ new[1] = Scp!Front(pre[1])
                       /\ Pending(a, pre) = Pending(Tail(a), new)
<1>1. PICK e, at : e = a[1] /\ at = pre[1]
  OBVIOUS
<1>2. PICK new : /\ Fits(Tail(a), new) /\ new[1] = After(at, e)
                 /\ Pending(a, pre) = Under(at, e) \cup Pending(Tail(a), new)
  BY <1>1, AgendaTail
<1>3. at # <<>>
  BY <1>1, AgendaTail
<1>4. After(at, e) = Scp!Front(at) /\ Under(at, e) = {}
  BY <1>1 DEF After, Under
<1> QED BY <1>1, <1>2, <1>3, <1>4

\* What the checks of send_entry have made of an entry.
LEMMA HeaderItem ==
    ASSUME NEW e \in Items, e.op # "end", e.path \in DOMAIN Tree, e.depth < MaxDepth, NEW h,
           h = Scp!Header(e)
    PROVE  /\ h \in Items /\ h.op = "header" /\ h.path = e.path /\ h.name = e.name
           /\ h.depth = e.depth /\ (\A p : Under(p, h) = Under(p, e))
           /\ Scp!Closing(h) \in Items /\ Scp!Closing(h).op = "end"
           /\ Scp!Times(e).op = "times" /\ Scp!Times(e).path = e.path /\ Scp!Times(e).name = e.name
<1>1. e.path # Scp!NoPath
  BY DirectoriesAssumption DEF Scp!NoPath, NoPath
<1>2. h \in Items /\ h.op = "header" /\ h.path = e.path /\ h.name = e.name /\ h.depth = e.depth
  BY <1>1 DEF Items, Scp!Header
<1>3. \A p : Under(p, h) = Under(p, e)
  BY <1>2 DEF Under
<1>4. Scp!Closing(h) \in Items /\ Scp!Closing(h).op = "end"
  BY <1>2 DEF Items, Scp!Closing
<1>5. Scp!Times(e).op = "times" /\ Scp!Times(e).path = e.path /\ Scp!Times(e).name = e.name
  BY DEF Items, Scp!Times
<1> QED BY <1>2, <1>3, <1>4, <1>5

\* The T record is sent, and the D or C record is next.
LEMMA AdvanceTimes ==
    ASSUME NEW a, NEW pre, Fits(a, pre), a # <<>>, a[1].op # "end", a[1].path \in DOMAIN Tree,
           a[1].depth < MaxDepth
    PROVE  \E new : /\ Fits(<<Scp!Header(a[1])>> \o Tail(a), new) /\ new[1] = pre[1]
                    /\ Pending(<<Scp!Header(a[1])>> \o Tail(a), new) = Pending(a, pre)
<1>1. PICK e, at, h : e = a[1] /\ at = pre[1] /\ h = Scp!Header(e)
  OBVIOUS
<1>2. PICK rest : /\ Fits(Tail(a), rest) /\ rest[1] = After(at, e)
                  /\ Pending(a, pre) = Under(at, e) \cup Pending(Tail(a), rest)
  BY <1>1, AgendaTail
<1>3. e \in Items /\ at \in Seq(STRING)
  BY <1>1, AgendaTail
<1>4. h \in Items /\ h.op = "header" /\ Under(at, h) = Under(at, e)
  BY <1>1, <1>3, HeaderItem
<1>5. PICK s, f : s = <<h>> /\ f = [i \in Nat |-> at]
  OBVIOUS
<1>6. s \in Seq(Items) /\ Len(s) = 1 /\ s[1] = h
  BY <1>4, <1>5
<1>7. f \in [Nat -> Seq(STRING)] /\ f[1] = at /\ f[1 + 1] = at
  BY <1>3, <1>5
<1>8. rest[1] = at
  BY <1>1, <1>2 DEF After
<1>9. \A i \in 1..Len(s) : f[i + 1] = After(f[i], s[i]) /\ (s[i].op = "end" => f[i] # <<>>)
  <2>1. After(at, h) = at /\ h.op # "end"
    BY <1>4 DEF After
  <2>2. \A i \in 1..Len(s) : i = 1
    BY <1>6
  <2> QED BY <1>6, <1>7, <2>1, <2>2
<1>10. f[Len(s) + 1] = rest[1]
  BY <1>6, <1>7, <1>8
<1>11. PICK new : /\ Fits(s \o Tail(a), new) /\ new[1] = f[1]
                  /\ Pending(s \o Tail(a), new) = Pending(s, f) \cup Pending(Tail(a), rest)
  <2>1. LeadsTo(s, f, rest[1])
    BY <1>6, <1>7, <1>9, <1>10 DEF LeadsTo
  <2> QED BY <1>2, <2>1, AgendaSplice
<1>12. Pending(s, f) = Under(at, h)
  <2>1. Pending(s, f) = UNION {Under(f[i], s[i]) : i \in {1}}
    <3>1. 1..Len(s) = {1}
      BY <1>6
    <3> QED BY <3>1 DEF Pending
  <2> QED BY <1>6, <1>7, <2>1
<1> QED BY <1>1, <1>2, <1>4, <1>5, <1>7, <1>11, <1>12

\* What is inside a directory, as items.
LEMMA InsideItems ==
    ASSUME fs = Tree, NEW h \in Items, h.op = "header"
    PROVE  /\ Scp!Inside(h) \in Seq(Items)
           /\ \A i \in DOMAIN Scp!Inside(h) :
                /\ Scp!Inside(h)[i].op = "entry" /\ Scp!Inside(h)[i].depth = h.depth + 1
                /\ Scp!Inside(h)[i].path =
                        Scp!Canonical(Tree, Append(h.path, Scp!Inside(h)[i].name))
                /\ Scp!Inside(h)[i].name \in Scp!Names(Tree, h.path)
                /\ Scp!Inside(h)[i].name \in Known
           /\ \A x \in Known : x \in Scp!Names(Tree, h.path) =>
                \E i \in DOMAIN Scp!Inside(h) : Scp!Inside(h)[i].name = x
<1>1. PICK names, L, s : /\ names = Scp!Names(Tree, h.path) /\ L = Scp!Listed(names)
                         /\ s = Scp!Inside(h)
  OBVIOUS
<1>2. /\ L \in Seq(STRING)
      /\ \A x : (\E i \in DOMAIN L : L[i] = x) <=> x \in names /\ x \in Known
  BY <1>1, ListedNames, KnownNames
<1>3. s = [i \in DOMAIN L |->
            Scp!Entry(Scp!Canonical(Tree, Append(h.path, L[i])), L[i], h.depth + 1)]
  BY <1>1 DEF Scp!Inside
<1>4. PICK n : n = Len(L)
  OBVIOUS
<1>5. n \in Nat /\ DOMAIN L = 1..n /\ \A i \in 1..n : L[i] \in STRING
  BY <1>2, <1>4, LenProperties, ElementOfSeq
<1>6. h.depth + 1 \in Nat
  BY DEF Items
<1>7. ASSUME NEW i \in 1..n
      PROVE  /\ s[i] \in Items /\ s[i].op = "entry" /\ s[i].depth = h.depth + 1 /\ s[i].name = L[i]
             /\ s[i].path = Scp!Canonical(Tree, Append(h.path, L[i]))
  <2>1. PICK q : q = Scp!Canonical(Tree, Append(h.path, L[i]))
    OBVIOUS
  <2>2. s[i] = [op |-> "entry", path |-> q, name |-> L[i], depth |-> h.depth + 1]
    BY <1>3, <1>5, <2>1 DEF Scp!Entry
  <2>3. q \in DOMAIN Tree \cup {Scp!NoPath} /\ (q # Scp!NoPath => Tree[q].kind # "link")
    BY <2>1 DEF Scp!Canonical, Scp!Exists, Scp!Is
  <2>4. L[i] \in STRING
    BY <1>5
  <2> QED BY <1>6, <2>1, <2>2, <2>3, <2>4 DEF Items
<1>8. s \in Seq(Items) /\ DOMAIN s = 1..n
  <2>1. s \in [1..n -> Items]
    BY <1>3, <1>5, <1>7
  <2> QED BY <1>5, <2>1
<1>9. \A i \in 1..n : L[i] \in names /\ L[i] \in Known
  BY <1>2, <1>5
<1>10. \A x \in Known : x \in names => \E i \in 1..n : s[i].name = x
  BY <1>2, <1>5, <1>7
<1> QED BY <1>1, <1>7, <1>8, <1>9, <1>10

LEMMA FrontOfAppend ==
    ASSUME NEW p \in Seq(STRING), NEW x \in STRING
    PROVE  Scp!Front(Append(p, x)) = p
<1>1. PICK n, q : n = Len(p) /\ q = Append(p, x)
  OBVIOUS
<1>2. n \in Nat /\ Len(q) = n + 1 /\ Len(q) - 1 = n
  BY <1>1, PathAppended
<1>3. SubSeq(q, 1, n) = p
  <2>1. CASE n = 0
    <3>1. p = <<>>
      BY <1>1, <2>1, EmptySeq
    <3>2. SubSeq(q, 1, 0) = <<>>
      OBVIOUS
    <3> QED BY <2>1, <3>1, <3>2
  <2>2. CASE n # 0
    <3>1. n \in 1..n
      BY <1>2, <2>2
    <3> QED BY <1>1, <3>1, PathTop
  <2> QED BY <2>1, <2>2
<1> QED BY <1>1, <1>2, <1>3 DEF Scp!Front

LEMMA OneItem == ASSUME NEW S, NEW x \in S PROVE <<x>> \in Seq(S)
OBVIOUS

\* The same file, seen from a directory and from one of its entries.
LEMMA SameFile ==
    ASSUME NEW at \in Seq(STRING), NEW name \in STRING, NEW x \in STRING,
           NEW rest \in Seq(STRING)
    PROVE  (at \o <<name>>) \o (<<x>> \o rest) = (Append(at, name) \o <<x>>) \o rest
<1>1. PICK p, q : p = at \o <<name>> /\ q = <<x>>
  OBVIOUS
<1>2. p = Append(at, name) /\ p \in Seq(STRING)
  BY <1>1, AppendIsConcat, AppendProperties
<1>3. q \in Seq(STRING)
  BY <1>1, OneItem
<1>4. p \o (q \o rest) = (p \o q) \o rest
  <2>1. p \in Seq(STRING) /\ q \in Seq(STRING) /\ rest \in Seq(STRING)
    BY <1>2, <1>3
  <2> QED BY ONLY <2>1, ConcatAssociative, SMTT(30)
<1> QED BY <1>1, <1>2, <1>4

LEMMA KnownStrings ==
    ASSUME NEW rest \in Seq(Known)
    PROVE  rest \in Seq(STRING)
<1>1. PICK n : n = Len(rest)
  OBVIOUS
<1>2. n \in Nat /\ rest \in [1..n -> Known]
  BY <1>1, LenProperties
<1>3. rest \in [1..n -> STRING]
  BY <1>2, KnownNames
<1> QED BY <1>2, <1>3, SeqDef

\* The D record is sent: the client is in the directory, and its entries and
\* the E record come next.
LEMMA AdvanceDir ==
    ASSUME fs = Tree, NEW a, NEW pre, Fits(a, pre), a # <<>>, a[1].op # "end",
           a[1].path \in DOMAIN Tree, Tree[a[1].path].kind = "dir", a[1].depth < MaxDepth
    PROVE  \E new : /\ Fits(Scp!Expand(Scp!Header(a[1])) \o Tail(a), new)
                    /\ new[1] = Append(pre[1], a[1].name)
                    /\ Pending(Scp!Expand(Scp!Header(a[1])) \o Tail(a), new) = Pending(a, pre)
<1>1. PICK e, at, h : e = a[1] /\ at = pre[1] /\ h = Scp!Header(e)
  OBVIOUS
<1>2. PICK rest : /\ Fits(Tail(a), rest) /\ rest[1] = After(at, e)
                  /\ Pending(a, pre) = Under(at, e) \cup Pending(Tail(a), rest)
  BY <1>1, AgendaTail
<1>3. e \in Items /\ at \in Seq(STRING)
  BY <1>1, AgendaTail
<1>4. /\ h \in Items /\ h.op = "header" /\ h.path = e.path /\ h.name = e.name
      /\ h.depth = e.depth /\ Under(at, h) = Under(at, e)
  BY <1>1, <1>3, HeaderItem
<1>5. PICK c : c = Scp!Closing(h)
  OBVIOUS
<1>6. c \in Items /\ c.op = "end"
  BY <1>1, <1>3, <1>5, HeaderItem
<1>7. PICK t, k, s, d :
            t = Scp!Inside(h) /\ k = Len(t) /\ s = Append(t, c) /\ d = Append(at, h.name)
  OBVIOUS
<1>8. t \in Seq(Items) /\ k \in Nat /\ DOMAIN t = 1..k
  BY <1>4, <1>7, InsideItems, LenProperties
<1>9. \A i \in 1..k : /\ t[i].op = "entry" /\ t[i].depth = h.depth + 1
                      /\ t[i].path = Scp!Canonical(Tree, Append(h.path, t[i].name))
                      /\ t[i].name \in Scp!Names(Tree, h.path) /\ t[i].name \in Known
  BY <1>4, <1>7, <1>8, InsideItems
<1>10. \A x \in Known : x \in Scp!Names(Tree, h.path) => \E i \in 1..k : t[i].name = x
  <2>1. \A x \in Known : x \in Scp!Names(Tree, h.path) =>
            \E i \in DOMAIN Scp!Inside(h) : Scp!Inside(h)[i].name = x
    BY <1>4, InsideItems
  <2> QED BY <1>7, <1>8, <2>1
<1>11. /\ s \in Seq(Items) /\ Len(s) = k + 1 /\ s[k + 1] = c /\ \A i \in 1..k : s[i] = t[i]
  BY <1>6, <1>7, <1>8, AppendProperties
<1>12. h.name \in STRING /\ d \in Seq(STRING) /\ d # <<>> /\ Scp!Front(d) = at
  <2>1. h.name \in STRING
    BY <1>4 DEF Items
  <2> QED BY <1>3, <1>7, <2>1, PathTop, FrontOfAppend
<1>13. PICK f : f = [i \in Nat |-> IF i <= k + 1 THEN d ELSE at]
  OBVIOUS
<1>14. f \in [Nat -> Seq(STRING)] /\ \A i \in Nat : f[i] = IF i <= k + 1 THEN d ELSE at
  BY <1>3, <1>12, <1>13
<1>15. rest[1] = at
  BY <1>1, <1>2 DEF After
<1>16. LeadsTo(s, f, at)
  <2>1. (k + 1) + 1 \in Nat /\ ~((k + 1) + 1 <= k + 1) /\ k + 1 \in Nat /\ k + 1 <= k + 1
    BY <1>8
  <2>2. f[(k + 1) + 1] = at /\ f[k + 1] = d
    BY <1>14, <2>1
  <2>3. ASSUME NEW i \in 1..(k + 1)
        PROVE  f[i + 1] = After(f[i], s[i]) /\ (s[i].op = "end" => f[i] # <<>>)
    <3>1. CASE i = k + 1
      BY <1>6, <1>11, <1>12, <2>2, <3>1 DEF After
    <3>2. CASE i # k + 1
      <4>1. i \in 1..k /\ i \in Nat /\ i + 1 \in Nat /\ i <= k + 1 /\ i + 1 <= k + 1
        BY <1>8, <3>2
      <4>2. f[i] = d /\ f[i + 1] = d
        BY <1>14, <4>1
      <4>3. s[i].op = "entry"
        BY <1>9, <1>11, <4>1
      <4> QED BY <4>2, <4>3 DEF After
    <3> QED BY <3>1, <3>2
  <2> QED BY <1>11, <1>14, <2>2, <2>3 DEF LeadsTo
<1>17. PICK new : /\ Fits(s \o Tail(a), new) /\ new[1] = f[1]
                  /\ Pending(s \o Tail(a), new) = Pending(s, f) \cup Pending(Tail(a), rest)
  BY <1>2, <1>15, <1>16, AgendaSplice
<1>18. f[1] = d
  <2>1. 1 \in Nat /\ 1 <= k + 1
    BY <1>8
  <2> QED BY <1>14, <2>1
<1>19. PICK n : n = MaxDepth - h.depth
  OBVIOUS
<1>20. n \in Int /\ n - 1 = MaxDepth - (h.depth + 1)
  BY <1>4, <1>19, EntriesAssumption DEF Items
<1>21. h.path \in DOMAIN Tree /\ Tree[h.path].kind = "dir"
  BY <1>1, <1>4
<1>22. ASSUME NEW y \in Under(at, h) PROVE y \in Pending(s, f)
  <2>1. PICK names \in Scp!Leading(Tree, h.path, n) : y = (at \o <<h.name>>) \o names
    BY <1>4, <1>19, <1>22 DEF Under
  <2>2. PICK x, more :
            /\ x \in Known /\ names = <<x>> \o more /\ x \in Scp!Names(Tree, h.path)
            /\ more \in Scp!Leading(Tree, Scp!Canonical(Tree, Append(h.path, x)), n - 1)
    BY <1>20, <1>21, <2>1, LeadingDir
  <2>3. PICK i \in 1..k : t[i].name = x
    BY <1>10, <2>2
  <2>4. i \in Nat /\ i <= k + 1 /\ i \in 1..(k + 1)
    BY <1>8
  <2>5. f[i] = d /\ s[i] = t[i]
    BY <1>11, <1>14, <2>4
  <2>6. more \in Seq(Known)
    BY <1>20, <2>2, LeadingIs
  <2>7. y = (d \o <<x>>) \o more
    <3>1. x \in STRING /\ more \in Seq(STRING)
      BY <2>2, <2>6, KnownNames, KnownStrings
    <3>2. (at \o <<h.name>>) \o (<<x>> \o more) = (Append(at, h.name) \o <<x>>) \o more
      <4>1. at \in Seq(STRING) /\ h.name \in STRING
        BY <1>3, <1>12
      <4> QED BY ONLY <3>1, <4>1, SameFile
    <3> QED BY <1>7, <2>1, <2>2, <3>2
  <2>8. y \in Under(d, t[i])
    <3>1. PICK it : it = t[i]
      OBVIOUS
    <3>2. /\ it.op = "entry" /\ it.name = x /\ it.depth = h.depth + 1
          /\ it.path = Scp!Canonical(Tree, Append(h.path, x))
      BY <1>9, <2>3, <3>1
    <3>3. more \in Scp!Leading(Tree, it.path, MaxDepth - it.depth)
      BY <1>20, <2>2, <3>2
    <3>4. y \in Under(d, it)
      BY <2>7, <3>2, <3>3 DEF Under
    <3> QED BY <3>1, <3>4
  <2> QED BY <1>11, <2>4, <2>5, <2>8 DEF Pending
<1>23. ASSUME NEW y \in Pending(s, f) PROVE y \in Under(at, h)
  <2>1. PICK i \in 1..(k + 1) : y \in Under(f[i], s[i])
    BY <1>11, <1>23 DEF Pending
  <2>2. i # k + 1
    BY <1>6, <1>11, <2>1 DEF Under
  <2>3. i \in 1..k /\ i \in Nat /\ i <= k + 1
    BY <1>8, <2>1, <2>2
  <2>4. PICK it, x : it = t[i] /\ x = it.name
    OBVIOUS
  <2>5. /\ it.op = "entry" /\ it.name = x /\ it.depth = h.depth + 1
        /\ it.path = Scp!Canonical(Tree, Append(h.path, x))
        /\ x \in Scp!Names(Tree, h.path) /\ x \in Known
    BY <1>9, <2>3, <2>4
  <2>6. f[i] = d /\ s[i] = it
    BY <1>11, <1>14, <2>3, <2>4
  <2>7. PICK more \in Scp!Leading(Tree, it.path, MaxDepth - it.depth) :
            y = (d \o <<it.name>>) \o more
    BY <2>1, <2>5, <2>6 DEF Under
  <2>8. more \in Scp!Leading(Tree, Scp!Canonical(Tree, Append(h.path, x)), n - 1)
    BY <1>20, <2>5, <2>7
  <2>9. more \in Seq(Known)
    BY <1>20, <2>8, LeadingIs
  <2>10. PICK names : names = <<x>> \o more
    OBVIOUS
  <2>11. names \in Scp!Leading(Tree, h.path, n)
    BY <1>20, <1>21, <2>5, <2>8, <2>10, LeadingDir
  <2>12. y = (at \o <<h.name>>) \o names
    <3>1. x \in STRING /\ more \in Seq(STRING)
      BY <2>5, <2>9, KnownNames, KnownStrings
    <3>2. (at \o <<h.name>>) \o (<<x>> \o more) = (Append(at, h.name) \o <<x>>) \o more
      <4>1. at \in Seq(STRING) /\ h.name \in STRING
        BY <1>3, <1>12
      <4> QED BY ONLY <3>1, <4>1, SameFile
    <3> QED BY <1>7, <2>5, <2>7, <2>10, <3>2
  <2> QED BY <1>4, <1>19, <2>11, <2>12 DEF Under
<1>24. Pending(s, f) = Under(at, h)
  BY <1>22, <1>23
<1>25. s = Scp!Expand(h)
  BY <1>5, <1>7 DEF Scp!Expand
<1> QED BY <1>1, <1>2, <1>4, <1>7, <1>17, <1>18, <1>24, <1>25

LEMMA ConsParts ==
    ASSUME NEW S, NEW x \in S, NEW b \in Seq(S)
    PROVE  /\ <<x>> \o b \in Seq(S) /\ <<x>> \o b # <<>>
           /\ (<<x>> \o b)[1] = x /\ Tail(<<x>> \o b) = b
<1>1. PICK n, all, t : n = Len(b) /\ all = <<x>> \o b /\ t = Tail(all)
  OBVIOUS
<1>2. <<x>> \in Seq(S) /\ Len(<<x>>) = 1 /\ <<x>>[1] = x /\ n \in Nat
  BY <1>1, LenProperties
<1>3. all \in Seq(S) /\ Len(all) = n + 1
  BY <1>1, <1>2, ConcatProperties
<1>4. \A i \in 1..(Len(<<x>>) + Len(b)) :
            all[i] = IF i <= Len(<<x>>) THEN <<x>>[i] ELSE b[i - Len(<<x>>)]
  BY <1>1, <1>2, ConcatProperties
<1>5. all # <<>>
  <2>1. Len(<<>>) = 0 /\ n + 1 # 0
    BY <1>2
  <2> QED BY <1>3, <2>1
<1>6. all[1] = x
  <2>1. 1 \in 1..(Len(<<x>>) + Len(b)) /\ 1 <= Len(<<x>>)
    BY <1>1, <1>2
  <2> QED BY <1>2, <1>4, <2>1
<1>7. t \in Seq(S) /\ Len(t) = n /\ \A i \in 1..n : t[i] = all[i + 1]
  <2>1. t \in Seq(S) /\ Len(t) = Len(all) - 1 /\ \A i \in 1..Len(t) : t[i] = all[i + 1]
    BY <1>1, <1>3, <1>5, HeadTailProperties
  <2>2. Len(t) = n
    BY <1>2, <1>3, <2>1
  <2> QED BY <2>1, <2>2
<1>8. ASSUME NEW i \in 1..n PROVE t[i] = b[i]
  <2>1. /\ i + 1 \in 1..(Len(<<x>>) + Len(b)) /\ ~(i + 1 <= Len(<<x>>))
        /\ (i + 1) - Len(<<x>>) = i
    BY <1>1, <1>2, <1>8
  <2> QED BY <1>4, <1>7, <2>1
<1>9. t = b
  BY <1>1, <1>7, <1>8, SeqEqual
<1> QED BY <1>1, <1>3, <1>5, <1>6, <1>9

LEMMA ConsTwo ==
    ASSUME NEW S, NEW x \in S, NEW y \in S, NEW b \in Seq(S)
    PROVE  /\ ((<<x>> \o <<y>>) \o b)[1] = x /\ Tail((<<x>> \o <<y>>) \o b) = <<y>> \o b
           /\ ((<<>> \o <<y>>) \o b)[1] = y /\ Tail((<<>> \o <<y>>) \o b) = b
<1>1. PICK p, q : p = <<x>> /\ q = <<y>>
  OBVIOUS
<1>2. p \in Seq(S) /\ q \in Seq(S)
  BY <1>1
<1>3. (p \o q) \o b = p \o (q \o b)
  BY ONLY <1>2, b \in Seq(S), ConcatAssociative
<1>4. q \o b \in Seq(S) /\ (q \o b)[1] = y /\ Tail(q \o b) = b
  BY <1>1, ConsParts
<1>5. (p \o (q \o b))[1] = x /\ Tail(p \o (q \o b)) = q \o b
  BY <1>1, <1>4, ConsParts
<1>6. <<>> \o q = q
  BY <1>2, ConcatEmptySeq
<1> QED BY <1>1, <1>3, <1>4, <1>5, <1>6

\* The target before anything is sent.
LEMMA AgendaStarts ==
    ASSUME NEW p \in DOMAIN Tree, Tree[p].kind # "link"
    PROVE  \E pre : /\ Fits(<<Scp!Entry(p, Scp!Last(p), 0)>>, pre) /\ pre[1] = <<>>
                    /\ Pending(<<Scp!Entry(p, Scp!Last(p), 0)>>, pre) = Scp!FilesBelow(Tree, p)
<1>1. PICK name, e, a : /\ name = Scp!Last(p) /\ e = Scp!Entry(p, name, 0) /\ a = <<e>>
  OBVIOUS
<1>2. name \in STRING
  <2>1. p \in Seq(STRING) /\ p # <<>>
    BY TreeAssumption, DirectoriesAssumption DEF NoPath
  <2>2. Len(p) \in 1..Len(p)
    BY <2>1, EmptySeq, LenProperties
  <2> QED BY <1>1, <2>1, <2>2, ElementOfSeq DEF Scp!Last
<1>3. e \in Items /\ e.op = "entry" /\ e.name = name /\ e.path = p /\ e.depth = 0
  BY <1>1, <1>2 DEF Items, Scp!Entry
<1>4. a \in Seq(Items) /\ Len(a) = 1 /\ a[1] = e
  BY <1>1, <1>3
<1>5. PICK pre : pre = [i \in Nat |-> <<>>]
  OBVIOUS
<1>6. pre \in [Nat -> Seq(STRING)] /\ pre[1] = <<>> /\ pre[1 + 1] = <<>>
  BY <1>5
<1>7. Fits(a, pre)
  <2>1. After(<<>>, e) = <<>>
    BY <1>3 DEF After
  <2>2. \A i \in 1..Len(a) : i = 1
    BY <1>4
  <2> QED BY <1>3, <1>4, <1>6, <2>1, <2>2 DEF Fits
<1>8. Pending(a, pre) = Under(<<>>, e)
  <2>1. 1..Len(a) = {1}
    BY <1>4
  <2>2. Pending(a, pre) = UNION {Under(pre[i], a[i]) : i \in {1}}
    BY <2>1 DEF Pending
  <2> QED BY <1>4, <1>6, <2>2
<1>9. Under(<<>>, e) = Scp!FilesBelow(Tree, p)
  <2>1. MaxDepth - 0 = MaxDepth
    BY EntriesAssumption
  <2>2. <<>> \o <<name>> = <<name>>
    <3>1. <<name>> \in Seq(STRING)
      BY <1>2
    <3>2. PICK t : t = <<name>>
      OBVIOUS
    <3>3. <<>> \o t = t
      BY <3>1, <3>2, ConcatEmptySeq
    <3> QED BY <3>2, <3>3
  <2>3. PICK m : m = MaxDepth /\ MaxDepth - e.depth = m
    BY <1>3, <2>1
  <2>4. Under(<<>>, e) = {<<name>> \o names : names \in Scp!Leading(Tree, p, m)}
    BY <1>3, <2>2, <2>3 DEF Under
  <2>5. Scp!FilesBelow(Tree, p) = {<<name>> \o names : names \in Scp!Leading(Tree, p, m)}
    BY <1>1, <2>3 DEF Scp!FilesBelow
  <2> QED BY <2>4, <2>5
<1> QED BY <1>1, <1>6, <1>7, <1>8, <1>9

\* What a client makes of each record.
LEMMA RecordsSeen ==
    ASSUME NEW v, DOMAIN v = {"at", "files"}, NEW r
    PROVE  /\ DOMAIN Scp!SeeRecord(v, r) = {"at", "files"}
           /\ r.op = "dir" => /\ Scp!SeeRecord(v, r).at = Append(v.at, r.name)
                              /\ Scp!SeeRecord(v, r).files = v.files
           /\ r.op = "end" /\ v.at # <<>> => /\ Scp!SeeRecord(v, r).at = Scp!Front(v.at)
                                             /\ Scp!SeeRecord(v, r).files = v.files
           /\ r.op = "file" => /\ Scp!SeeRecord(v, r).at = v.at
                               /\ Scp!SeeRecord(v, r).files = v.files \cup {Append(v.at, r.name)}
           /\ r.op = "times" => Scp!SeeRecord(v, r) = v
<1>1. DOMAIN Scp!SeeRecord(v, r) = {"at", "files"}
  BY DEF Scp!SeeRecord
<1>2. CASE r.op = "dir"
  BY <1>1, <1>2 DEF Scp!SeeRecord
<1>3. CASE r.op = "end"
  BY <1>1, <1>3 DEF Scp!SeeRecord
<1>4. CASE r.op = "file"
  BY <1>1, <1>4 DEF Scp!SeeRecord
<1>5. CASE r.op = "times"
  BY <1>1, <1>5 DEF Scp!SeeRecord
<1> QED BY <1>1, <1>2, <1>3, <1>4, <1>5

-----------------------------------------------------------------------------
\* While a source sends: what the client has seen and what the agenda will still
\* bring are together the files below the target, and the client is where the
\* agenda's first item expects it to be.
SentRecords ==
    [op : {"times", "dir", "file", "end"}, name : STRING, path : DOMAIN Tree \cup {Scp!NoPath}]
Target == Scp!Canonical(Tree, Root \o request.target)
Mirrors(pre) ==
    /\ Fits(agenda, pre) /\ pre[1] = Scp!Seen(sent).at
    /\ Scp!Seen(sent).files \cup Pending(agenda, pre) = Scp!FilesBelow(Tree, Target)
Mirroring ==
    /\ fs = Tree /\ sent \in Seq(SentRecords) /\ DOMAIN Scp!Seen(sent) = {"at", "files"}
    /\ \E pre : Mirrors(pre)

\* A record is sent and the agenda moves on.
LEMMA RecordSent ==
    ASSUME Mirroring, NEW pre, Mirrors(pre), NEW r \in SentRecords, sent' = Append(sent, r),
           fs' = fs, request' = request, NEW new, Fits(agenda', new),
           new[1] = Scp!SeeRecord(Scp!Seen(sent), r).at,
           Scp!SeeRecord(Scp!Seen(sent), r).files \cup Pending(agenda', new)
                = Scp!Seen(sent).files \cup Pending(agenda, pre)
    PROVE  Mirroring'
<1>1. sent \in Seq(SentRecords) /\ fs = Tree /\ DOMAIN Scp!Seen(sent) = {"at", "files"}
  BY DEF Mirroring
<1>2. PICK v, w : v = Scp!Seen(sent) /\ w = Scp!SeeRecord(v, r)
  OBVIOUS
<1>3. Scp!Seen(sent') = w
  BY <1>1, <1>2, SeenNext
<1>4. DOMAIN w = {"at", "files"}
  BY <1>1, <1>2, RecordsSeen
<1>5. sent' \in Seq(SentRecords)
  BY <1>1, AppendProperties
<1>6. w.files \cup Pending(agenda', new) = Scp!FilesBelow(Tree, Target)
  BY <1>2 DEF Mirrors
<1>7. Target' = Target
  BY DEF Target
<1>8. Mirrors(new)'
  BY <1>2, <1>3, <1>6, <1>7 DEF Mirrors
<1> QED BY <1>1, <1>3, <1>4, <1>5, <1>8 DEF Mirroring

LEMMA HeaderAgain ==
    ASSUME NEW e \in Items, e.op = "header"
    PROVE  Scp!Header(e) = e
BY DEF Items, Scp!Header

\* What goes out first, and what is left after it.
LEMMA RecordsFirst ==
    ASSUME NEW a \in Seq(Items), a # <<>>
    PROVE  /\ a[1].op = "entry" /\ request.times =>
                /\ Scp!Records(a)[1] = Scp!Times(a[1])
                /\ Tail(Scp!Records(a)) = <<Scp!Header(a[1])>> \o Tail(a)
           /\ (a[1].op = "entry" /\ ~request.times) \/ a[1].op = "header" =>
                Scp!Records(a)[1] = Scp!Header(a[1]) /\ Tail(Scp!Records(a)) = Tail(a)
           /\ a[1].op = "end" => Scp!Records(a)[1] = a[1] /\ Tail(Scp!Records(a)) = Tail(a)
<1>1. PICK e, b, h, t : e = a[1] /\ b = Tail(a) /\ h = Scp!Header(e) /\ t = Scp!Times(e)
  OBVIOUS
<1>2. e \in Items /\ b \in Seq(Items)
  BY <1>1, EmptySeq, ElementOfSeq, HeadTailProperties, LenProperties
<1>3. PICK S : S = Items \cup {h, t}
  OBVIOUS
<1>4. b \in Seq(S)
  <2>1. \A i \in 1..Len(b) : b[i] \in S
    BY <1>2, <1>3, ElementOfSeq
  <2> QED BY <1>2, <2>1, SeqDef
<1>5. /\ ((<<t>> \o <<h>>) \o b)[1] = t /\ Tail((<<t>> \o <<h>>) \o b) = <<h>> \o b
      /\ ((<<>> \o <<h>>) \o b)[1] = h /\ Tail((<<>> \o <<h>>) \o b) = b
  BY <1>3, <1>4, ConsTwo
<1>6. CASE e.op = "entry" /\ request.times
  <2>1. Scp!Records(a) = (<<t>> \o <<h>>) \o b
    BY <1>1, <1>6 DEF Scp!Records
  <2> QED BY <1>1, <1>5, <1>6, <2>1
<1>7. CASE e.op = "entry" /\ ~request.times
  <2>1. Scp!Records(a) = (<<>> \o <<h>>) \o b
    BY <1>1, <1>7 DEF Scp!Records
  <2> QED BY <1>1, <1>5, <1>7, <2>1
<1>8. CASE e.op = "header"
  <2>1. Scp!Records(a) = a /\ h = e
    BY <1>1, <1>2, <1>8, HeaderAgain DEF Scp!Records
  <2> QED BY <1>1, <1>8, <2>1
<1>9. CASE e.op = "end"
  <2>1. Scp!Records(a) = a
    BY <1>1, <1>9 DEF Scp!Records
  <2> QED BY <1>1, <1>9, <2>1
<1>10. e.op \in {"entry", "header", "end"}
  BY <1>2 DEF Items
<1> QED BY <1>1, <1>6, <1>7, <1>8, <1>9, <1>10

LEMMA NodeKinds ==
    ASSUME NEW p \in DOMAIN Tree, Tree[p].kind # "link"
    PROVE  Tree[p].kind \in {"dir", "file"}
BY TreeAssumption DEF Dir, Link, File

LEMMA SentRecord ==
    ASSUME NEW o \in {"times", "dir", "file", "end"}, NEW name \in STRING,
           NEW p \in DOMAIN Tree \cup {Scp!NoPath}
    PROVE  [op |-> o, name |-> name, path |-> p] \in SentRecords
BY DEF SentRecords

\* Each record takes the client one step along the agenda.
LEMMA SourceAdvances ==
    ASSUME Mirroring, Scp!SourceStep
    PROVE  Mirroring'
<1>1. PICK pre : Mirrors(pre)
  BY DEF Mirroring
<1>2. PICK a, e0, all, e, o, r, v :
            /\ a = agenda /\ e0 = a[1] /\ all = Scp!Records(a) /\ e = all[1]
            /\ o = IF e.op = "header" THEN fs[e.path].kind ELSE e.op
            /\ r = [op |-> o, name |-> e.name, path |-> e.path]
            /\ v = Scp!Seen(sent)
  OBVIOUS
<1>3. /\ a # <<>> /\ sent' = Append(sent, r) /\ fs' = fs /\ request' = request
      /\ e0.op = "entry" => Scp!Admissible(e0)
      /\ agenda' = IF e.op = "header" /\ fs[e.path].kind = "dir"
                   THEN Scp!Expand(e) \o Tail(all) ELSE Tail(all)
  BY <1>2 DEF Scp!SourceStep
<1>4. /\ fs = Tree /\ DOMAIN v = {"at", "files"} /\ Fits(a, pre) /\ pre[1] = v.at
  BY <1>1, <1>2 DEF Mirroring, Mirrors
<1>5. a \in Seq(Items) /\ e0 \in Items
  BY <1>2, <1>3, <1>4, AgendaTail DEF Fits
<1>6. /\ e0.op \in {"entry", "header", "end"} /\ e0.name \in STRING
      /\ e0.path \in DOMAIN Tree \cup {Scp!NoPath}
  BY <1>5 DEF Items
<1>7. ASSUME NEW new, r \in SentRecords, Fits(agenda', new), new[1] = Scp!SeeRecord(v, r).at,
             Scp!SeeRecord(v, r).files \cup Pending(agenda', new) = v.files \cup Pending(a, pre)
      PROVE  Mirroring'
  BY <1>1, <1>2, <1>3, <1>7, RecordSent
<1>8. CASE e0.op = "end"
  <2>1. all[1] = a[1] /\ Tail(all) = Tail(a)
    BY <1>2, <1>3, <1>5, <1>8, RecordsFirst
  <2>2. /\ r.op = "end" /\ r \in SentRecords /\ agenda' = Tail(a)
    <3>1. e = e0 /\ o = "end" /\ e.op # "header"
      BY <1>2, <1>8, <2>1
    <3>2. r.op = "end" /\ r \in SentRecords
      BY <1>2, <1>6, <3>1, SentRecord
    <3> QED BY <1>3, <2>1, <3>1, <3>2
  <2>3. /\ pre[1] # <<>>
        /\ \E new : /\ Fits(Tail(a), new) /\ new[1] = Scp!Front(pre[1])
                    /\ Pending(a, pre) = Pending(Tail(a), new)
    BY <1>2, <1>3, <1>4, <1>8, AdvanceEnd
  <2>4. PICK new : /\ Fits(Tail(a), new) /\ new[1] = Scp!Front(pre[1])
                   /\ Pending(a, pre) = Pending(Tail(a), new)
    BY <2>3
  <2>5. Scp!SeeRecord(v, r).at = Scp!Front(v.at) /\ Scp!SeeRecord(v, r).files = v.files
    BY <1>4, <2>2, <2>3, RecordsSeen
  <2> QED BY <1>4, <1>7, <2>2, <2>4, <2>5
<1>9. ASSUME e0.op # "end"
      PROVE  /\ e0.path \in DOMAIN Tree /\ e0.depth < MaxDepth
             /\ Tree[e0.path].kind \in {"dir", "file"}
  <2>1. e0.path \in DOMAIN Tree /\ e0.depth < MaxDepth
    <3>1. CASE e0.op = "entry"
      BY <1>3, <1>4, <3>1 DEF Scp!Admissible, Scp!Exists
    <3>2. CASE e0.op = "header"
      BY <1>5, <3>2 DEF Items
    <3> QED BY <1>6, <1>9, <3>1, <3>2
  <2>2. Tree[e0.path].kind # "link"
    BY <1>5, <2>1, DirectoriesAssumption DEF Items, Scp!NoPath, NoPath
  <2> QED BY <2>1, <2>2, NodeKinds
<1>10. CASE e0.op = "entry" /\ request.times
  <2>1. all[1] = Scp!Times(e0) /\ Tail(all) = <<Scp!Header(e0)>> \o Tail(a)
    BY <1>2, <1>3, <1>5, <1>10, RecordsFirst
  <2>2. e.op = "times" /\ e.path = e0.path /\ e.name = e0.name
    BY <1>2, <1>5, <1>9, <1>10, <2>1, HeaderItem
  <2>3. r.op = "times" /\ r \in SentRecords /\ agenda' = <<Scp!Header(e0)>> \o Tail(a)
    <3>1. o = "times" /\ e.op # "header"
      BY <1>2, <2>2
    <3>2. r.op = "times" /\ r \in SentRecords
      BY <1>2, <1>6, <2>2, <3>1, SentRecord
    <3> QED BY <1>3, <2>1, <3>1, <3>2
  <2>4. PICK new : /\ Fits(<<Scp!Header(e0)>> \o Tail(a), new) /\ new[1] = pre[1]
                   /\ Pending(<<Scp!Header(e0)>> \o Tail(a), new) = Pending(a, pre)
    <3>1. /\ a # <<>> /\ Fits(a, pre) /\ a[1] = e0 /\ a[1].op # "end"
          /\ a[1].path \in DOMAIN Tree /\ a[1].depth < MaxDepth
      BY <1>2, <1>3, <1>4, <1>9, <1>10
    <3> QED BY ONLY <3>1, AdvanceTimes
  <2>5. Scp!SeeRecord(v, r) = v
    BY <1>4, <2>3, RecordsSeen
  <2> QED BY <1>4, <1>7, <2>3, <2>4, <2>5
<1>11. CASE (e0.op = "entry" /\ ~request.times) \/ e0.op = "header"
  <2>1. all[1] = Scp!Header(e0) /\ Tail(all) = Tail(a)
    BY <1>2, <1>3, <1>5, <1>11, RecordsFirst
  <2>2. e.op = "header" /\ e.path = e0.path /\ e.name = e0.name
    BY <1>2, <1>5, <1>9, <1>11, <2>1, HeaderItem
  <2>3. r.op = Tree[e0.path].kind /\ r.name = e0.name /\ r \in SentRecords
    <3>1. o = Tree[e0.path].kind
      BY <1>2, <1>4, <2>2
    <3>2. o \in {"times", "dir", "file", "end"}
      BY <1>9, <1>11, <3>1
    <3> QED BY <1>2, <1>6, <2>2, <3>1, <3>2, SentRecord
  <2>4. CASE Tree[e0.path].kind = "file"
    <3>1. agenda' = Tail(a)
      BY <1>3, <1>4, <2>1, <2>2, <2>4
    <3>2. PICK new :
                /\ Fits(Tail(a), new) /\ new[1] = pre[1]
                /\ Pending(a, pre) = {Append(pre[1], e0.name)} \cup Pending(Tail(a), new)
      <4>1. /\ a # <<>> /\ Fits(a, pre) /\ a[1] = e0 /\ a[1].op # "end"
            /\ a[1].path \in DOMAIN Tree /\ Tree[a[1].path].kind = "file"
            /\ a[1].depth < MaxDepth
        BY <1>2, <1>3, <1>4, <1>9, <1>11, <2>4
      <4> QED BY ONLY <4>1, AdvanceFile
    <3>3. /\ Scp!SeeRecord(v, r).at = v.at
          /\ Scp!SeeRecord(v, r).files = v.files \cup {Append(v.at, e0.name)}
      <4>1. r.op = "file"
        BY <2>3, <2>4
      <4>2. /\ Scp!SeeRecord(v, r).at = v.at
            /\ Scp!SeeRecord(v, r).files = v.files \cup {Append(v.at, r.name)}
        BY <1>4, <4>1, RecordsSeen
      <4> QED BY <2>3, <4>2
    <3>4. Scp!SeeRecord(v, r).files \cup Pending(agenda', new) = v.files \cup Pending(a, pre)
      BY <1>4, <3>1, <3>2, <3>3
    <3> QED BY <1>4, <1>7, <2>3, <3>1, <3>2, <3>3, <3>4
  <2>5. CASE Tree[e0.path].kind = "dir"
    <3>1. agenda' = Scp!Expand(Scp!Header(e0)) \o Tail(a)
      BY <1>2, <1>3, <1>4, <2>1, <2>2, <2>5
    <3>2. PICK new :
                /\ Fits(Scp!Expand(Scp!Header(e0)) \o Tail(a), new)
                /\ new[1] = Append(pre[1], e0.name)
                /\ Pending(Scp!Expand(Scp!Header(e0)) \o Tail(a), new) = Pending(a, pre)
      <4>1. /\ a # <<>> /\ Fits(a, pre) /\ a[1] = e0 /\ a[1].op # "end"
            /\ a[1].path \in DOMAIN Tree /\ Tree[a[1].path].kind = "dir"
            /\ a[1].depth < MaxDepth /\ fs = Tree
        BY <1>2, <1>3, <1>4, <1>9, <1>11, <2>5
      <4> QED BY ONLY <4>1, AdvanceDir
    <3>3. Scp!SeeRecord(v, r).at = Append(v.at, e0.name) /\ Scp!SeeRecord(v, r).files = v.files
      <4>1. r.op = "dir"
        BY <2>3, <2>5
      <4>2. Scp!SeeRecord(v, r).at = Append(v.at, r.name) /\ Scp!SeeRecord(v, r).files = v.files
        BY <1>4, <4>1, RecordsSeen
      <4> QED BY <2>3, <4>2
    <3> QED BY <1>4, <1>7, <2>3, <3>1, <3>2, <3>3
  <2> QED BY <1>9, <1>11, <2>4, <2>5
<1> QED BY <1>6, <1>8, <1>10, <1>11

\* The walk begins with nothing sent.
LEMMA SourceBegins ==
    ASSUME fs = Tree, sent = <<>>, NEW req, Scp!ServeSource(req), spc' = "ready"
    PROVE  Mirroring'
<1>1. PICK p : p = Scp!Canonical(fs, Root \o req.target)
  OBVIOUS
<1>2. /\ p # Scp!NoPath /\ agenda' = <<Scp!Entry(p, Scp!Last(p), 0)>>
      /\ request' = req /\ fs' = Tree /\ sent' = <<>>
  BY <1>1 DEF Scp!ServeSource, Scp!Finish
<1>3. p \in DOMAIN Tree /\ Tree[p].kind # "link"
  <2>1. PICK q : q = Root \o req.target
    OBVIOUS
  <2>2. p = Scp!Canonical(Tree, q) /\ p # <<>>
    BY <1>1, <1>2, <2>1 DEF Scp!NoPath
  <2> QED BY <2>2, ScpCanonical
<1>4. PICK pre : /\ Fits(agenda', pre) /\ pre[1] = <<>>
                 /\ Pending(agenda', pre) = Scp!FilesBelow(Tree, p)
  BY <1>2, <1>3, AgendaStarts
<1>5. Scp!Seen(sent') = Scp!NothingSeen
  <2>1. <<>> \in Seq({1}) /\ 1 \in {1}
    OBVIOUS
  <2> QED BY <1>2, <2>1, SeenNext
<1>6. /\ DOMAIN Scp!NothingSeen = {"at", "files"} /\ Scp!NothingSeen.at = <<>>
      /\ Scp!NothingSeen.files = {}
  BY DEF Scp!NothingSeen
<1>7. Target' = p
  BY <1>1, <1>2 DEF Target
<1>8. Mirrors(pre)'
  BY <1>4, <1>5, <1>6, <1>7 DEF Mirrors
<1> QED BY <1>2, <1>5, <1>6, <1>8 DEF Mirroring

\* When the agenda is empty the client has seen all of it and is out again.
LEMMA SourceAllSent ==
    ASSUME Mirroring, agenda = <<>>
    PROVE  /\ Scp!Seen(sent).at = <<>>
           /\ Scp!Seen(sent).files = Scp!FilesBelow(fs, Scp!Canonical(fs, Root \o request.target))
<1>1. PICK pre : Mirrors(pre)
  BY DEF Mirroring
<1>2. Len(agenda) = 0
  OBVIOUS
<1>3. pre[1] = <<>>
  <2>1. 0 + 1 = 1
    OBVIOUS
  <2> QED BY <1>1, <1>2, <2>1 DEF Mirrors, Fits
<1>4. Pending(agenda, pre) = {}
  <2>1. 1..0 = {}
    OBVIOUS
  <2> QED BY <1>2, <2>1 DEF Pending
<1> QED BY <1>1, <1>3, <1>4 DEF Mirroring, Mirrors, Target

\* Only one service works on the tree, and a source finds it as it was.
SourceInv ==
    /\ Started("scp") => ~initialized
    /\ spc = "idle" => sent = <<>> /\ status # "0"
    /\ spc = "idle" /\ ~initialized => fs = Tree
    /\ spc # "idle" => Started("scp")
    /\ spc = "ready" => Mirroring
    /\ ScpSourceOkMirrors

LEMMA SourceStart == Init => SourceInv
<1> SUFFICES ASSUME Init PROVE SourceInv
  OBVIOUS
<1>1. /\ spc = "idle" /\ sent = <<>> /\ status = "none" /\ fs = Tree /\ initialized = FALSE
  BY DEF Init, Scp!ScpInit, Sftp!SftpInit
<1> QED BY <1>1 DEF SourceInv, ScpSourceOkMirrors, Scp!SourceOkMirrors

\* An end without status 0, or of a sink, says nothing about a source.
LEMMA SourceSilent ==
    ASSUME SourceInv, Started("scp"), UNCHANGED <<service, initialized>>,
           spc' \notin {"idle", "ready"}, status' = "0" => request'.sink
    PROVE  SourceInv'
<1>1. Started("scp")' /\ ~initialized'
  BY DEF Started, SourceInv
<1> QED BY <1>1 DEF SourceInv, ScpSourceOkMirrors, Scp!SourceOkMirrors

LEMMA SourceKept ==
    ASSUME SourceInv, Scp!SinkCounts, Started("scp"), Scp!ScpNext,
           UNCHANGED <<service, initialized>>
    PROVE  SourceInv'
<1>1. status = "0" => spc = "done"
  BY DEF Scp!SinkCounts
<1>2. CASE \E req \in Scp!Requests : Scp!ServeSink(req)
  <2>1. spc' # "idle" /\ spc' # "ready" /\ status' # "0"
    BY <1>1, <1>2 DEF Scp!ServeSink, Scp!Finish
  <2> QED BY <2>1, SourceSilent
<1>3. ASSUME NEW req \in Scp!Requests, Scp!ServeSource(req) PROVE SourceInv'
  <2>1. status' # "0" /\ spc = "idle" /\ spc' \in {"ready", "done"}
    BY <1>1, <1>3 DEF Scp!ServeSource, Scp!Finish
  <2>2. CASE spc' = "done"
    BY <2>1, <2>2, SourceSilent
  <2>3. CASE spc' = "ready"
    <3>1. Mirroring'
      BY <1>3, <2>1, <2>3, SourceBegins DEF SourceInv
    <3> QED BY <2>1, <2>3, <3>1 DEF SourceInv, Started, ScpSourceOkMirrors, Scp!SourceOkMirrors
  <2> QED BY <2>1, <2>2, <2>3
<1>4. CASE Scp!SourceStep
  <2>1. spc = "ready" /\ spc' = "ready" /\ status' = status
    BY <1>4 DEF Scp!SourceStep
  <2>2. Mirroring'
    BY <1>4, <2>1, SourceAdvances DEF SourceInv
  <2> QED BY <1>1, <2>1, <2>2 DEF SourceInv, Started, ScpSourceOkMirrors, Scp!SourceOkMirrors
<1>5. CASE Scp!SourceEnds
  <2>1. /\ spc = "ready" /\ agenda = <<>> /\ spc' = "done"
        /\ UNCHANGED <<request, fs, sent>>
    BY <1>5 DEF Scp!SourceEnds, Scp!Finish
  <2>2. /\ Scp!Seen(sent).at = <<>>
        /\ Scp!Seen(sent).files = Scp!FilesBelow(fs, Scp!Canonical(fs, Root \o request.target))
    BY <2>1, SourceAllSent DEF SourceInv
  <2>3. ScpSourceOkMirrors'
    BY <2>1, <2>2 DEF ScpSourceOkMirrors, Scp!SourceOkMirrors
  <2> QED BY <2>1, <2>3 DEF SourceInv, Started
<1>6. CASE Scp!ServeInvalid \/ Scp!Fail \/ Scp!StoreFails
  <2>1. spc' = "done" /\ status' = "1"
    BY <1>6 DEF Scp!ServeInvalid, Scp!Fail, Scp!StoreFails, Scp!Finish
  <2> QED BY <2>1, SourceSilent
<1>7. CASE Scp!SinkEof
  <2>1. spc' = "done" /\ request'.sink
    BY <1>7 DEF Scp!SinkEof, Scp!Finish, Scp!SinkCounts
  <2> QED BY <2>1, SourceSilent
<1>8. CASE Scp!BeginLine \/ Scp!LineTimes \/ Scp!LineEnd
  <2>1. spc' = "line" /\ status' # "0"
    BY <1>1, <1>8 DEF Scp!BeginLine, Scp!LineTimes, Scp!LineEnd, Scp!ReadLine
  <2> QED BY <2>1, SourceSilent
<1>9. ASSUME NEW name \in Offered, Scp!LineDirectory(name) PROVE SourceInv'
  <2>1. spc' = "line" /\ status' # "0"
    BY <1>1, <1>9 DEF Scp!LineDirectory, Scp!ReadLine
  <2> QED BY <2>1, SourceSilent
<1>10. ASSUME NEW name \in Offered, NEW size \in 0..(MaxSize + 1), Scp!LineFile(name, size)
       PROVE  SourceInv'
  <2>1. spc' = "data" /\ status' # "0"
    BY <1>1, <1>10 DEF Scp!LineFile, Scp!ReadLine
  <2> QED BY <2>1, SourceSilent
<1>11. ASSUME NEW b \in Bytes, Scp!ReadByte(b) PROVE SourceInv'
  <2>1. spc' = "data" /\ status' # "0"
    BY <1>1, <1>11 DEF Scp!ReadByte
  <2> QED BY <2>1, SourceSilent
<1>12. CASE Scp!StoreFile
  <2>1. spc' = "line" /\ status' # "0"
    BY <1>1, <1>12 DEF Scp!StoreFile
  <2> QED BY <2>1, SourceSilent
<1> QED BY <1>2, <1>3, <1>4, <1>5, <1>6, <1>7, <1>8, <1>9, <1>10, <1>11, <1>12 DEF Scp!ScpNext

LEMMA SourceNext ==
    ASSUME SourceInv, Scp!SinkCounts, OneService, [Next]_vars
    PROVE  SourceInv'
<1>1. ASSUME UNCHANGED <<fs, sent, status, spc, initialized, request, agenda, service>>
      PROVE  SourceInv'
  <2>1. Mirroring => Mirroring'
    BY <1>1 DEF Mirroring, Mirrors, Target
  <2> QED BY <1>1, <2>1 DEF SourceInv, Started, ScpSourceOkMirrors, Scp!SourceOkMirrors
<1>2. CASE HandlerStep
  <2>1. spc = "idle" /\ ~initialized /\ UNCHANGED <<fs, sent, status, spc, initialized>>
    BY <1>2 DEF HandlerStep, scpVars, sftpVars
  <2> QED BY <2>1 DEF SourceInv, ScpSourceOkMirrors, Scp!SourceOkMirrors
<1>3. CASE ScpStep
  BY <1>3, SourceKept DEF ScpStep, channelVars, sftpVars
<1>4. CASE SftpStep
  <2>1. /\ ~Started("scp") /\ UNCHANGED <<service, sent, status, spc>> /\ Sftp!SftpNext
    BY <1>4 DEF SftpStep, scpVars, channelVars, OneService
  <2>2. spc = "idle" /\ ~Started("scp")'
    BY <2>1 DEF SourceInv, Started
  <2>3. ~initialized' => ~initialized /\ fs' = fs
    <3>1. CASE Sftp!InitRequest
      BY <3>1 DEF Sftp!InitRequest
    <3>2. ASSUME Sftp!Request PROVE initialized'
      BY <3>2 DEF Sftp!Request
    <3> QED BY <2>1, <3>1, <3>2 DEF Sftp!SftpNext, Sftp!Open, Sftp!OpenSized, Sftp!Setstat,
            Sftp!Opendir, Sftp!RemoveFile, Sftp!Mkdir, Sftp!Rmdir, Sftp!Rename, Sftp!Close,
            Sftp!Readdir, Sftp!Write, Sftp!Fsetstat
  <2> QED BY <2>1, <2>2, <2>3 DEF SourceInv, ScpSourceOkMirrors, Scp!SourceOkMirrors
<1>5. CASE EchoStep(Echo!Next)
  BY <1>1, <1>5 DEF EchoStep, channelVars, scpVars, sftpVars
<1>6. CASE UNCHANGED vars
  BY <1>1, <1>6 DEF vars, channelVars, scpVars, sftpVars
<1> QED BY <1>2, <1>3, <1>4, <1>5, <1>6 DEF Next

\* serve_source and send_entry: when a source ends with status 0 the client has
\* been sent exactly the files that names lead to from the target, each in the
\* directory it is in, and every directory that was opened has been closed, for
\* every tree with its links, every depth and every order of entries, as long as
\* the two services do not work at once.
THEOREM ServicesSourceMirrors == Spec /\ []OneService => []ScpSourceOkMirrors
<1>1. SourceInv /\ Scp!SinkCounts /\ OneService /\ [Next]_vars => SourceInv'
  BY SourceNext
<1>2. SourceInv => ScpSourceOkMirrors
  BY DEF SourceInv
<1>3. ServicesInv => Scp!SinkCounts
  BY DEF ServicesInv
<1> QED BY <1>1, <1>2, <1>3, SourceStart, ServicesInvariant, PTL DEF Spec

\* With one channel there is one service.
THEOREM ServicesSourceOneChannel ==
    ASSUME NEW c, Chans = {c}
    PROVE  Spec => []ScpSourceOkMirrors
<1>1. OneService
  BY DEF OneService, Started
<1> QED BY <1>1, ServicesSourceMirrors, PTL

-----------------------------------------------------------------------------
(* Remote forwarding.                                                      *)

TaskPoints == {None, "select", "accept", "drain", "done"}
LinkPoints == {None, "done"} \cup LiveLink
Keepers == {"task", "reaper", "nobody"}

\* The parts of the type invariant, those of the handler, the tasks and the
\* bridges.
LEMMA HandlerTypes ==
    TypeOK => /\ DOMAIN registry \subseteq Addresses \X Nat /\ Registered \subseteq Forwards
              /\ stopping \in Forwards \cup {None}
BY Zenon DEF TypeOK

LEMMA TaskTypes == TypeOK => fpc \in [Forwards -> TaskPoints]
BY Zenon DEF TypeOK, TaskPoints

LEMMA LinkTypes ==
    TypeOK => /\ link \in [Links -> LinkPoints] /\ of \in [Links -> Forwards \cup {None}]
              /\ keeper \in [Links -> Keepers]
BY Zenon DEF TypeOK, LinkPoints, Keepers

LEMMA FlagTypes == TypeOK => cancel \in [Forwards -> BOOLEAN] /\ abort \in [Forwards -> BOOLEAN]
BY Zenon DEF TypeOK

\* Dropping entries raises the flags of their forwards and of no others.
LEMMA DropRaises ==
    ASSUME TypeOK, NEW gone, DropEntries(gone)
    PROVE  /\ cancel' \in [Forwards -> BOOLEAN] /\ abort' \in [Forwards -> BOOLEAN]
           /\ \A f \in Forwards : cancel[f] \/ f \in gone => cancel'[f]
           /\ \A f \in Forwards : abort[f] => abort'[f]
<1>1. /\ cancel' = [f \in Forwards |-> cancel[f] \/ f \in gone]
      /\ abort' = [f \in Forwards |-> abort[f] \/ f \in gone]
  BY DEF DropEntries
<1>2. \A f \in Forwards :
        (cancel[f] \/ f \in gone) \in BOOLEAN /\ (abort[f] \/ f \in gone) \in BOOLEAN
  OBVIOUS
<1>3. cancel' \in [Forwards -> BOOLEAN] /\ abort' \in [Forwards -> BOOLEAN]
  BY <1>1, <1>2, Zenon
<1>4. /\ \A f \in Forwards : cancel'[f] = (cancel[f] \/ f \in gone)
      /\ \A f \in Forwards : abort'[f] = (abort[f] \/ f \in gone)
  BY <1>1, Zenon
<1> QED BY <1>3, <1>4, Zenon

\* A bound socket has a port.
LEMMA BoundPort ==
    ASSUME NEW a, NEW p \in Nat, NEW s \in BindFirst(SocketAddrs(a), p)
    PROVE  s[2] \in Nat
<1>0. FreePorts \subseteq Nat
  BY FreePortsAssumption
<1> DEFINE addrs == SocketAddrs(a)
           ok == {i \in DOMAIN addrs : Bindable(addrs[i], p) # {}}
           i == CHOOSE j \in ok : \A n \in ok : j <= n
<1>1. s \in Bindable(addrs[i], p)
  BY DEF BindFirst
<1>2. s \in {addrs[i]} \X (IF p = 0 THEN FreePorts ELSE {p})
  BY <1>1 DEF Bindable
<1> HIDE DEF i, ok, addrs
<1> QED BY <1>0, <1>2

LEMMA InitType == ForwardsInit => TypeOK
<1> SUFFICES ASSUME ForwardsInit PROVE TypeOK
  OBVIOUS
<1>1. DOMAIN registry = {} /\ Registered = {}
  BY DEF ForwardsInit, Registered
<1>2. Nothing \in [requested : Nat, port : Nat, answer : {None, "yes", "no"}]
  BY DEF Nothing
<1>3. fpc \in [Forwards -> TaskPoints]
  BY DEF ForwardsInit, TaskPoints
<1>4. /\ link \in [Links -> LinkPoints] /\ of \in [Links -> Forwards \cup {None}]
      /\ keeper \in [Links -> Keepers]
  BY DEF ForwardsInit, LinkPoints, Keepers
<1>5. cancel \in [Forwards -> BOOLEAN] /\ abort \in [Forwards -> BOOLEAN]
  BY Zenon DEF ForwardsInit
<1> QED BY <1>1, <1>2, <1>3, <1>4, <1>5, Zenon
  DEF ForwardsInit, TypeOK, TaskPoints, LinkPoints, Keepers

\* Every step keeps the types.
LEMMA StepType ==
    ASSUME TypeOK, ForwardsNext
    PROVE  TypeOK'
<1> USE DEF handlerVars, taskVars, linkVars
<1>1. ASSUME NEW f \in Forwards, TcpipForward(f) PROVE TypeOK'
  <2>1. PICK a \in Addresses, p \in Ports : \E s \in BindFirst(SocketAddrs(a), p) :
           LET k == <<a, s[2]>>
               old == IF k \in DOMAIN registry THEN {registry[k]} ELSE {}
           IN  /\ fpc' = [fpc EXCEPT ![f] = "select"]
               /\ registry' = [x \in DOMAIN registry \cup {k} |->
                                   IF x = k THEN f ELSE registry[x]]
               /\ reply' = [requested |-> p, port |-> s[2], answer |-> "yes"]
               /\ DropEntries(old)
    BY <1>1 DEF TcpipForward
  <2>2. PICK s \in BindFirst(SocketAddrs(a), p) :
           LET k == <<a, s[2]>>
               old == IF k \in DOMAIN registry THEN {registry[k]} ELSE {}
           IN  /\ fpc' = [fpc EXCEPT ![f] = "select"]
               /\ registry' = [x \in DOMAIN registry \cup {k} |->
                                   IF x = k THEN f ELSE registry[x]]
               /\ reply' = [requested |-> p, port |-> s[2], answer |-> "yes"]
               /\ DropEntries(old)
    BY <2>1
  <2> DEFINE k == <<a, s[2]>>
             old == IF k \in DOMAIN registry THEN {registry[k]} ELSE {}
  <2>3. p \in Nat /\ s[2] \in Nat
    BY BoundPort, PortsAssumption
  <2>4. k \in Addresses \X Nat
    BY <2>3
  <2>5. reply' \in [requested : Nat, port : Nat, answer : {None, "yes", "no"}]
    BY <2>2, <2>3
  <2>6. DropEntries(old) /\ fpc' = [fpc EXCEPT ![f] = "select"]
    BY <2>2
  <2>7. registry' = [x \in DOMAIN registry \cup {k} |-> IF x = k THEN f ELSE registry[x]]
    BY <2>2
  <2> HIDE DEF k, old
  <2>8. fpc' \in [Forwards -> TaskPoints]
    BY <2>6, TaskTypes DEF TaskPoints
  <2>9. DOMAIN registry' \subseteq Addresses \X Nat /\ Registered' \subseteq Forwards
    BY <2>4, <2>7, HandlerTypes DEF Registered
  <2>10. cancel' \in [Forwards -> BOOLEAN] /\ abort' \in [Forwards -> BOOLEAN]
    BY <2>6, DropRaises
  <2>11. UNCHANGED <<handler, stopping, closed, linkVars>>
    BY <1>1 DEF TcpipForward
  <2> QED BY <2>5, <2>8, <2>9, <2>10, <2>11, Zenon DEF TypeOK, TaskPoints
<1>2. CASE RefuseForward
  <2>1. reply' \in [requested : Nat, port : Nat, answer : {None, "yes", "no"}]
    BY <1>2, PortsAssumption DEF RefuseForward
  <2>2. Registered' = Registered
    BY <1>2 DEF RefuseForward, Registered
  <2> QED BY <1>2, <2>1, <2>2, Zenon
    DEF TypeOK, RefuseForward, TaskPoints, LinkPoints, Keepers
<1>3. ASSUME NEW k \in Addresses \X FreePorts, CancelTcpipForward(k) PROVE TypeOK'
  <2>1. registry[k] \in Forwards
    BY <1>3, HandlerTypes DEF CancelTcpipForward, Registered
  <2>2. DOMAIN registry' \subseteq Addresses \X Nat /\ Registered' \subseteq Forwards
    BY <1>3, HandlerTypes DEF CancelTcpipForward, Registered, Unregister
  <2>3. cancel' \in [Forwards -> BOOLEAN]
    BY <1>3, <2>1, Zenon DEF CancelTcpipForward, TypeOK
  <2> QED BY <1>3, <2>1, <2>2, <2>3, Zenon DEF TypeOK, CancelTcpipForward
<1>4. CASE StopEnds
  <2>1. cancel' \in [Forwards -> BOOLEAN] /\ abort' \in [Forwards -> BOOLEAN]
    BY <1>4, DropRaises DEF StopEnds
  <2>2. Registered' = Registered
    BY <1>4 DEF StopEnds, Registered
  <2> QED BY <1>4, <2>1, <2>2, Zenon
    DEF TypeOK, StopEnds, TaskPoints, LinkPoints, Keepers
<1>5. CASE StopAborts
  <2>1. abort' \in [Forwards -> BOOLEAN]
    BY <1>5, Zenon DEF TypeOK, StopAborts
  <2>2. Registered' = Registered
    BY <1>5 DEF StopAborts, Registered
  <2> QED BY <1>5, <2>1, <2>2, Zenon
    DEF TypeOK, StopAborts, TaskPoints, LinkPoints, Keepers
<1>6. CASE StopGivesUp
  <2>1. cancel' \in [Forwards -> BOOLEAN] /\ abort' \in [Forwards -> BOOLEAN]
    BY <1>6, DropRaises DEF StopGivesUp
  <2>2. Registered' = Registered
    BY <1>6 DEF StopGivesUp, Registered
  <2> QED BY <1>6, <2>1, <2>2, Zenon
    DEF TypeOK, StopGivesUp, TaskPoints, LinkPoints, Keepers
<1>7. CASE TrackerCloses
  <2>1. Registered' = Registered
    BY <1>7 DEF TrackerCloses, Registered
  <2> QED BY <1>7, <2>1, Zenon
    DEF TypeOK, TrackerCloses, TaskPoints, LinkPoints, Keepers
<1>8. ASSUME NEW f \in Forwards, TrackerAborts(f) PROVE TypeOK'
  <2>1. abort' \in [Forwards -> BOOLEAN]
    BY <1>8, Zenon DEF TypeOK, TrackerAborts
  <2>2. Registered' = Registered
    BY <1>8 DEF TrackerAborts, Registered
  <2> QED BY <1>8, <2>1, <2>2, Zenon
    DEF TypeOK, TrackerAborts, TaskPoints, LinkPoints, Keepers
<1>9. CASE SessionEnds
  <2>1. cancel' \in [Forwards -> BOOLEAN] /\ abort' \in [Forwards -> BOOLEAN]
    BY <1>9, DropRaises DEF SessionEnds
  <2>2. DOMAIN registry' = {} /\ Registered' = {}
    BY <1>9 DEF SessionEnds, Registered
  <2> QED BY <1>9, <2>1, <2>2, Zenon
    DEF TypeOK, SessionEnds, TaskPoints, LinkPoints, Keepers
<1>10. ASSUME NEW f \in Forwards, TaskDropped(f) PROVE TypeOK'
  <2>1. fpc' \in [Forwards -> TaskPoints]
    BY <1>10, TaskTypes DEF TaskDropped, TaskPoints
  <2>2. link' \in [Links -> LinkPoints]
    BY <1>10, LinkTypes DEF TaskDropped, LinkPoints, LiveLink
  <2>3. keeper' \in [Links -> Keepers]
    BY <1>10, LinkTypes DEF TaskDropped, Keepers
  <2>4. Registered' = Registered
    BY <1>10 DEF TaskDropped, Registered
  <2> QED BY <1>10, <2>1, <2>2, <2>3, <2>4, Zenon
    DEF TypeOK, TaskDropped, TaskPoints, LinkPoints, Keepers
<1>11. ASSUME NEW f \in Forwards, SelectCancelled(f) PROVE TypeOK'
  <2>1. fpc' \in [Forwards -> TaskPoints]
    BY <1>11, TaskTypes DEF SelectCancelled, TaskPoints, Unlisten
  <2>2. link' \in [Links -> LinkPoints]
    BY <1>11, LinkTypes DEF SelectCancelled, LinkPoints, LiveLink, Unlisten
  <2>3. Registered' = Registered
    BY <1>11 DEF SelectCancelled, Registered
  <2> QED BY <1>11, <2>1, <2>2, <2>3, Zenon
    DEF TypeOK, SelectCancelled, TaskPoints, LinkPoints, Keepers
<1>12. ASSUME NEW f \in Forwards, SelectAccepts(f) PROVE TypeOK'
  <2>1. fpc' \in [Forwards -> TaskPoints]
    BY <1>12, TaskTypes DEF SelectAccepts, TaskPoints
  <2>2. Registered' = Registered
    BY <1>12 DEF SelectAccepts, Registered
  <2> QED BY <1>12, <2>1, <2>2, Zenon
    DEF TypeOK, SelectAccepts, TaskPoints, LinkPoints, Keepers
<1>13. ASSUME NEW f \in Forwards, SpawnBridge(f) PROVE TypeOK'
  <2>1. fpc' \in [Forwards -> TaskPoints]
    BY <1>13, TaskTypes DEF SpawnBridge, TaskPoints
  <2>2. /\ link' \in [Links -> LinkPoints] /\ of' \in [Links -> Forwards \cup {None}]
        /\ keeper' \in [Links -> Keepers]
    BY <1>13, LinkTypes DEF SpawnBridge, LinkPoints, LiveLink, Keepers
  <2>3. Registered' = Registered
    BY <1>13 DEF SpawnBridge, Registered
  <2> QED BY <1>13, <2>1, <2>2, <2>3, Zenon
    DEF TypeOK, SpawnBridge, TaskPoints, LinkPoints, Keepers
<1>14. ASSUME NEW f \in Forwards, AcceptNothing(f) PROVE TypeOK'
  <2>1. fpc' \in [Forwards -> TaskPoints]
    BY <1>14, TaskTypes DEF AcceptNothing, TaskPoints
  <2>2. Registered' = Registered
    BY <1>14 DEF AcceptNothing, Registered
  <2> QED BY <1>14, <2>1, <2>2, Zenon
    DEF TypeOK, AcceptNothing, TaskPoints, LinkPoints, Keepers
<1>15. ASSUME NEW f \in Forwards, AcceptFails(f) PROVE TypeOK'
  <2>1. fpc' \in [Forwards -> TaskPoints]
    BY <1>15, TaskTypes DEF AcceptFails, TaskPoints, Unlisten
  <2>2. link' \in [Links -> LinkPoints]
    BY <1>15, LinkTypes DEF AcceptFails, LinkPoints, LiveLink, Unlisten
  <2>3. Registered' = Registered
    BY <1>15 DEF AcceptFails, Registered
  <2> QED BY <1>15, <2>1, <2>2, <2>3, Zenon
    DEF TypeOK, AcceptFails, TaskPoints, LinkPoints, Keepers
<1>16. ASSUME NEW f \in Forwards, DrainEnds(f) PROVE TypeOK'
  <2>1. fpc' \in [Forwards -> TaskPoints]
    BY <1>16, TaskTypes DEF DrainEnds, TaskPoints
  <2>2. keeper' \in [Links -> Keepers]
    BY <1>16, LinkTypes DEF DrainEnds, Keepers
  <2>3. Registered' = Registered
    BY <1>16 DEF DrainEnds, Registered
  <2> QED BY <1>16, <2>1, <2>2, <2>3, Zenon
    DEF TypeOK, DrainEnds, TaskPoints, LinkPoints, Keepers
<1>17. ASSUME NEW l \in Links, BridgeStep(l) PROVE TypeOK'
  <2>1. link' \in [Links -> LinkPoints]
    BY <1>17, LinkTypes DEF BridgeStep, LinkPoints, LiveLink
  <2>2. Registered' = Registered
    BY <1>17 DEF BridgeStep, Registered
  <2> QED BY <1>17, <2>1, <2>2, Zenon
    DEF TypeOK, BridgeStep, TaskPoints, LinkPoints, Keepers
<1> QED BY <1>1, <1>2, <1>3, <1>4, <1>5, <1>6, <1>7, <1>8, <1>9, <1>10, <1>11,
   <1>12, <1>13, <1>14, <1>15, <1>16, <1>17
   DEF ForwardsNext, Handler, Stopper, Tracker, Task, Bridge

LEMMA StutterType == ASSUME TypeOK, UNCHANGED forwardsVars PROVE TypeOK'
<1>1. Registered' = Registered
  BY DEF forwardsVars, handlerVars, Registered
<1> QED BY <1>1, Zenon DEF TypeOK, forwardsVars, handlerVars, taskVars, linkVars

-----------------------------------------------------------------------------
(* The invariant.                                                          *)

LEMMA ForwardsParts ==
    ForwardsInv => NoOrphanListener /\ BridgesFollow /\ BridgesKept
BY DEF ForwardsInv

LEMMA InitForwards == ForwardsInit => ForwardsInv
BY
DEF ForwardsInit, ForwardsInv, NoOrphanListener, BridgesFollow, BridgesKept,
    LiveLink, None

\* A forward is told to end before its entry leaves the registry.
LEMMA StepNoOrphanListener ==
    ASSUME TypeOK, ForwardsInv, ForwardsNext
    PROVE  NoOrphanListener'
<1> USE ForwardsParts, HandlerTypes, TaskTypes, LinkTypes DEF handlerVars, taskVars,
        linkVars, NoOrphanListener
<1>1. ASSUME NEW f \in Forwards, TcpipForward(f) PROVE NoOrphanListener'
  <2>0. PICK a \in Addresses, p \in Ports : \E s \in BindFirst(SocketAddrs(a), p) :
           LET k == <<a, s[2]>>
               old == IF k \in DOMAIN registry THEN {registry[k]} ELSE {}
           IN  /\ fpc' = [fpc EXCEPT ![f] = "select"]
               /\ registry' = [x \in DOMAIN registry \cup {k} |->
                                   IF x = k THEN f ELSE registry[x]]
               /\ DropEntries(old)
    BY <1>1 DEF TcpipForward
  <2>1. PICK s \in BindFirst(SocketAddrs(a), p) :
           LET k == <<a, s[2]>>
               old == IF k \in DOMAIN registry THEN {registry[k]} ELSE {}
           IN  /\ fpc' = [fpc EXCEPT ![f] = "select"]
               /\ registry' = [x \in DOMAIN registry \cup {k} |->
                                   IF x = k THEN f ELSE registry[x]]
               /\ DropEntries(old)
    BY <2>0
  <2> DEFINE k == <<a, s[2]>>
             old == IF k \in DOMAIN registry THEN {registry[k]} ELSE {}
  <2>2. DropEntries(old) /\ fpc' = [fpc EXCEPT ![f] = "select"]
    BY <2>1
  <2>3. registry' = [x \in DOMAIN registry \cup {k} |-> IF x = k THEN f ELSE registry[x]]
    BY <2>1
  <2>4. \A g \in Registered : g \in Registered' \/ g \in old
    BY <2>3 DEF Registered
  <2>5. f \in Registered'
    BY <2>3 DEF Registered
  <2> HIDE DEF k, old
  <2>6. /\ \A g \in Forwards : cancel[g] \/ g \in old => cancel'[g]
        /\ \A g \in Forwards : abort[g] => abort'[g]
    BY <2>2, DropRaises
  <2>7. \A g \in Forwards : g # f => fpc'[g] = fpc[g]
    BY <2>2
  <2> QED BY <2>4, <2>5, <2>6, <2>7
<1>2. ASSUME NEW k \in Addresses \X FreePorts, CancelTcpipForward(k) PROVE NoOrphanListener'
  <2>1. \A g \in Registered : g \in Registered' \/ g = registry[k]
    BY <1>2 DEF CancelTcpipForward, Registered, Unregister
  <2>2. registry[k] \in Forwards
    BY <1>2 DEF CancelTcpipForward, Registered
  <2>3. cancel'[registry[k]] /\ \A g \in Forwards : cancel[g] => cancel'[g]
    BY <1>2, <2>2, FlagTypes, Zenon DEF CancelTcpipForward
  <2>4. UNCHANGED <<fpc, abort>>
    BY <1>2 DEF CancelTcpipForward
  <2> QED BY <2>1, <2>2, <2>3, <2>4
<1>3. CASE StopEnds
  <2>1. /\ \A g \in Forwards : cancel[g] => cancel'[g]
        /\ \A g \in Forwards : abort[g] => abort'[g]
    BY <1>3, DropRaises DEF StopEnds
  <2>2. Registered' = Registered /\ fpc' = fpc
    BY <1>3 DEF StopEnds, Registered
  <2> QED BY <2>1, <2>2
<1>4. CASE StopAborts
  <2>1. \A g \in Forwards : abort[g] => abort'[g]
    BY <1>4, FlagTypes, Zenon DEF StopAborts
  <2>2. Registered' = Registered /\ UNCHANGED <<cancel, fpc>>
    BY <1>4 DEF StopAborts, Registered
  <2> QED BY <2>1, <2>2
<1>5. CASE StopGivesUp
  <2>1. /\ \A g \in Forwards : cancel[g] => cancel'[g]
        /\ \A g \in Forwards : abort[g] => abort'[g]
    BY <1>5, DropRaises DEF StopGivesUp
  <2>2. Registered' = Registered /\ fpc' = fpc
    BY <1>5 DEF StopGivesUp, Registered
  <2> QED BY <2>1, <2>2
<1>6. ASSUME NEW f \in Forwards, TrackerAborts(f) PROVE NoOrphanListener'
  <2>1. \A g \in Forwards : abort[g] => abort'[g]
    BY <1>6, FlagTypes, Zenon DEF TrackerAborts
  <2>2. Registered' = Registered /\ UNCHANGED <<cancel, fpc>>
    BY <1>6 DEF TrackerAborts, Registered
  <2> QED BY <2>1, <2>2
<1>7. CASE SessionEnds
  <2>1. /\ \A g \in Forwards : cancel[g] \/ g \in Registered => cancel'[g]
        /\ \A g \in Forwards : abort[g] => abort'[g]
    BY <1>7, DropRaises DEF SessionEnds
  <2>2. fpc' = fpc
    BY <1>7 DEF SessionEnds
  <2> QED BY <2>1, <2>2
<1>8. ASSUME NEW f \in Forwards, TaskDropped(f) PROVE NoOrphanListener'
  <2>1. \A g \in Forwards : fpc'[g] \in {"select", "accept"} => fpc[g] \in {"select", "accept"}
    BY <1>8 DEF TaskDropped
  <2>2. Registered' = Registered /\ UNCHANGED <<cancel, abort>>
    BY <1>8 DEF TaskDropped, Registered
  <2> QED BY <2>1, <2>2
<1>9. ASSUME NEW f \in Forwards, SelectCancelled(f) PROVE NoOrphanListener'
  <2>1. \A g \in Forwards : fpc'[g] \in {"select", "accept"} => fpc[g] \in {"select", "accept"}
    BY <1>9 DEF SelectCancelled, Unlisten
  <2>2. Registered' = Registered /\ UNCHANGED <<cancel, abort>>
    BY <1>9 DEF SelectCancelled, Registered
  <2> QED BY <2>1, <2>2
<1>10. ASSUME NEW f \in Forwards, SelectAccepts(f) PROVE NoOrphanListener'
  <2>1. \A g \in Forwards : fpc'[g] \in {"select", "accept"} => fpc[g] \in {"select", "accept"}
    BY <1>10 DEF SelectAccepts
  <2>2. Registered' = Registered /\ UNCHANGED <<cancel, abort>>
    BY <1>10 DEF SelectAccepts, Registered
  <2> QED BY <2>1, <2>2
<1>11. ASSUME NEW f \in Forwards, SpawnBridge(f) PROVE NoOrphanListener'
  <2>1. \A g \in Forwards : fpc'[g] \in {"select", "accept"} => fpc[g] \in {"select", "accept"}
    BY <1>11 DEF SpawnBridge
  <2>2. Registered' = Registered /\ UNCHANGED <<cancel, abort>>
    BY <1>11 DEF SpawnBridge, Registered
  <2> QED BY <2>1, <2>2
<1>12. ASSUME NEW f \in Forwards, AcceptNothing(f) PROVE NoOrphanListener'
  <2>1. \A g \in Forwards : fpc'[g] \in {"select", "accept"} => fpc[g] \in {"select", "accept"}
    BY <1>12 DEF AcceptNothing
  <2>2. Registered' = Registered /\ UNCHANGED <<cancel, abort>>
    BY <1>12 DEF AcceptNothing, Registered
  <2> QED BY <2>1, <2>2
<1>13. ASSUME NEW f \in Forwards, AcceptFails(f) PROVE NoOrphanListener'
  <2>1. \A g \in Forwards : fpc'[g] \in {"select", "accept"} => fpc[g] \in {"select", "accept"}
    BY <1>13 DEF AcceptFails, Unlisten
  <2>2. Registered' = Registered /\ UNCHANGED <<cancel, abort>>
    BY <1>13 DEF AcceptFails, Registered
  <2> QED BY <2>1, <2>2
<1>14. ASSUME NEW f \in Forwards, DrainEnds(f) PROVE NoOrphanListener'
  <2>1. \A g \in Forwards : fpc'[g] \in {"select", "accept"} => fpc[g] \in {"select", "accept"}
    BY <1>14 DEF DrainEnds
  <2>2. Registered' = Registered /\ UNCHANGED <<cancel, abort>>
    BY <1>14 DEF DrainEnds, Registered
  <2> QED BY <2>1, <2>2
<1>15. CASE UNCHANGED <<registry, fpc, cancel, abort>>
  BY <1>15 DEF Registered
<1> QED BY <1>1, <1>2, <1>3, <1>4, <1>5, <1>6, <1>7, <1>8, <1>9, <1>10, <1>11,
   <1>12, <1>13, <1>14, <1>15
   DEF ForwardsNext, Handler, Stopper, Tracker, Task, Bridge, RefuseForward,
   TrackerCloses, BridgeStep

\* A bridge is aborted in the step that ends its forward's loop.
LEMMA StepBridgesKept ==
    ASSUME TypeOK, ForwardsInv, ForwardsNext
    PROVE  BridgesKept'
<1> USE ForwardsParts, HandlerTypes, TaskTypes, LinkTypes DEF handlerVars, taskVars,
        linkVars, BridgesKept, LinkPoints, TaskPoints, LiveLink, Keepers
<1>1. ASSUME NEW f \in Forwards, TcpipForward(f) PROVE BridgesKept'
  <2>1. fpc[f] = None /\ fpc' = [fpc EXCEPT ![f] = "select"] /\ UNCHANGED linkVars
    BY <1>1 DEF TcpipForward
  <2> QED BY <2>1 DEF None
<1>2. ASSUME NEW f \in Forwards, TaskDropped(f) PROVE BridgesKept'
  BY <1>2 DEF TaskDropped, Kept, LinksOf
<1>3. ASSUME NEW f \in Forwards, SelectCancelled(f) PROVE BridgesKept'
  BY <1>3 DEF SelectCancelled, Unlisten, Kept, LinksOf
<1>4. ASSUME NEW f \in Forwards, SelectAccepts(f) PROVE BridgesKept'
  BY <1>4 DEF SelectAccepts
<1>5. ASSUME NEW f \in Forwards, SpawnBridge(f) PROVE BridgesKept'
  BY <1>5 DEF SpawnBridge
<1>6. ASSUME NEW f \in Forwards, AcceptNothing(f) PROVE BridgesKept'
  BY <1>6 DEF AcceptNothing
<1>7. ASSUME NEW f \in Forwards, AcceptFails(f) PROVE BridgesKept'
  BY <1>7 DEF AcceptFails, Unlisten, Kept, LinksOf
<1>8. ASSUME NEW f \in Forwards, DrainEnds(f) PROVE BridgesKept'
  BY <1>8 DEF DrainEnds, Kept, LinksOf
<1>9. ASSUME NEW l \in Links, BridgeStep(l) PROVE BridgesKept'
  BY <1>9 DEF BridgeStep
<1>10. CASE UNCHANGED <<link, of, keeper, fpc>>
  BY <1>10
<1> QED BY <1>1, <1>2, <1>3, <1>4, <1>5, <1>6, <1>7, <1>8, <1>9, <1>10
   DEF ForwardsNext, Handler, Stopper, Tracker, Task, Bridge, RefuseForward,
   CancelTcpipForward, StopEnds, StopAborts, StopGivesUp, TrackerCloses,
   TrackerAborts, SessionEnds

\* What is not aborted is kept by a forward that listens.
LEMMA StepBridgesFollow ==
    ASSUME TypeOK, ForwardsInv, ForwardsNext
    PROVE  BridgesFollow'
<1> USE ForwardsParts, HandlerTypes, TaskTypes, LinkTypes DEF handlerVars, taskVars,
        linkVars, BridgesFollow, BridgesKept, LinkPoints, TaskPoints, LiveLink,
        Keepers
<1>1. ASSUME NEW f \in Forwards, TcpipForward(f) PROVE BridgesFollow'
  <2>1. fpc[f] = None /\ fpc' = [fpc EXCEPT ![f] = "select"] /\ UNCHANGED linkVars
    BY <1>1 DEF TcpipForward
  <2> QED BY <2>1 DEF None
<1>2. ASSUME NEW f \in Forwards, TaskDropped(f) PROVE BridgesFollow'
  BY <1>2 DEF TaskDropped, Kept, LinksOf
<1>3. ASSUME NEW f \in Forwards, SelectCancelled(f) PROVE BridgesFollow'
  BY <1>3 DEF SelectCancelled, Unlisten, Kept, LinksOf
<1>4. ASSUME NEW f \in Forwards, SelectAccepts(f) PROVE BridgesFollow'
  BY <1>4 DEF SelectAccepts
<1>5. ASSUME NEW f \in Forwards, SpawnBridge(f) PROVE BridgesFollow'
  BY <1>5 DEF SpawnBridge
<1>6. ASSUME NEW f \in Forwards, AcceptNothing(f) PROVE BridgesFollow'
  BY <1>6 DEF AcceptNothing
<1>7. ASSUME NEW f \in Forwards, AcceptFails(f) PROVE BridgesFollow'
  BY <1>7 DEF AcceptFails, Unlisten, Kept, LinksOf
<1>8. ASSUME NEW f \in Forwards, DrainEnds(f) PROVE BridgesFollow'
  BY <1>8 DEF DrainEnds, Kept, LinksOf
<1>9. ASSUME NEW l \in Links, BridgeStep(l) PROVE BridgesFollow'
  BY <1>9 DEF BridgeStep
<1>10. CASE UNCHANGED <<link, of, keeper, fpc>>
  BY <1>10
<1> QED BY <1>1, <1>2, <1>3, <1>4, <1>5, <1>6, <1>7, <1>8, <1>9, <1>10
   DEF ForwardsNext, Handler, Stopper, Tracker, Task, Bridge, RefuseForward,
   CancelTcpipForward, StopEnds, StopAborts, StopGivesUp, TrackerCloses,
   TrackerAborts, SessionEnds

LEMMA StutterForwards == ASSUME ForwardsInv, UNCHANGED forwardsVars PROVE ForwardsInv'
BY
DEF ForwardsInv, NoOrphanListener, BridgesFollow, BridgesKept, LiveLink,
    Registered,
    forwardsVars, handlerVars, taskVars, linkVars

\* The types and the invariant of the forwards hold in every reachable state,
\* whatever the clients ask for and whenever a session ends or a task dies.
THEOREM ForwardsInvariant ==
    ForwardsSpec => [](TypeOK /\ ForwardsInv)
<1>1. ForwardsInit => TypeOK /\ ForwardsInv
  BY InitType, InitForwards
<1>2. TypeOK /\ ForwardsInv /\ [ForwardsNext]_forwardsVars => (TypeOK /\ ForwardsInv)'
  <2>1. CASE ForwardsNext
    BY <2>1, StepType, StepNoOrphanListener, StepBridgesFollow, StepBridgesKept
    DEF ForwardsInv
  <2>2. CASE UNCHANGED forwardsVars
    BY <2>2, StutterType, StutterForwards
  <2> QED BY <2>1, <2>2
<1> QED BY <1>1, <1>2, PTL DEF ForwardsSpec

\* A listener that nobody has told to end is one the client can cancel: it is
\* registered with its session's handler.
THEOREM ForwardsRegistered ==
    ForwardsSpec => []NoOrphanListener
<1>1. ForwardsInv => NoOrphanListener
  BY DEF ForwardsInv
<1> QED BY <1>1, ForwardsInvariant, PTL

\* No connection goes on being copied for a forward whose listener has closed.
THEOREM ForwardsTakeBridges ==
    ForwardsSpec => []BridgesFollow
<1>1. ForwardsInv => BridgesFollow
  BY DEF ForwardsInv
<1> QED BY <1>1, ForwardsInvariant, PTL
=============================================================================
