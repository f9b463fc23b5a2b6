-------------------------- MODULE FixtureServices --------------------------
(***************************************************************************)
(* The services of the hermetic server put together.  A behaviour is about *)
(* one of two parts: a client's session, where the handler serves channels *)
(* until it hands one to the SCP or the SFTP service, both working on the  *)
(* same sandbox; or the loopback echo server that forwarding tests talk to.*)
(***************************************************************************)
EXTENDS FixtureTree

CONSTANTS
    Tree, Disk,         \* the file system at the start
    Chans, MaxPending, MaxShells,
    Targets, Entries, Offered, MaxDepth, MaxSize, Bytes, MaxLines,
    MaxHandles, MaxLength, MaxRequests,
    Clients

\* The root is a directory, and no file is in it and outside of it at once.
ASSUME TreeAssumption ==
    /\ Root \in Seq(STRING) /\ Root # <<>> /\ DOMAIN Tree \subseteq Seq(STRING)
    /\ Is(Tree, Root, "dir")
    /\ Disk \in Seq(Seq(Nat))
    /\ \A p \in DOMAIN Tree :
        /\ Tree[p] \in {Dir, Link(Tree[p].to), File(Tree[p].at)}
        /\ Tree[p].kind = "file" => Tree[p].at \in DOMAIN Disk
    /\ \A p, q \in DOMAIN Tree :
        Is(Tree, p, "file") /\ Is(Tree, q, "file") /\ UnderRoot(p) /\ ~UnderRoot(q)
            => Tree[p].at # Tree[q].at

\* What a path names is in directories all the way down.
ASSUME DirectoriesAssumption ==
    /\ NoPath \notin DOMAIN Tree
    /\ \A p \in DOMAIN Tree : \A i \in 1..(Len(p) - 1) : Is(Tree, SubSeq(p, 1, i), "dir")

\* Names are strings.
ASSUME NamesAssumption == Targets \subseteq Seq(STRING) /\ Offered \subseteq STRING

ASSUME EntriesAssumption == Entries \in Seq(STRING) /\ MaxDepth \in Nat /\ MaxLinks \in Nat

VARIABLES
    part,               \* "session" or "echo"
    authenticated, open, held, shells, pending, service, ended, asked, ran,
    fs, disk,
    spc, request, dirs, forced, file, lines, incomplete, announced, stored, agenda, sent, status,
    initialized, handles, nextHandle, requests,
    opc, outcome, cancelled, ready, completion, wpc, result, conn, owned, joined, reaper

Channels == INSTANCE FixtureChannels
Scp == INSTANCE ScpService
Sftp == INSTANCE SftpSession
Echo == INSTANCE EchoServer

channelVars == <<authenticated, open, held, shells, pending, service, ended, asked, ran>>
scpVars == <<spc, request, dirs, forced, file, lines, incomplete, announced, stored, agenda, sent, status>>
sftpVars == <<initialized, handles, nextHandle, requests>>
echoVars == <<opc, outcome, cancelled, ready, completion, wpc, result, conn, owned, joined, reaper>>
vars == <<part, channelVars, fs, disk, scpVars, sftpVars, echoVars>>

Init ==
    /\ part \in {"session", "echo"}
    /\ Channels!ChannelsInit /\ fs = Tree /\ disk = Disk
    /\ Scp!ScpInit /\ Sftp!SftpInit /\ Echo!Init

\* The service a channel of the session was handed to, if any.
Started(s) == \E c \in Chans : service[c] = s

\* The handler serves the client's requests until the service it has started
\* begins.  What it does while the service runs, on that channel or on others, is
\* left out: the service only meets its own channel and the sandbox.
HandlerStep ==
    /\ part = "session" /\ spc = "idle" /\ ~initialized
    /\ Channels!ChannelsNext
    /\ UNCHANGED <<part, fs, disk, scpVars, sftpVars, echoVars>>

ScpStep ==
    /\ part = "session" /\ Started("scp") /\ Scp!ScpNext
    /\ UNCHANGED <<part, channelVars, sftpVars, echoVars>>

SftpStep ==
    /\ part = "session" /\ Started("sftp") /\ Sftp!SftpNext
    /\ UNCHANGED <<part, channelVars, scpVars, echoVars>>

EchoStep(step) ==
    /\ part = "echo" /\ step
    /\ UNCHANGED <<part, channelVars, fs, disk, scpVars, sftpVars>>

Next == HandlerStep \/ ScpStep \/ SftpStep \/ EchoStep(Echo!Next)

\* The echo server's threads run; a client of the session may stop at any point.
Fairness ==
    /\ WF_vars(EchoStep(Echo!Owner)) /\ WF_vars(EchoStep(Echo!Listener))
    /\ \A c \in Clients : WF_vars(EchoStep(Echo!Connection(c)))

Spec == Init /\ [][Next]_vars /\ Fairness

-----------------------------------------------------------------------------
\* The places of the files outside the root.
OutsidePlaces == {Tree[p].at : p \in {q \in DOMAIN Tree : ~UnderRoot(q) /\ Is(Tree, q, "file")}}

\* Whatever is uploaded, removed, renamed or linked to, nothing outside the
\* sandbox root changes or is opened, and the root stays.
SandboxHolds ==
    /\ Is(fs, Root, "dir")
    /\ Outside(fs, disk) = Outside(Tree, Disk)
    /\ Sftp!NotOpen(OutsidePlaces)

\* A client's file is only sent or stored whole (see ScpService).
ScpSinkOkMeansStored == Scp!SinkOkMeansStored
ScpSourceOkMirrors == Scp!SourceOkMirrors

\* One owner per channel, one command per shell (see FixtureChannels).
ChannelDiscipline == Channels!ChannelDiscipline

\* What a stop of the echo server promises (see EchoServer).
EchoThreadsOwned == Echo!StopOkMeansEnded /\ Echo!NoThreadForgotten
EchoStopEndsAll == Echo!StopEndsAll

-----------------------------------------------------------------------------
(* What makes SandboxHolds inductive.                                      *)

\* The disk has no gaps, every file has a place on it, and neither a file in
\* the sandbox nor an open handle shares the place of one outside.
PlacesSound ==
    /\ DOMAIN fs \subseteq Seq(STRING)
    /\ \E n \in Nat : DOMAIN disk = 1..n
    /\ \A p \in DOMAIN fs :
        /\ fs[p] \in {Dir, Link(fs[p].to), File(fs[p].at)}
        /\ fs[p].kind = "file" => /\ fs[p].at \in DOMAIN disk
                                  /\ UnderRoot(p) => fs[p].at \notin OutsidePlaces
    /\ \A t \in DOMAIN handles :
        /\ DOMAIN handles[t] = {"kind", "at", "writable", "entries"}
        /\ handles[t].kind = "file" => /\ handles[t].at \notin OutsidePlaces
                                       /\ handles[t].writable => handles[t].at \in DOMAIN disk

\* What is outside has not changed, path by path.
OutsideKept ==
    /\ Is(fs, Root, "dir")
    /\ \A p \in DOMAIN fs : ~UnderRoot(p) => p \in DOMAIN Tree /\ fs[p] = Tree[p]
    /\ \A p \in DOMAIN Tree : ~UnderRoot(p) => p \in DOMAIN fs
    /\ \A i \in OutsidePlaces : disk[i] = Disk[i]

\* A path the sink has resolved and not written yet is still one it may write.
Storable(p) == p \in Seq(STRING) /\ UnderRoot(p) /\ ~Is(fs, p, "link")
SinkPaths ==
    /\ spc # "idle" => Started("scp")
    /\ spc \in {"line", "data"} =>
        /\ dirs \in Seq(Seq(STRING)) /\ dirs # <<>>
        /\ forced # NoPath => Storable(forced)
    /\ spc = "data" => DOMAIN file = {"path", "size", "data"} /\ Storable(file.path)

SandboxInv == PlacesSound /\ OutsideKept /\ SinkPaths
ServicesInv ==
    Channels!ChannelsInv /\ Echo!EchoInv /\ Scp!SinkCounts /\ Scp!SinkOkMeansStored
=============================================================================
