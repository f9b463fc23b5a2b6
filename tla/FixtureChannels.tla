-------------------------- MODULE FixtureChannels --------------------------
(***************************************************************************)
(* The session channels of FixtureHandler: authentication, the map of      *)
(* channels the handler holds, shells with their line buffers, commands,   *)
(* and the hand-over of a channel to the SCP or the SFTP service.          *)
(*                                                                         *)
(* A client may send any request on any channel it has open, in any order, *)
(* and goes on sending after the handler has closed the channel, until it  *)
(* has seen the close.  pty_request, window_change_request and             *)
(* agent_request only record an event.                                     *)
(***************************************************************************)
EXTENDS Naturals, FiniteSets

CONSTANTS
    Chans,              \* channels a client opens
    MaxPending,         \* bound: complete lines in one channel's buffer
    MaxShells           \* bound: shell requests on one channel

VARIABLES
    authenticated,      \* has an authentication been accepted?
    open,               \* channels the client has open
    held,               \* FixtureHandler::channels
    shells,             \* FixtureHandler::shells
    pending,            \* complete lines in shell_buffers
    service,            \* the service a channel was handed to
    ended,              \* has the handler sent exit status, EOF and close?
    asked,              \* shell requests made
    ran                 \* commands run by a shell

channelVars == <<authenticated, open, held, shells, pending, service, ended, asked, ran>>

ChannelsInit ==
    /\ authenticated = FALSE /\ open = {} /\ held = {} /\ shells = {}
    /\ pending = [c \in Chans |-> 0] /\ service = [c \in Chans |-> "none"]
    /\ ended = [c \in Chans |-> FALSE]
    /\ asked = [c \in Chans |-> 0] /\ ran = [c \in Chans |-> 0]

\* auth_publickey and auth_password: accepted for a configured key or password.
Auth(accepted) ==
    /\ ~authenticated /\ authenticated' = accepted
    /\ UNCHANGED <<open, held, shells, pending, service, ended, asked, ran>>

ChannelOpenSession(c) ==
    /\ authenticated /\ c \notin open /\ service[c] = "none" /\ ~ended[c]
    /\ open' = open \cup {c} /\ held' = held \cup {c}
    /\ UNCHANGED <<authenticated, shells, pending, service, ended, asked, ran>>

\* channel_open_direct_tcpip: never in the map, a child task copies.
ChannelOpenDirectTcpip(c) ==
    /\ authenticated /\ c \notin open /\ service[c] = "none" /\ ~ended[c]
    /\ open' = open \cup {c} /\ service' = [service EXCEPT ![c] = "direct"]
    /\ UNCHANGED <<authenticated, held, shells, pending, ended, asked, ran>>

\* channel_close; a channel number is not used again.
ChannelClose(c) ==
    /\ c \in open
    /\ open' = open \ {c} /\ held' = held \ {c} /\ shells' = shells \ {c}
    /\ pending' = [pending EXCEPT ![c] = 0]
    /\ ended' = [ended EXCEPT ![c] = TRUE]
    /\ UNCHANGED <<authenticated, service, asked, ran>>

\* shell_request: what the buffer holds stays in it.
ShellRequest(c) ==
    /\ c \in open /\ asked[c] < MaxShells
    /\ shells' = shells \cup {c} /\ asked' = [asked EXCEPT ![c] = @ + 1]
    /\ UNCHANGED <<authenticated, open, held, pending, service, ended, ran>>

\* finish_command: a reply, the output, and unless the command stalls the exit
\* status or signal, EOF and close.
FinishCommand(c, stalls) == ended' = [ended EXCEPT ![c] = @ \/ ~stalls]

\* Mutant: the handler keeps the channel it hands over.
Share(c, s) ==
    /\ c \in held /\ service' = [service EXCEPT ![c] = s]
    /\ UNCHANGED <<authenticated, open, held, shells, pending, ended, asked, ran>>

\* The channel moves out of the map into the service's task.
HandOver(c, s) ==
    /\ c \in held /\ held' = held \ {c}
    /\ service' = [service EXCEPT ![c] = s]
    /\ UNCHANGED <<authenticated, open, shells, pending, ended, asked, ran>>

\* exec_request: scp, when the handler still has the channel; otherwise failure.
ExecScp(c) == c \in open /\ HandOver(c, "scp")

\* subsystem_request
SubsystemSftp(c) == c \in open /\ HandOver(c, "sftp")

ExecCommand(c) ==
    /\ c \in open
    /\ \E stalls \in BOOLEAN : FinishCommand(c, stalls)
    /\ UNCHANGED <<authenticated, open, held, shells, pending, service, asked, ran>>

\* One line of a shell: every outcome of configured_command closes the shell.
RunLine(c) == ran' = [ran EXCEPT ![c] = @ + 1] /\ shells' = shells \ {c}

\* data with n complete lines.  The first line there is in the buffer is run,
\* the others stay in it.
Data(c, n) ==
    /\ c \in open /\ c \in shells /\ pending[c] + n <= MaxPending
    /\ IF pending[c] + n = 0
       THEN UNCHANGED <<shells, pending, ended, ran>>
       ELSE /\ pending' = [pending EXCEPT ![c] = @ + n - 1]
            /\ RunLine(c)
            /\ \E stalls \in BOOLEAN : FinishCommand(c, stalls)
    /\ UNCHANGED <<authenticated, open, held, service, asked>>

\* data past MAX_SHELL_COMMAND: the buffer is dropped and a rejection sent, but
\* the shell stays.
DataTooLong(c) ==
    /\ c \in open /\ c \in shells
    /\ pending' = [pending EXCEPT ![c] = 0] /\ FinishCommand(c, FALSE)
    /\ UNCHANGED <<authenticated, open, held, shells, service, asked, ran>>

Handler(c) ==
    \/ ChannelOpenSession(c) \/ ChannelOpenDirectTcpip(c) \/ ChannelClose(c)
    \/ ShellRequest(c) \/ ExecScp(c) \/ SubsystemSftp(c) \/ ExecCommand(c)
    \/ (\E n \in 0..MaxPending : Data(c, n)) \/ DataTooLong(c)

ChannelsNext == (\E b \in BOOLEAN : Auth(b)) \/ \E c \in Chans : Handler(c)

-----------------------------------------------------------------------------
\* A channel has one owner: the handler lets go of the one it hands to a
\* service, so no second service can be started on it.  And however a client
\* batches its lines, a shell runs one command, what was left in the buffer
\* waiting for another shell request.
ChannelDiscipline ==
    \A c \in Chans :
        /\ service[c] # "none" => c \notin held
        /\ ran[c] <= asked[c]

\* Strengthening that makes it inductive: the handler holds only open channels,
\* and an open shell is a request that has not run its command yet.
ChannelsInv ==
    /\ held \subseteq open /\ shells \subseteq Chans
    /\ service \in [Chans -> {"none", "direct", "scp", "sftp"}]
    /\ asked \in [Chans -> Nat] /\ ran \in [Chans -> Nat]
    /\ \A c \in Chans :
        /\ service[c] # "none" => c \notin held
        /\ ran[c] + (IF c \in shells THEN 1 ELSE 0) <= asked[c]
=============================================================================
