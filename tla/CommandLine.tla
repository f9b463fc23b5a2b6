---------------------------- MODULE CommandLine ----------------------------
(***************************************************************************)
(* The rssh command: parse the arguments, validate what they say, connect, *)
(* run the session, and turn its outcome into an exit code.  An argument   *)
(* is one of the few strings that the parser tells apart.                  *)
(***************************************************************************)
EXTENDS Naturals, Sequences

CONSTANTS
    Arguments,          \* the strings that may be typed
    MaxArguments        \* bound: how many

VARIABLES
    cpc,                \* "typing", "parse", "run", "connect", "session", "exited"
    args,               \* the arguments, without the program's name
    home,               \* is there a home directory?
    at,                 \* the next argument to parse
    port, hostsFile, auth, authSelected,
    command,            \* what follows the destination
    connectRequest,     \* none, or what the opener is asked for
    remote,             \* none, or how the remote side ended
    code                \* the exit code

cliVars == <<cpc, args, home, at, port, hostsFile, auth, authSelected, command,
             connectRequest, remote, code>>
parsed == <<port, hostsFile, auth, authSelected, command>>

\* A number that fits u16, whatever else stands for an argument.
Port == [a \in {"2222", "0"} |-> IF a = "2222" THEN 2222 ELSE 0]
IsOption(a) == a \in {"--help", "-h", "--version", "-p", "--known-hosts", "-i", "--password", "-x"}
Help == {<<"--help">>, <<"-h">>, <<"--version">>}

\* split_once('@') finds a user and a host, neither empty; and trimmed by
\* try_new, neither empty.  No valid destination here has blanks around user or
\* host, so that what try_new trims off is never part of what was typed.
Destinations == {"u@h", " @h"}
ValidDestinations == {"u@h"}
Blank(a) == a \in {"", " "}

\* The remote outcome: an exit status of 32 bits or none, and maybe a signal.
\* An absent one is the empty set.
Statuses == {0, 1, 255, 256, 2^16}

CommandLineInit ==
    /\ cpc = "typing" /\ args = <<>> /\ home \in BOOLEAN /\ at = 1
    /\ port = 22 /\ hostsFile = "none" /\ auth = "agent" /\ authSelected = FALSE
    /\ command = <<>>
    /\ connectRequest = <<>> /\ remote = <<>> /\ code = 0

TypeArgument ==
    /\ cpc = "typing" /\ Len(args) < MaxArguments
    /\ \E a \in Arguments : args' = Append(args, a)
    /\ UNCHANGED <<cpc, home, at, parsed, connectRequest, remote, code>>

Exit(c) == cpc' = "exited" /\ code' = c
Refuse == Exit(255) /\ UNCHANGED <<at, parsed>>

-----------------------------------------------------------------------------
(* parse.                                                                  *)

Start ==
    /\ cpc = "typing"
    /\ \/ args \in Help /\ Exit(0) /\ UNCHANGED hostsFile
       \/ /\ args \notin Help /\ cpc' = "parse" /\ UNCHANGED code
          /\ hostsFile' = IF home THEN "home" ELSE "none"
    /\ UNCHANGED <<args, home, at, port, auth, authSelected, command, connectRequest, remote>>

\* Is a the argument to parse, and with a value behind it?
This(a) == at <= Len(args) /\ args[at] = a
HasValue == at < Len(args)
Value == args[at + 1]

ParsePort ==
    /\ This("-p")
    /\ \/ /\ HasValue /\ Value \in DOMAIN Port /\ Port[Value] # 0
          /\ port' = Port[Value] /\ at' = at + 2
          /\ UNCHANGED <<cpc, code, hostsFile, auth, authSelected, command>>
       \/ ~(HasValue /\ Value \in DOMAIN Port /\ Port[Value] # 0) /\ Refuse

ParseKnownHosts ==
    /\ This("--known-hosts")
    /\ \/ /\ HasValue /\ hostsFile' = Value /\ at' = at + 2
          /\ UNCHANGED <<cpc, code, port, auth, authSelected, command>>
       \/ ~HasValue /\ Refuse

ParseAuth ==
    /\ This("-i") \/ This("--password")
    /\ \/ authSelected /\ Refuse
       \/ /\ ~authSelected /\ This("--password")
          /\ auth' = "password" /\ authSelected' = TRUE /\ at' = at + 1
          /\ UNCHANGED <<cpc, code, port, hostsFile, command>>
       \/ /\ ~authSelected /\ This("-i") /\ HasValue /\ Value # ""
          /\ auth' = Value /\ authSelected' = TRUE /\ at' = at + 2
          /\ UNCHANGED <<cpc, code, port, hostsFile, command>>
       \/ ~authSelected /\ This("-i") /\ ~(HasValue /\ Value # "") /\ Refuse

\* The first argument that is no option must be the destination; the rest is
\* the command, whatever it looks like.
ParseDestination ==
    /\ at <= Len(args) /\ ~IsOption(args[at])
    /\ \/ /\ args[at] \in Destinations /\ hostsFile # "none"
          /\ command' = SubSeq(args, at + 1, Len(args))
          /\ cpc' = "run" /\ UNCHANGED <<code, at, port, hostsFile, auth, authSelected>>
       \/ ~(args[at] \in Destinations /\ hostsFile # "none") /\ Refuse

\* Help or a version among other arguments, an unknown option, no destination.
ParseNothing ==
    /\ at > Len(args) \/ \E a \in {"--help", "-h", "--version", "-x"} : This(a)
    /\ Refuse

Parse ==
    /\ cpc = "parse"
    /\ ParsePort \/ ParseKnownHosts \/ ParseAuth \/ ParseDestination \/ ParseNothing
    /\ UNCHANGED <<args, home, connectRequest, remote>>

-----------------------------------------------------------------------------
(* run: try_new, SshSessionStartup::command, the connector, the session.   *)

ValidCommand(words) == words = <<>> \/ \E i \in DOMAIN words : ~Blank(words[i])

Validate ==
    /\ cpc = "run"
    /\ \/ /\ args[at] \in ValidDestinations /\ ValidCommand(command)
          /\ connectRequest' = <<[port |-> port, hosts |-> hostsFile, auth |-> auth,
                                  to |-> args[at], command |-> command]>>
          /\ cpc' = "connect" /\ UNCHANGED code
       \/ ~(args[at] \in ValidDestinations /\ ValidCommand(command)) /\ Exit(255)
          /\ UNCHANGED connectRequest
    /\ UNCHANGED <<args, home, at, parsed, remote>>

Connect ==
    /\ cpc = "connect"
    /\ \/ cpc' = "session" /\ UNCHANGED code
       \/ Exit(255)
    /\ UNCHANGED <<args, home, at, parsed, connectRequest, remote>>

\* Mutant: the status is cut to the exit code's width.
CutExitCode(status, signalled) ==
    IF signalled \/ status = {} THEN 255 ELSE CHOOSE c \in 0..255 : \E s \in status : c = s % 256

ExitCode(status, signalled) ==
    IF signalled \/ status \cap (0..255) = {} THEN 255 ELSE CHOOSE s \in status : TRUE

RunSession ==
    /\ cpc = "session"
    /\ \/ \E status \in {{}} \cup {{s} : s \in Statuses}, signalled \in BOOLEAN :
            /\ remote' = <<[status |-> status, signalled |-> signalled]>>
            /\ Exit(ExitCode(status, signalled))
       \/ Exit(255) /\ UNCHANGED remote
    /\ UNCHANGED <<args, home, at, parsed, connectRequest>>

CommandLineNext == TypeArgument \/ Start \/ Parse \/ Validate \/ Connect \/ RunSession

-----------------------------------------------------------------------------
\* How many arguments an option takes up, itself included.
Width(a) == IF a \in {"-p", "--known-hosts", "-i"} THEN 2 ELSE 1

\* The last value given to an option that stands at one of these positions.
LastGiven(positions, option, default) ==
    LET its == {i \in positions : args[i] = option}
    IN  IF its = {} THEN default ELSE args[1 + CHOOSE i \in its : \A j \in its : j <= i]

\* Options with their values stand side by side from the first argument up to d.
Placed(options, d) == options \cup {d} = {1} \cup {i + Width(args[i]) : i \in options}

\* What the options at these positions say: the last one of a kind counts, and
\* there is at most one way to authenticate.
PortGiven(options) ==
    LET p == LastGiven(options, "-p", "") IN IF p = "" THEN 22 ELSE Port[p]
HostsGiven(options, default) == LastGiven(options, "--known-hosts", default)
OneAuth(options) ==
    \A i, j \in options : {args[i], args[j]} \subseteq {"-i", "--password"} => i = j
AuthGiven(options) ==
    IF \E i \in options : args[i] = "--password" THEN "password"
                                                ELSE LastGiven(options, "-i", "agent")

\* The request means what was typed: up to the destination the arguments are
\* options with their values, and everything behind it is the command.
AsTyped(r) ==
    \E d \in DOMAIN args : \E options \in SUBSET (1..(d - 1)) :
        /\ Placed(options, d) /\ OneAuth(options)
        /\ r.to = args[d] /\ r.command = SubSeq(args, d + 1, Len(args))
        /\ r.port = PortGiven(options) /\ r.hosts = HostsGiven(options, "home")
        /\ r.auth = AuthGiven(options)

\* The opener is only asked for what was typed; the command exits with 0 only
\* for help and for a remote side that ended with status 0 and no signal; and
\* a status that a process can exit with is passed on.
ExitCodeTruthful ==
    /\ connectRequest # <<>> => AsTyped(connectRequest[1])
    /\ cpc = "exited" /\ code = 0 =>
            args \in Help \/ remote = <<[status |-> {0}, signalled |-> FALSE]>>
    /\ \A s \in Statuses \cap (0..255) :
            remote = <<[status |-> {s}, signalled |-> FALSE]>> => code = s

\* What the proof adds: the options parsed so far are the ones that stand before
\* the argument that is next, and what they say has been noted.
ParsedSoFar ==
    \E options \in SUBSET (1..(at - 1)) :
        /\ Placed(options, at) /\ OneAuth(options)
        /\ port = PortGiven(options)
        /\ hostsFile = HostsGiven(options, IF home THEN "home" ELSE "none")
        /\ auth = AuthGiven(options)
        /\ authSelected <=> \E i \in options : args[i] \in {"-i", "--password"}

CommandLineInv ==
    /\ args \in Seq(Arguments) /\ at \in Nat \ {0}
    /\ cpc = "typing" => /\ at = 1 /\ port = 22 /\ hostsFile = "none" /\ auth = "agent"
                         /\ ~authSelected
    /\ cpc \in {"parse", "run"} => ParsedSoFar
    /\ cpc = "run" => /\ at \in DOMAIN args /\ hostsFile # "none"
                      /\ command = SubSeq(args, at + 1, Len(args))
    /\ cpc \in {"typing", "parse", "run"} => connectRequest = <<>>
    /\ cpc # "exited" => remote = <<>>
    /\ ExitCodeTruthful
=============================================================================
