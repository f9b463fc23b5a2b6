--------------------------- MODULE ClientLibrary ---------------------------
(***************************************************************************)
(* The parts of the client around the session: the process-wide runtime,   *)
(* the runner over the mutex halves, the sequential runner, the quoting of *)
(* remote commands and the command line.  A behaviour is about one part.   *)
(***************************************************************************)
EXTENDS Naturals, Sequences

CONSTANTS
    Threads, MaxAttempts,
    MaxEvents, MaxWrites, MaxReplies,
    MaxInput, MaxOutput, BufferSize,
    MaxWords, MaxChars,
    Arguments, MaxArguments

ASSUME ThreadsAssumption == "nobody" \notin Threads
ASSUME BufferAssumption == BufferSize \in Nat

VARIABLES
    part,
    tpc, cell, holder, poisoned, attempts, mine, got, errors,
    mpc, ppc, mutex, flag, events, unsent, failed, waiting, replies, over, closes,
    lpc, given, buffer, written, received, served, shown, legacyClosed, verdict,
    argv,
    cpc, args, home, at, port, hostsFile, auth, authSelected, command, connectRequest,
    remote, code

Runtime == INSTANCE LazyRuntime
Halves == INSTANCE SharedHalves
Legacy == INSTANCE LegacyRunner
Quoting == INSTANCE RemoteCommand
Cli == INSTANCE CommandLine

runtimeVars == <<tpc, cell, holder, poisoned, attempts, mine, got, errors>>
halvesVars == <<mpc, ppc, mutex, flag, events, unsent, failed, waiting, replies, over, closes>>
legacyVars == <<lpc, given, buffer, written, received, served, shown, legacyClosed, verdict>>
cliVars == <<cpc, args, home, at, port, hostsFile, auth, authSelected, command,
             connectRequest, remote, code>>
vars == <<part, runtimeVars, halvesVars, legacyVars, argv, cliVars>>

Init ==
    /\ part \in {"runtime", "halves", "legacy", "quoting", "cli"}
    /\ Runtime!RuntimeInit /\ Halves!HalvesInit /\ Legacy!LegacyInit
    /\ Quoting!CommandInit /\ Cli!CommandLineInit

RuntimeStep ==
    /\ part = "runtime" /\ Runtime!RuntimeNext
    /\ UNCHANGED <<part, halvesVars, legacyVars, argv, cliVars>>

HalvesStep(step) ==
    /\ part = "halves" /\ step
    /\ UNCHANGED <<part, runtimeVars, legacyVars, argv, cliVars>>

LegacyStep ==
    /\ part = "legacy" /\ Legacy!LegacyNext
    /\ UNCHANGED <<part, runtimeVars, halvesVars, argv, cliVars>>

QuotingStep ==
    /\ part = "quoting" /\ Quoting!CommandNext
    /\ UNCHANGED <<part, runtimeVars, halvesVars, legacyVars, cliVars>>

CliStep ==
    /\ part = "cli" /\ Cli!CommandLineNext
    /\ UNCHANGED <<part, runtimeVars, halvesVars, legacyVars, argv>>

Next ==
    RuntimeStep \/ HalvesStep(Halves!HalvesNext) \/ LegacyStep \/ QuotingStep \/ CliStep

\* The two threads of the runner run; nobody has to type or to answer.
Fairness == WF_vars(HalvesStep(Halves!MainThread)) /\ WF_vars(HalvesStep(Halves!InputPump))

Spec == Init /\ [][Next]_vars /\ Fairness

-----------------------------------------------------------------------------
\* All callers share the one runtime that was built (see LazyRuntime).
OneRuntime == Runtime!OneRuntime

\* A closed channel ends the run over the mutex halves (see SharedHalves).
CloseEndsRun == Halves!CloseEndsRun

\* The sequential runner's Ok means everything was copied (see LegacyRunner).
LegacyOkMeansAll == Legacy!LegacyOkMeansAll

\* A quoted command is read back as it was (see RemoteCommand).
QuotingRoundTrip == Quoting!QuotingRoundTrip

\* The command asks for what was typed and its exit code is true (see
\* CommandLine).
ExitCodeTruthful == Cli!ExitCodeTruthful
=============================================================================
