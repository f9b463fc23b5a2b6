------------------------------ MODULE HostKey ------------------------------
(***************************************************************************)
(* Host-key verification of rssh-ssh: RusshClientHandler::check_server_key *)
(* and the known_hosts file behind it (RusshKnownHosts::matches, learn).   *)
(*                                                                         *)
(* The file is the sequence of what has been appended to it: the host part *)
(* of a line, the key part, the newline.  Each is a write of its own, so a *)
(* failure or a crash may leave half a line, and two connections may       *)
(* interleave theirs.                                                      *)
(***************************************************************************)
EXTENDS Naturals, Sequences, FiniteSets

CONSTANTS
    Conns,          \* connection attempts
    Hosts,          \* endpoints (host and port)
    Keys,           \* host keys
    Algorithm,      \* their algorithms
    InitialFiles,   \* what the configured file may hold at first
    DefaultFiles,   \* what the user's default known_hosts may hold
    Parallel        \* bound: attempts verified at the same time

ASSUME AttemptsAssumption == IsFiniteSet(Conns) /\ Hosts # {} /\ Keys # {}
ASSUME KeysAssumption == Algorithm \in [Keys -> STRING]
ASSUME ParallelAssumption == Parallel \in Nat \ {0}

VARIABLES
    file,           \* the known_hosts file of with_known_hosts_path
    defaultFile,    \* the default one, which is only read
    pc,             \* where each attempt is
    conn,           \* its endpoint, key, policy, file and verifier
    status,         \* the HostKeyStatus it has found
    fix,            \* needs_newline of its learn
    out             \* the answer of check_server_key, and why

vars == <<file, defaultFile, pc, conn, status, fix, out>>

Policies == {"RejectUnknown", "Prompt", "TrustOnFirstUse", "AcceptUnknown"}
Setups == [host : Hosts, key : Keys, policy : Policies,
           path : {"given", "default"}, verifier : BOOLEAN]
HostPart(h) == [part |-> "host", value |-> h]
KeyPart(k)  == [part |-> "key", value |-> k]
Newline     == [part |-> "newline", value |-> "none"]
Parts       == [part : {"host"}, value : Hosts] \cup [part : {"key"}, value : Keys]
               \cup {Newline}

ASSUME FilesAssumption == InitialFiles \subseteq Seq(Parts)

Init ==
    /\ file \in InitialFiles /\ defaultFile \in DefaultFiles
    /\ pc = [c \in Conns |-> "idle"]
    /\ conn = [c \in Conns |-> CHOOSE s \in Setups : TRUE]
    /\ status = [c \in Conns |-> "none"]
    /\ fix = [c \in Conns |-> FALSE]
    /\ out = [c \in Conns |-> "none"]

-----------------------------------------------------------------------------
(* Reading the file.                                                       *)

\* A line goes from the start of the file or a newline to the next newline or
\* the end; empty ones do not count.
IsLine(f, i, j) ==
    /\ i <= j /\ \A k \in i..j : f[k] # Newline
    /\ i = 1 \/ f[i - 1] = Newline
    /\ j = Len(f) \/ f[j + 1] = Newline
Lines(f) == {SubSeq(f, s[1], s[2]) :
                s \in {t \in (1..Len(f)) \X (1..Len(f)) : IsLine(f, t[1], t[2])}}

\* The keys recorded for an endpoint, one to a line.
Entries(f, h) == {k \in Keys : <<HostPart(h), KeyPart(k)>> \in Lines(f)}

\* Lines of the endpoint whose key part does not parse.
Garbled(f, h) == \E l \in Lines(f) : l[1] = HostPart(h) /\ Len(l) > 2

\* known_hosts_contains_endpoint: the first word of some line.
ContainsEndpoint(f, h) == \E l \in Lines(f) : l[1] = HostPart(h)

\* check_known_hosts(_path): a different key of the same algorithm is a change,
\* a key of another algorithm is not looked at.
Matches(f, h, k) ==
    CASE Garbled(f, h) -> "error"
      [] ~Garbled(f, h) /\ \E e \in Entries(f, h) :
            e # k /\ Algorithm[e] = Algorithm[k] -> "changed"
      [] OTHER -> IF k \in Entries(f, h) THEN "known" ELSE "no_match"

-----------------------------------------------------------------------------
(* check_server_key.                                                       *)

InFlight == {c \in Conns : pc[c] \notin {"idle", "end"}}

Start(c) ==
    /\ pc[c] = "idle" /\ Cardinality(InFlight) < Parallel
    /\ \E s \in Setups : conn' = [conn EXCEPT ![c] = s]
    /\ pc' = [pc EXCEPT ![c] = "match"]
    /\ UNCHANGED <<file, defaultFile, status, fix, out>>

End(c, answer) ==
    /\ out' = [out EXCEPT ![c] = answer]
    /\ pc' = [pc EXCEPT ![c] = "end"]

Goto(c, next) == pc' = [pc EXCEPT ![c] = next] /\ UNCHANGED out

\* The configured file, or without one the user's default.
Consulted(c) == IF conn[c].path = "given" THEN file ELSE defaultFile

\* The first look at the file.  The default one is not looked at again.
Match(c) ==
    /\ pc[c] = "match"
    /\ LET s == conn[c]
           m == Matches(Consulted(c), s.host, s.key)
       IN  \/ /\ m = "known" /\ End(c, "known")
              /\ status' = [status EXCEPT ![c] = "known"]
           \/ m = "error" /\ End(c, "rejected") /\ UNCHANGED status
           \/ /\ m = "changed" /\ Goto(c, "changed")
              /\ status' = [status EXCEPT ![c] = "changed"]
           \/ /\ m = "no_match" /\ s.path = "given" /\ Goto(c, "contains")
              /\ UNCHANGED status
           \/ /\ m = "no_match" /\ s.path = "default" /\ Goto(c, "unknown")
              /\ status' = [status EXCEPT ![c] = "unknown"]
    /\ UNCHANGED <<file, defaultFile, conn, fix>>

\* Mutant: an entry of another algorithm does not count as an entry.
ContainsNothing(c) ==
    /\ pc[c] = "contains"
    /\ Goto(c, "unknown")
    /\ status' = [status EXCEPT ![c] = "unknown"]
    /\ UNCHANGED <<file, defaultFile, conn, fix>>

\* The second look: is there any line for the endpoint?
LookForEndpoint(c) ==
    /\ pc[c] = "contains"
    /\ LET found == IF ContainsEndpoint(file, conn[c].host) THEN "changed" ELSE "unknown"
       IN  Goto(c, found) /\ status' = [status EXCEPT ![c] = found]
    /\ UNCHANGED <<file, defaultFile, conn, fix>>

\* A changed key is shown to the verifier of a prompt, if any, and rejected
\* whatever its decision.
RejectChanged(c) ==
    /\ pc[c] = "changed"
    /\ End(c, "rejected")
    /\ UNCHANGED <<file, defaultFile, conn, status, fix>>

\* An unknown key, by policy.  Learning needs a configured file.
Decide(c) ==
    /\ pc[c] = "unknown"
    /\ LET s == conn[c]
       IN  \/ s.policy = "RejectUnknown" /\ End(c, "rejected")
           \/ s.policy = "AcceptUnknown" /\ End(c, "accepted")
           \/ /\ s.policy = "TrustOnFirstUse"
              /\ IF s.path = "given" THEN Goto(c, "open") ELSE End(c, "rejected")
           \/ /\ s.policy = "Prompt"
              /\ IF s.verifier THEN Goto(c, "prompt") ELSE End(c, "rejected")
    /\ UNCHANGED <<file, defaultFile, conn, status, fix>>

\* The verifier's decision, whenever it comes.
Decision(c) ==
    /\ pc[c] = "prompt"
    /\ \/ End(c, "accepted")
       \/ IF conn[c].path = "given" THEN Goto(c, "open") ELSE End(c, "rejected")
       \/ End(c, "rejected")
    /\ UNCHANGED <<file, defaultFile, conn, status, fix>>

-----------------------------------------------------------------------------
(* learn.                                                                  *)

\* Mutant: an unfinished last line is not noticed.
NoRepair == FALSE

\* The last byte of the file is not a newline.
NeedsNewline == file # <<>> /\ file[Len(file)] # Newline

LearnOpen(c) ==
    /\ pc[c] = "open"
    /\ fix' = [fix EXCEPT ![c] = NeedsNewline]
    /\ pc' = [pc EXCEPT ![c] = "repair"]
    /\ UNCHANGED <<file, defaultFile, conn, status, out>>

LearnRepair(c) ==
    /\ pc[c] = "repair"
    /\ file' = IF fix[c] THEN Append(file, Newline) ELSE file
    /\ pc' = [pc EXCEPT ![c] = "host"]
    /\ UNCHANGED <<defaultFile, conn, status, fix, out>>

LearnHost(c) ==
    /\ pc[c] = "host"
    /\ file' = Append(file, HostPart(conn[c].host))
    /\ pc' = [pc EXCEPT ![c] = "key"]
    /\ UNCHANGED <<defaultFile, conn, status, fix, out>>

LearnKey(c) ==
    /\ pc[c] = "key"
    /\ file' = Append(file, KeyPart(conn[c].key))
    /\ pc' = [pc EXCEPT ![c] = "newline"]
    /\ UNCHANGED <<defaultFile, conn, status, fix, out>>

LearnNewline(c) ==
    /\ pc[c] = "newline"
    /\ file' = Append(file, Newline)
    /\ End(c, "stored")
    /\ UNCHANGED <<defaultFile, conn, status, fix>>

\* A write fails, or the process dies, between any two of these.
LearnFails(c) ==
    /\ pc[c] \in {"open", "repair", "host", "key", "newline"}
    /\ End(c, "rejected")
    /\ UNCHANGED <<file, defaultFile, conn, status, fix>>

Learn(c) == \/ LearnOpen(c) \/ LearnRepair(c) \/ LearnHost(c) \/ LearnKey(c)
            \/ LearnNewline(c) \/ LearnFails(c)

Next == \E c \in Conns :
    \/ Start(c) \/ Match(c) \/ LookForEndpoint(c) \/ RejectChanged(c) \/ Decide(c)
    \/ Decision(c) \/ Learn(c)

Spec == Init /\ [][Next]_vars

-----------------------------------------------------------------------------
(* Properties.                                                             *)

Accepted == {"known", "accepted", "stored"}
Steps == {"idle", "match", "contains", "changed", "unknown", "prompt", "open",
          "repair", "host", "key", "newline", "end"}

\* The type of every variable.
TypeOK ==
    /\ file \in Seq(Parts)
    /\ defaultFile \in DefaultFiles
    /\ pc \in [Conns -> Steps]
    /\ conn \in [Conns -> Setups]
    /\ status \in [Conns -> {"none", "known", "unknown", "changed"}]
    /\ fix \in [Conns -> BOOLEAN]
    /\ out \in [Conns -> {"none", "rejected"} \cup Accepted]

\* check_server_key answers that the key of an attempt may be used.
Accepts(c) == out[c] = "none" /\ out'[c] \in Accepted

\* "A changed key must never be accepted by an interactive prompt or by the
\* permissive unknown-key policy.  This protects an existing trust record from
\* being silently replaced" (check_server_key): a key is accepted only if the
\* file that was consulted has it on record for the endpoint, or has none.
RecordedKeyOnly ==
    [][\A c \in Conns : Accepts(c) =>
        LET recorded == Entries(Consulted(c)', conn[c].host)
        IN  conn[c].key \in recorded \/ recorded = {}]_vars

\* What check_server_key keeps to of this when attempts are verified one after
\* the other.  With a configured file, where known_hosts_contains_endpoint looks
\* a second time, all of it.  With the default file, where nobody does, only a
\* change within the algorithm is noticed: a key that is not on record is
\* accepted when every key on record is of another algorithm.
ChangedNeverAccepted ==
    [][\A c \in Conns : Accepts(c) =>
        LET recorded == Entries(Consulted(c)', conn[c].host)
        IN  \/ conn[c].key \in recorded
            \/ recorded = {}
            \/ /\ conn[c].path = "default"
               /\ \A e \in recorded : Algorithm[e] # Algorithm[conn[c].key]]_vars

\* A key that was learned is known from then on: the record is complete and on
\* a line of its own, although earlier writes to the file were cut short and
\* whatever is learned, or fails to be, after it.
StoredIsKnown ==
    \A c \in Conns : out[c] = "stored" =>
        Matches(file, conn[c].host, conn[c].key) = "known"

-----------------------------------------------------------------------------
(* Strengthenings that make the properties inductive when the attempts are *)
(* verified one after the other (Parallel = 1).                            *)

OneAtATime == \A c, d \in InFlight : c = d

\* Nothing was answered before the end, and only a configured file is learned
\* into.
AttemptSound(c) ==
    /\ pc[c] # "end" => out[c] = "none"
    /\ pc[c] \in {"contains", "open", "repair", "host", "key", "newline"} =>
        conn[c].path = "given"

\* The lines of an endpoint, whole or not.
LinesOf(f, h) == {l \in Lines(f) : l[1] = HostPart(h)}
Record(s) == <<HostPart(s.host), KeyPart(s.key)>>

\* What was found by looking at the file still holds: the default file has no
\* key of the algorithm; from the second look at a configured one to the host
\* part there is no line of the endpoint, and the newline an earlier write owed
\* has been noticed, and then written; the host part begins the last line; the
\* record is the endpoint's only line from the key part on.
LookIsCurrent(c) ==
    LET s == conn[c]
        before == SubSeq(file, 1, Len(file) - 1)
    IN  /\ pc[c] \in {"unknown", "prompt"} /\ s.path = "default" =>
            \A e \in Entries(defaultFile, s.host) : Algorithm[e] # Algorithm[s.key]
        /\ pc[c] \in {"unknown", "prompt", "open", "repair", "host"} /\ s.path = "given" =>
            LinesOf(file, s.host) = {}
        /\ pc[c] = "repair" => fix[c] = NeedsNewline
        /\ pc[c] = "host" => ~NeedsNewline
        /\ pc[c] = "key" =>
            /\ file = Append(before, HostPart(s.host))
            /\ before = <<>> \/ before[Len(before)] = Newline
            /\ LinesOf(before, s.host) = {}
        /\ pc[c] = "newline" => LinesOf(file, s.host) = {Record(s)}

RecordKept(c) == out[c] = "stored" => LinesOf(file, conn[c].host) = {Record(conn[c])}

KnownHostsInv ==
    /\ TypeOK /\ OneAtATime
    /\ \A c \in Conns : AttemptSound(c) /\ LookIsCurrent(c) /\ RecordKept(c)
=============================================================================
