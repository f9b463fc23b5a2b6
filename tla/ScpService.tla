----------------------------- MODULE ScpService -----------------------------
(***************************************************************************)
(* serve_scp of the hermetic server: one SCP transfer over one channel, as *)
(* a sink (-t) that stores what the client announces or as a source (-f)   *)
(* that walks the tree.                                                    *)
(*                                                                         *)
(* The client's bytes are modelled by the unit the service reads next: a   *)
(* beginning or the rest of a control line, a byte of data, an             *)
(* acknowledgement, or the end of what it can read (EOF, close, a lost     *)
(* channel or SCP_IO_DEADLINE).  Any stream a client may send is a         *)
(* sequence of such units.                                                 *)
(***************************************************************************)
EXTENDS FixtureTree

CONSTANTS
    Targets,            \* relative paths the client may name
    Entries,            \* every name, in the order entries are sorted
    Offered,            \* names a client offers in C and D lines
    MaxDepth,           \* MAX_RECURSION_DEPTH
    MaxSize,            \* MAX_FILE_SIZE
    Bytes,              \* bytes of data; 0 is also the acknowledgement
    MaxLines            \* bound: control lines a client sends

VARIABLES
    spc,                \* where the service is
    request,            \* the parsed request
    fs, disk,           \* the file system
    dirs,               \* sink: the directories that are open
    forced,             \* sink: the file the target names
    file,               \* sink: the file being received
    lines,              \* sink: control lines read
    incomplete,         \* sink: has it read a part of a line?
    announced,          \* sink: announced files that were acknowledged
    stored,             \* sink: files that were stored
    agenda,             \* source: what is still to be sent
    sent,               \* source: records sent
    status              \* exit status

scpVars == <<spc, request, dirs, forced, file, lines, incomplete, announced, stored, agenda, sent, status>>

NoFile == [path |-> NoPath, size |-> 0, data |-> <<>>]
NoRequest == [sink |-> FALSE, recursive |-> FALSE, times |-> FALSE, dir |-> FALSE, target |-> <<>>]

ScpInit ==
    /\ spc = "idle" /\ request = NoRequest
    /\ dirs = <<>> /\ forced = NoPath /\ file = NoFile
    /\ lines = 0 /\ incomplete = FALSE
    /\ announced = 0 /\ stored = 0 /\ agenda = <<>> /\ sent = <<>> /\ status = "none"

\* The end of serve_scp: after an error a fatal message; then the exit status,
\* EOF and the close.
Finish(s) == spc' = "done" /\ status' = s

-----------------------------------------------------------------------------
(* The sink.                                                               *)

\* resolve_sink_target: the directory to store in and the file to store as.
\* A missing target is a file to create, or with -d a directory that is made.
SinkTarget(req) ==
    LET p == Lstat(fs, Root \o req.target)
        q == ResolveForCreate(fs, req.target)
    IN  CASE p # NoPath /\ Exists(fs, p) /\ UnderRoot(p) /\ Is(fs, p, "dir") ->
                [ok |-> TRUE, dir |-> p, forced |-> NoPath, made |-> NoPath]
          [] p # NoPath /\ UnderRoot(p) /\ Is(fs, p, "file") /\ ~req.dir ->
                [ok |-> TRUE, dir |-> Front(p), forced |-> p, made |-> NoPath]
          [] q # NoPath /\ ~Exists(fs, q) /\ req.dir ->
                [ok |-> TRUE, dir |-> q, forced |-> NoPath, made |-> q]
          [] q # NoPath /\ ~Exists(fs, q) /\ ~req.dir ->
                [ok |-> TRUE, dir |-> Front(q), forced |-> q, made |-> NoPath]
          [] OTHER -> [ok |-> FALSE, dir |-> NoPath, forced |-> NoPath, made |-> NoPath]

ServeSink(req) ==
    /\ spc = "idle" /\ req.sink
    /\ request' = req
    /\ LET t == SinkTarget(req)
       IN  IF t.ok
           THEN /\ spc' = "line" /\ dirs' = <<t.dir>> /\ forced' = t.forced
                /\ fs' = IF t.made = NoPath THEN fs ELSE Put(fs, t.made, Dir)
                /\ UNCHANGED status
           ELSE Finish("1") /\ UNCHANGED <<dirs, forced, fs>>
    /\ UNCHANGED <<disk, file, lines, incomplete, announced, stored, agenda, sent>>

\* parse_scp_request found no valid request.
ServeInvalid ==
    /\ spc = "idle"
    /\ Finish("1")
    /\ UNCHANGED <<request, fs, disk, dirs, forced, file, lines, incomplete, announced, stored, agenda, sent>>

\* read_line: the first bytes of a line, and the rest up to its newline.
BeginLine ==
    /\ spc = "line" /\ ~incomplete /\ lines < MaxLines
    /\ incomplete' = TRUE
    /\ UNCHANGED <<spc, request, fs, disk, dirs, forced, file, lines, announced, stored, agenda,
                   sent, status>>

ReadLine ==
    /\ spc = "line" /\ incomplete
    /\ incomplete' = FALSE /\ lines' = lines + 1

\* A T line is checked and acknowledged.
LineTimes ==
    /\ ReadLine
    /\ UNCHANGED <<spc, request, fs, disk, dirs, forced, file, announced, stored, agenda, sent,
                   status>>

\* child_relative and resolve_for_create, for a name in the open directory.
ChildPath(name) == ResolveForCreate(fs, Append(SubSeq(Last(dirs), Len(Root) + 1, Len(Last(dirs))), name))

LineDirectory(name) ==
    /\ ReadLine
    /\ forced = NoPath /\ request.recursive /\ Len(dirs) < MaxDepth
    /\ LET p == ChildPath(name)
       IN  /\ p # NoPath /\ ~Exists(fs, p)
           /\ fs' = Put(fs, p, Dir) /\ dirs' = Append(dirs, p)
    /\ UNCHANGED <<spc, request, disk, forced, file, announced, stored, agenda, sent, status>>

LineEnd ==
    /\ ReadLine
    /\ Len(dirs) > 1 /\ dirs' = Front(dirs)
    /\ UNCHANGED <<spc, request, fs, disk, forced, file, announced, stored, agenda, sent, status>>

\* A C line: the target's file, once, or a name in the open directory.
LineFile(name, size) ==
    /\ ReadLine
    /\ size <= MaxSize
    /\ LET p == IF forced # NoPath THEN forced ELSE ChildPath(name)
       IN  p # NoPath /\ file' = [path |-> p, size |-> size, data |-> <<>>]
    /\ forced' = NoPath /\ announced' = announced + 1
    /\ spc' = "data"
    /\ UNCHANGED <<request, fs, disk, dirs, stored, agenda, sent, status>>

\* read_exact, byte by byte.
ReadByte(b) ==
    /\ spc = "data" /\ Len(file.data) < file.size
    /\ file' = [file EXCEPT !.data = Append(@, b)]
    /\ UNCHANGED <<spc, request, fs, disk, dirs, forced, lines, incomplete, announced, stored, agenda, sent,
                   status>>

\* The client's acknowledgement of its own data, and only then the write.
StoreFile ==
    /\ spc = "data" /\ Len(file.data) = file.size
    /\ ~Is(fs, file.path, "dir")
    /\ LET at == Place(fs, disk, file.path)
       IN  fs' = Put(fs, file.path, File(at)) /\ disk' = Fill(disk, at, file.data)
    /\ file' = NoFile /\ stored' = stored + 1 /\ spc' = "line"
    /\ UNCHANGED <<request, dirs, forced, lines, incomplete, announced, agenda, sent, status>>

\* The write fails and leaves part of the file, or its permissions cannot be set.
StoreFails ==
    /\ spc = "data" /\ Len(file.data) = file.size
    /\ ~Is(fs, file.path, "dir")
    /\ LET at == Place(fs, disk, file.path)
       IN  /\ fs' = Put(fs, file.path, File(at))
           /\ \E n \in 0..file.size : disk' = Fill(disk, at, SubSeq(file.data, 1, n))
    /\ Finish("1")
    /\ UNCHANGED <<request, dirs, forced, file, lines, incomplete, announced, stored, agenda, sent>>

\* Mutant: the end of the input ends the transfer in the middle of a line too.
SinkEofInLine ==
    /\ spc = "line"
    /\ Len(dirs) = 1 /\ forced = NoPath
    /\ Finish("0")
    /\ UNCHANGED <<request, fs, disk, dirs, forced, file, lines, incomplete, announced, stored, agenda, sent>>

\* EOF or a close between two lines, when nothing is left open.
SinkEof ==
    /\ spc = "line" /\ ~incomplete
    /\ Len(dirs) = 1 /\ forced = NoPath
    /\ Finish("0")
    /\ UNCHANGED <<request, fs, disk, dirs, forced, file, lines, incomplete, announced, stored, agenda, sent>>

-----------------------------------------------------------------------------
(* The source.                                                             *)

\* send_entry's recursion as an agenda: entries to send and the E records
\* that close the directories.
Entry(path, name, depth) == [op |-> "entry", path |-> path, name |-> name, depth |-> depth]
Times(e) == [e EXCEPT !.op = "times"]
Header(e) == [e EXCEPT !.op = "header"]
Closing(e) == [e EXCEPT !.op = "end"]

\* The checks of send_entry: before the T record, and before the D or C record.
Admissible(e) == e.depth < MaxDepth /\ UnderRoot(e.path) /\ Exists(fs, e.path)
Sendable(e) ==
    IF fs[e.path].kind = "dir" THEN request.recursive ELSE Len(disk[fs[e.path].at]) <= MaxSize

\* The entries of a directory, sorted, each with its canonical path.
Listed(names) ==
    LET kept[i \in 0..Len(Entries)] ==
            IF i = 0 THEN <<>>
            ELSE IF Entries[i] \in names THEN Append(kept[i - 1], Entries[i]) ELSE kept[i - 1]
    IN  kept[Len(Entries)]

Inside(e) ==
    LET names == Listed(Names(fs, e.path))
    IN  [i \in DOMAIN names |->
            Entry(Canonical(fs, Append(e.path, names[i])), names[i], e.depth + 1)]

\* Mutant: the directory is closed before its entries are sent.
ExpandClosed(e) == <<Closing(e)>> \o Inside(e)

\* What follows the D record of a directory.
Expand(e) == Append(Inside(e), Closing(e))

\* An entry becomes its records: T with -p, then D or C, then the data or the
\* entries and E.  The agenda starts with the next record to send.
Records(a) ==
    IF a # <<>> /\ a[1].op = "entry"
    THEN (IF request.times THEN <<Times(a[1])>> ELSE <<>>) \o <<Header(a[1])>> \o Tail(a)
    ELSE a

ServeSource(req) ==
    /\ spc = "idle" /\ ~req.sink
    /\ request' = req
    /\ LET p == Canonical(fs, Root \o req.target)
       IN  IF p # NoPath /\ UnderRoot(p)
           THEN /\ spc' = "ready" /\ agenda' = <<Entry(p, Last(p), 0)>> /\ UNCHANGED status
           ELSE Finish("1") /\ UNCHANGED agenda
    /\ UNCHANGED <<fs, disk, dirs, forced, file, lines, incomplete, announced, stored, sent>>

\* The client's acknowledgement (of the request, then of each record) lets the
\* next record go: T, D, C with its data, or E.
SourceStep ==
    /\ spc = "ready"
    /\ LET a == Records(agenda)
           e == a[1]
       IN  /\ agenda # <<>>
           /\ agenda[1].op = "entry" => Admissible(agenda[1])
           /\ e.op = "header" => Sendable(e)
           /\ sent' = Append(sent, [op |-> IF e.op = "header" THEN fs[e.path].kind ELSE e.op,
                                    name |-> e.name, path |-> e.path])
           /\ agenda' = IF e.op = "header" /\ fs[e.path].kind = "dir"
                        THEN Expand(e) \o Tail(a) ELSE Tail(a)
    /\ UNCHANGED <<spc, request, fs, disk, dirs, forced, file, lines, incomplete, announced, stored, status>>

SourceEnds ==
    /\ spc = "ready" /\ agenda = <<>>
    /\ Finish("0")
    /\ UNCHANGED <<request, fs, disk, dirs, forced, file, lines, incomplete, announced, stored, agenda, sent>>

\* Every other line, byte or acknowledgement, the end of the input where it is
\* not expected, a deadline, and every failure of the file system that leaves
\* nothing behind.
Fail ==
    /\ spc \in {"line", "data", "ready"}
    /\ Finish("1")
    /\ UNCHANGED <<request, fs, disk, dirs, forced, file, lines, incomplete, announced, stored, agenda, sent>>

\* A sink does not look at -p, nor a source at -d.
Requests ==
    [sink : {TRUE}, recursive : BOOLEAN, times : {FALSE}, dir : BOOLEAN, target : Targets]
    \cup
    [sink : {FALSE}, recursive : BOOLEAN, times : BOOLEAN, dir : {FALSE}, target : Targets]

ScpNext ==
    \/ \E req \in Requests : ServeSink(req) \/ ServeSource(req)
    \/ ServeInvalid
    \/ BeginLine \/ LineTimes \/ LineEnd
    \/ \E name \in Offered :
        LineDirectory(name) \/ \E size \in 0..(MaxSize + 1) : LineFile(name, size)
    \/ \E b \in Bytes : ReadByte(b)
    \/ StoreFile \/ StoreFails \/ SinkEof \/ SourceStep \/ SourceEnds \/ Fail

-----------------------------------------------------------------------------
\* Status 0 from a sink: every file it let the client send is stored, every
\* directory the client opened is closed, a target that named a file was
\* written, and no line was cut short.
SinkOkMeansStored ==
    status = "0" /\ request.sink => /\ stored = announced /\ Len(dirs) = 1
                                    /\ forced = NoPath /\ ~incomplete

\* What a client makes of the records: D opens a directory, E leaves it, C is a
\* file in the open one.
NothingSeen == [at |-> <<>>, files |-> {}]
SeeRecord(view, r) ==
    CASE r.op = "dir" -> [view EXCEPT !.at = Append(@, r.name)]
      [] r.op = "end" -> [view EXCEPT !.at = IF @ = <<>> THEN @ ELSE Front(@)]
      [] r.op = "file" -> [view EXCEPT !.files = @ \cup {Append(view.at, r.name)}]
      [] OTHER -> view
Seen(records) ==
    LET view[i \in 0..Len(records)] ==
            IF i = 0 THEN NothingSeen ELSE SeeRecord(view[i - 1], records[i])
    IN  view[Len(records)]

\* Where names lead from a path, one after the other.
Enter(tree, p, name) == IF p = NoPath THEN NoPath ELSE Canonical(tree, Append(p, name))
Walk(tree, p, names) ==
    LET at[i \in 0..Len(names)] == IF i = 0 THEN p ELSE Enter(tree, at[i - 1], names[i])
    IN  at[Len(names)]

\* At most n names that lead from a path to a file.
Leading(tree, p, n) ==
    {names \in UNION {[1..k -> Range(Entries)] : k \in 0..n} : Is(tree, Walk(tree, p, names), "file")}

\* The files below the target, by the names that lead to them, down to the first
\* level that send_entry refuses.
FilesBelow(tree, target) ==
    {<<Last(target)>> \o names : names \in Leading(tree, target, MaxDepth)}

\* Status 0 from a source: the client has been sent exactly the files below the
\* target, each where it is in the tree, none was beyond the recursion depth, and
\* every directory was left again.
SourceOkMirrors ==
    status = "0" /\ ~request.sink =>
        /\ Seen(sent).at = <<>>
        /\ Seen(sent).files = FilesBelow(fs, Canonical(fs, Root \o request.target))

-----------------------------------------------------------------------------
\* What makes SinkOkMeansStored inductive: a sink is between two files or has
\* announced one more than it has stored, and only a source gets to "ready".
SinkCounts ==
    /\ spc \in {"idle", "line", "data", "ready", "done"}
    /\ announced \in Nat /\ stored \in Nat
    /\ spc \in {"line", "data"} => request.sink
    /\ spc = "ready" => ~request.sink
    /\ spc \in {"idle", "line"} => stored = announced
    /\ spc = "data" => announced = stored + 1
    /\ status = "0" => spc = "done"
=============================================================================
