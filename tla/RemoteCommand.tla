--------------------------- MODULE RemoteCommand ---------------------------
(***************************************************************************)
(* encode_posix_remote_command turns an argument vector into one line for  *)
(* the remote shell.  Here it meets two readers of such lines: a POSIX     *)
(* shell, and parse_shell_words of the hermetic server.  Characters are    *)
(* the ones a shell tells apart: the quotes ' and ", the backslash, the    *)
(* space, a newline, a dollar sign and a letter.                           *)
(***************************************************************************)
EXTENDS Naturals, Sequences, SequencesExt

CONSTANTS
    MaxWords,           \* bound: arguments
    MaxChars            \* bound: characters of all of them

VARIABLE argv

Quote == "'"
DoubleQuote == "\""
Backslash == "\\"
Space == " "
Newline == "\n"
Dollar == "$"
Characters == {Quote, DoubleQuote, Backslash, Space, Newline, Dollar, "a"}

\* A line taken from the left: the state after its last item.
Scan(Step(_, _), start, line) ==
    LET state[i \in 0..Len(line)] == IF i = 0 THEN start ELSE Step(state[i - 1], line[i])
    IN  state[Len(line)]

-----------------------------------------------------------------------------
(* The client.                                                             *)

\* Mutant: a quote is escaped where nothing can be escaped.
BackslashQuote(c) == IF c = Quote THEN <<Backslash, Quote>> ELSE <<c>>

\* A quote ends the quoted text, comes in double quotes, and begins it again.
QuoteCharacter(c) ==
    IF c = Quote THEN <<Quote, DoubleQuote, Quote, DoubleQuote, Quote>> ELSE <<c>>

AddQuoted(quoted, c) == quoted \o QuoteCharacter(c)
QuoteArgument(word) == Append(Scan(AddQuoted, <<Quote>>, word), Quote)

\* The quoted arguments, joined by spaces.
AddArgument(line, word) ==
    (IF line = <<>> THEN line ELSE Append(line, Space)) \o QuoteArgument(word)
EncodePosixRemoteCommand(arguments) == Scan(AddArgument, <<>>, arguments)

-----------------------------------------------------------------------------
(* parse_shell_words of the hermetic server.                               *)

NoWords == [words |-> <<>>, word |-> <<>>, quote |-> "none", escaped |-> FALSE]

EndWord(s) ==
    IF s.word = <<>> THEN s ELSE [s EXCEPT !.words = Append(@, s.word), !.word = <<>>]

ReadCharacter(s, c) ==
    CASE s.escaped -> [s EXCEPT !.word = Append(@, c), !.escaped = FALSE]
      [] ~s.escaped /\ c = Backslash /\ s.quote # Quote -> [s EXCEPT !.escaped = TRUE]
      [] ~s.escaped /\ c \in {Quote, DoubleQuote} /\ s.quote = c -> [s EXCEPT !.quote = "none"]
      [] ~s.escaped /\ c \in {Quote, DoubleQuote} /\ s.quote = "none" -> [s EXCEPT !.quote = c]
      [] ~s.escaped /\ c = Space /\ s.quote = "none" -> EndWord(s)
      [] OTHER -> [s EXCEPT !.word = Append(@, c)]

Unreadable == [error |-> TRUE, words |-> <<>>]

ParseShellWords(line) ==
    LET last == Scan(ReadCharacter, NoWords, line)
    IN  IF Dollar \in ToSet(line) \/ Newline \in ToSet(line) \/ last.escaped \/ last.quote # "none"
        THEN Unreadable
        ELSE [error |-> FALSE, words |-> EndWord(last).words]

-----------------------------------------------------------------------------
(* The remote shell: words may be empty if quoted, a newline or a dollar   *)
(* sign that is not quoted is more than a word, and in double quotes a     *)
(* backslash is one unless it stands before a special character.           *)

NoShellWords ==
    [words |-> <<>>, word |-> <<>>, inWord |-> FALSE, quote |-> "none", escaped |-> FALSE,
     plain |-> TRUE]

ShellEndWord(s) ==
    IF s.inWord THEN [s EXCEPT !.words = Append(@, s.word), !.word = <<>>, !.inWord = FALSE] ELSE s

ShellAdd(s, cs) == [s EXCEPT !.word = @ \o cs, !.inWord = TRUE, !.escaped = FALSE]

ShellRead(s, c) ==
    CASE s.quote = Quote -> IF c = Quote THEN [s EXCEPT !.quote = "none"] ELSE ShellAdd(s, <<c>>)
      [] s.quote = DoubleQuote /\ s.escaped ->
            ShellAdd(s, IF c \in {Dollar, DoubleQuote, Backslash} THEN <<c>> ELSE <<Backslash, c>>)
      [] s.quote = DoubleQuote /\ ~s.escaped ->
            CASE c = DoubleQuote -> [s EXCEPT !.quote = "none"]
              [] c = Backslash -> [s EXCEPT !.escaped = TRUE]
              [] c = Dollar -> [s EXCEPT !.plain = FALSE]
              [] OTHER -> ShellAdd(s, <<c>>)
      [] s.quote = "none" /\ s.escaped -> ShellAdd(s, <<c>>)
      [] OTHER ->
            CASE c \in {Quote, DoubleQuote} -> [s EXCEPT !.quote = c, !.inWord = TRUE]
              [] c = Backslash -> [s EXCEPT !.escaped = TRUE, !.inWord = TRUE]
              [] c = Space -> ShellEndWord(s)
              [] c \in {Newline, Dollar} -> [s EXCEPT !.plain = FALSE]
              [] OTHER -> ShellAdd(s, <<c>>)

PosixShell(line) == ShellEndWord(Scan(ShellRead, NoShellWords, line))

-----------------------------------------------------------------------------
(* Every argument vector within the bounds is typed at some point.         *)

CommandInit == argv = <<>>

Typed == FoldLeft(LAMBDA n, word : n + Len(word), 0, argv)

TypeWord == Len(argv) < MaxWords /\ argv' = Append(argv, <<>>)

TypeCharacter ==
    /\ argv # <<>> /\ Typed < MaxChars
    /\ \E c \in Characters : argv' = [argv EXCEPT ![Len(argv)] = Append(@, c)]

CommandNext == TypeWord \/ TypeCharacter

\* The arguments that are not empty.
KeepWord(words, word) == IF word = <<>> THEN words ELSE Append(words, word)
NotEmpty(words) == Scan(KeepWord, <<>>, words)

\* The remote shell reads from the line exactly the arguments, empty ones too,
\* with nothing expanded and no second command.  The server's parser reads the
\* arguments that are not empty, or refuses the line for a character it does
\* not take; it never reads anything else.
QuotingRoundTrip ==
    LET line  == EncodePosixRemoteCommand(argv)
        shell == PosixShell(line)
        read  == ParseShellWords(line)
    IN  /\ shell.words = argv /\ shell.plain /\ shell.quote = "none" /\ ~shell.escaped
        /\ read.error <=> \E i \in DOMAIN argv : ToSet(argv[i]) \cap {Dollar, Newline} # {}
        /\ ~read.error => read.words = NotEmpty(argv)
=============================================================================
