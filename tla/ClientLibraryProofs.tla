------------------------ MODULE ClientLibraryProofs ------------------------
(***************************************************************************)
(* Theorems about four parts of ClientLibrary: the process-wide runtime,   *)
(* for any number of threads and attempts; the sequential runner, for any  *)
(* sizes of input, output and buffer; the command line, for any arguments; *)
(* and the quoting of remote commands, for argument vectors of any length. *)
(***************************************************************************)
EXTENDS ClientLibrary, SequenceTheorems, WellFoundedInduction, TLAPS

-----------------------------------------------------------------------------
(* The process-wide runtime.                                               *)

LEMMA RuntimeStarts == Runtime!RuntimeInit => Runtime!RuntimeInv
BY ThreadsAssumption
DEF Runtime!RuntimeInit, Runtime!RuntimeInv, Runtime!OneRuntime, Runtime!Nobody

\* The lock keeps a second thread from building, and the second look from
\* building again.
LEMMA RuntimeKept ==
    ASSUME Runtime!RuntimeInv, Runtime!RuntimeNext
    PROVE  Runtime!RuntimeInv'
<1> USE ThreadsAssumption
    DEF Runtime!RuntimeInv, Runtime!OneRuntime, Runtime!Nobody, Runtime!At, Runtime!Go,
        Runtime!Answer, Runtime!Fail
<1>1. ASSUME NEW t \in Threads, Runtime!Call(t) PROVE Runtime!RuntimeInv'
  BY <1>1 DEF Runtime!Call
<1>2. ASSUME NEW t \in Threads, Runtime!Look(t) PROVE Runtime!RuntimeInv'
  BY <1>2 DEF Runtime!Look
<1>3. ASSUME NEW t \in Threads, Runtime!Lock(t) PROVE Runtime!RuntimeInv'
  BY <1>3 DEF Runtime!Lock
<1>4. ASSUME NEW t \in Threads, Runtime!LookAgain(t) PROVE Runtime!RuntimeInv'
  BY <1>4 DEF Runtime!LookAgain
<1>5. ASSUME NEW t \in Threads, Runtime!Build(t) PROVE Runtime!RuntimeInv'
  BY <1>5 DEF Runtime!Build
<1>6. ASSUME NEW t \in Threads, Runtime!Set(t) PROVE Runtime!RuntimeInv'
  BY <1>6 DEF Runtime!Set
<1> QED BY <1>1, <1>2, <1>3, <1>4, <1>5, <1>6 DEF Runtime!RuntimeNext

LEMMA RuntimeStutters ==
    ASSUME Runtime!RuntimeInv, UNCHANGED runtimeVars
    PROVE  Runtime!RuntimeInv'
BY DEF runtimeVars, Runtime!RuntimeInv, Runtime!OneRuntime

-----------------------------------------------------------------------------
(* The sequential runner.                                                  *)

\* The first n of the numbered bytes.
Numbered(n) == [i \in 1..n |-> i]

\* The next bytes of the buffer continue what was received.
LEMMA NumberedAppended ==
    ASSUME NEW base \in Nat, NEW b \in Seq(Nat), NEW w \in Nat, NEW n \in 1..(Len(b) - w),
           NEW r \in Seq(Nat), Len(r) = base + w, r = Numbered(base + w),
           \A i \in 1..Len(b) : b[i] = base + i
    PROVE  /\ r \o SubSeq(b, w + 1, w + n) = Numbered(base + (w + n))
           /\ r \o SubSeq(b, w + 1, w + n) \in Seq(Nat)
           /\ Len(r \o SubSeq(b, w + 1, w + n)) = base + (w + n)
<1> DEFINE m == Len(b)
           s == SubSeq(b, w + 1, w + n)
           q == r \o s
<1>1. m \in Nat /\ n \in Nat /\ w + n <= m
  BY LenProperties
<1>2. s \in Seq(Nat) /\ Len(s) = n /\ \A i \in 1..n : s[i] = b[w + i]
  <2>1. w + 1 \in 1..(m + 1) /\ w + n \in (w + 1) - 1..m /\ ((w + n) - (w + 1)) + 1 = n
    BY <1>1
  <2>2. \A i \in 1..n : ((w + 1) + i) - 1 = w + i
    BY <1>1
  <2>3. /\ s \in Seq(Nat) /\ Len(s) = ((w + n) - (w + 1)) + 1
        /\ \A i \in 1..(((w + n) - (w + 1)) + 1) : s[i] = b[((w + 1) + i) - 1]
    BY <2>1, SubSeqProperties
  <2> QED BY <2>1, <2>2, <2>3
<1>3. \A i \in 1..n : s[i] = base + (w + i)
  BY <1>1, <1>2
<1>4. /\ q \in Seq(Nat) /\ Len(q) = (base + w) + n
      /\ \A i \in 1..((base + w) + n) : q[i] = IF i <= base + w THEN r[i] ELSE s[i - (base + w)]
  <2> HIDE DEF s
  <2>1. /\ q \in Seq(Nat) /\ Len(q) = Len(r) + Len(s)
        /\ \A i \in 1..(Len(r) + Len(s)) : q[i] = IF i <= Len(r) THEN r[i] ELSE s[i - Len(r)]
    BY <1>2, ConcatProperties
  <2>2. Len(r) = base + w /\ Len(s) = n
    BY <1>2
  <2> HIDE DEF q
  <2> QED BY <2>1, <2>2, Zenon
<1>5. \A i \in 1..(base + w) : r[i] = i
  BY DEF Numbered
<1> HIDE DEF m, s, q
<1>6. (base + w) + n = base + (w + n)
  BY <1>1
<1>7. \A i \in 1..(base + (w + n)) : q[i] = i
  <2> SUFFICES ASSUME NEW i \in 1..(base + (w + n)) PROVE q[i] = i
    OBVIOUS
  <2>1. CASE i <= base + w
    <3>1. i \in 1..(base + w) /\ i \in 1..((base + w) + n)
      BY <2>1, <1>1
    <3> QED BY <2>1, <3>1, <1>4, <1>5
  <2>2. CASE ~(i <= base + w)
    <3>1. i - (base + w) \in 1..n
      BY <2>2, <1>1
    <3>2. q[i] = s[i - (base + w)]
      BY <2>2, <1>4, <1>6
    <3> QED BY <3>1, <3>2, <1>1, <1>3
  <2> QED BY <2>1, <2>2
<1>8. q = [i \in 1..(base + (w + n)) |-> q[i]]
  <2>1. DOMAIN q = 1..(base + (w + n))
    BY <1>4, <1>6, LenProperties
  <2>2. q = [i \in DOMAIN q |-> q[i]]
    BY <1>4
  <2> QED BY <2>1, <2>2
<1>9. q = Numbered(base + (w + n))
  BY <1>7, <1>8 DEF Numbered
<1> QED BY <1>4, <1>6, <1>9 DEF q, s

LEMMA LegacyStarts == Legacy!LegacyInit => Legacy!LegacyInv
<1> SUFFICES ASSUME Legacy!LegacyInit PROVE Legacy!LegacyInv
  OBVIOUS
<1>1. received = <<>> /\ Len(received) = 0 /\ received \in Seq(Nat) /\ buffer \in Seq(Nat)
  BY EmptySeq DEF Legacy!LegacyInit
<1>2. received = [i \in 1..Len(received) |-> i]
  <2>1. 1..0 = {}
    OBVIOUS
  <2> QED BY <1>1
<1>3. /\ given = 0 /\ written = 0 /\ served = 0 /\ shown = 0
      /\ lpc = "connect" /\ verdict = ""
  BY DEF Legacy!LegacyInit
<1> QED BY <1>1, <1>2, <1>3 DEF Legacy!LegacyInv, Legacy!LegacyOkMeansAll

\* The parts of the invariant.
LEMMA LegacyTypes ==
    Legacy!LegacyInv => /\ given \in Nat /\ written \in Nat /\ served \in Nat /\ shown \in Nat
                        /\ buffer \in Seq(Nat) /\ received \in Seq(Nat)
                        /\ received = Numbered(Len(received))
                        /\ Len(received) \in Nat /\ Len(buffer) \in Nat
BY LenProperties DEF Legacy!LegacyInv, Legacy!LegacyOkMeansAll, Numbered

\* The buffer holds the last bytes that were read.
LastRead == buffer = [i \in 1..Len(buffer) |-> (given - Len(buffer)) + i]

\* What is left of the invariant once the bytes are typed and numbered.
LegacyProgress ==
    /\ served > 0 => Len(received) = given
    /\ verdict = "ok" => Len(received) = given /\ shown = served /\ legacyClosed
    /\ lpc = "write" =>
        /\ Len(buffer) <= given /\ written < Len(buffer)
        /\ Len(received) = (given - Len(buffer)) + written
    /\ lpc \notin {"write", "returned"} => Len(received) = given
    /\ lpc \in {"connect", "read_input", "write"} => served = 0
    /\ lpc \notin {"show", "returned"} => shown = served
    /\ lpc = "show" => shown <= served
    /\ lpc # "returned" => verdict = ""

LEMMA LegacyProgresses == Legacy!LegacyInv => LegacyProgress /\ (lpc = "write" => LastRead)
BY DEF Legacy!LegacyInv, Legacy!LegacyOkMeansAll, LegacyProgress, LastRead

LEMMA LegacyComposed ==
    ASSUME given' \in Nat, written' \in Nat, served' \in Nat, shown' \in Nat,
           buffer' \in Seq(Nat), received' \in Seq(Nat),
           received' = Numbered(Len(received)'), LegacyProgress', lpc' = "write" => LastRead'
    PROVE  Legacy!LegacyInv'
BY DEF Legacy!LegacyInv, Legacy!LegacyOkMeansAll, LegacyProgress, LastRead, Numbered

\* A step that neither reads nor writes input only has to keep the progress.
LEMMA LegacyInputSame ==
    ASSUME Legacy!LegacyInv, UNCHANGED <<given, buffer, written, received>>,
           served' \in Nat, shown' \in Nat, LegacyProgress', lpc' = "write" => lpc = "write"
    PROVE  Legacy!LegacyInv'
<1>1. Len(received)' = Len(received)
  OBVIOUS
<1>2. lpc' = "write" => LastRead'
  BY LegacyProgresses DEF LastRead
<1> QED BY <1>1, <1>2, LegacyTypes, LegacyComposed

LEMMA ZeroNotPositive ==
    ASSUME NEW x, x = 0 PROVE ~(x > 0)
OBVIOUS

\* The progress of a step that goes on writing, and of one that goes back to read.
LEMMA WritingProgress ==
    ASSUME lpc' = "write", served' = 0, shown' = 0, verdict' = "",
           (Len(buffer) <= given)', (written < Len(buffer))',
           (Len(received) = (given - Len(buffer)) + written)',
           given' \in Nat, written' \in Nat, Len(buffer)' \in Nat, Len(received)' \in Nat
    PROVE  LegacyProgress'
<1>1. ~(served > 0)' /\ shown' = served'
  BY ZeroNotPositive, Zenon
<1>2. verdict' # "ok" /\ lpc' \in {"connect", "read_input", "write"} /\ lpc' # "show"
      /\ lpc' # "returned"
  OBVIOUS
<1>3. (lpc \notin {"write", "returned"} => Len(received) = given)'
  OBVIOUS
<1>4. /\ (Len(buffer) <= given /\ written < Len(buffer))'
      /\ (Len(received) = (given - Len(buffer)) + written)'
  OBVIOUS
<1> QED BY <1>1, <1>2, <1>3, <1>4, Zenon DEF LegacyProgress

LEMMA ReadingProgress ==
    ASSUME lpc' = "read_input", served' = 0, shown' = 0, verdict' = "", (Len(received) = given)'
    PROVE  LegacyProgress'
BY DEF LegacyProgress

LEMMA LegacyKept ==
    ASSUME Legacy!LegacyInv, Legacy!LegacyNext
    PROVE  Legacy!LegacyInv'
<1>1. CASE Legacy!LegacyConnect
  <2>1. LegacyProgress'
    BY <1>1, LegacyProgresses DEF Legacy!LegacyConnect, LegacyProgress, Legacy!Give
  <2> QED BY <1>1, <2>1, LegacyTypes, LegacyInputSame DEF Legacy!LegacyConnect, Legacy!Give
<1>2. CASE Legacy!ReadInput
  <2>1. ASSUME NEW n \in 1..BufferSize, given' = given + n,
               buffer' = [i \in 1..n |-> given + i], written' = 0, lpc = "read_input",
               lpc' = "write", UNCHANGED <<verdict, received, served, shown, legacyClosed>>
        PROVE  Legacy!LegacyInv'
    <3>1. n \in Nat /\ n > 0
      BY BufferAssumption
    <3>2. buffer' \in Seq(Nat) /\ Len(buffer') = n
      <4>1. \A i \in 1..n : given + i \in Nat
        BY <3>1, LegacyTypes
      <4> QED BY <2>1, <3>1, <4>1
    <3>3. Len(received) = given
      BY <2>1, LegacyProgresses DEF LegacyProgress
    <3>4. LastRead'
      <4>1. (given + n) - n = given
        BY <3>1, LegacyTypes
      <4> QED BY <2>1, <3>2, <4>1 DEF LastRead
    <3>5. Len(received)' = Len(received) /\ given' = given + n /\ written' = 0 /\ lpc' = "write"
      BY <2>1
    <3>6. served' = 0 /\ shown' = 0 /\ verdict' = ""
      BY <2>1, LegacyProgresses DEF LegacyProgress
    <3>7. LegacyProgress'
      <4>1. given \in Nat /\ n <= given + n /\ given = ((given + n) - n) + 0
        BY <3>1, LegacyTypes
      <4>2. (Len(buffer) <= given)' /\ (written < Len(buffer))'
        BY <3>1, <3>2, <3>5, <4>1
      <4>3. (Len(received) = (given - Len(buffer)) + written)'
        BY <3>2, <3>3, <3>5, <4>1
      <4>4. given' \in Nat /\ written' \in Nat /\ Len(buffer)' \in Nat /\ Len(received)' \in Nat
        BY <3>1, <3>2, <3>5, LegacyTypes
      <4> QED BY <3>5, <3>6, <4>2, <4>3, <4>4, WritingProgress
    <3> QED BY <2>1, <3>1, <3>2, <3>4, <3>7, LegacyTypes, LegacyComposed
  <2>2. CASE UNCHANGED <<given, buffer, written>>
    <3>1. lpc = "read_input" /\ UNCHANGED <<received, served, shown, legacyClosed>>
      BY <1>2 DEF Legacy!ReadInput
    <3>2. CASE lpc' = "read_output" /\ verdict' = verdict
      <4>1. LegacyProgress'
        BY <3>1, <3>2, <2>2, LegacyProgresses DEF LegacyProgress
      <4> QED BY <4>1, <3>1, <3>2, <2>2, LegacyTypes, LegacyInputSame
    <3>3. CASE lpc' = "returned" /\ verdict' = "input_failed"
      <4>1. LegacyProgress'
        BY <3>1, <3>3, <2>2, LegacyProgresses DEF LegacyProgress
      <4> QED BY <4>1, <3>1, <3>3, <2>2, LegacyTypes, LegacyInputSame
    <3> QED BY <1>2, <2>1, <3>2, <3>3 DEF Legacy!ReadInput, Legacy!Give
  <2> QED BY <1>2, <2>1, <2>2 DEF Legacy!ReadInput
<1>3. CASE Legacy!Write
  <2> DEFINE L == given - Len(buffer)
  <2>1. ASSUME NEW n \in 1..(Len(buffer) - written),
               received' = received \o SubSeq(buffer, written + 1, written + n),
               written' = written + n,
               lpc' = (IF written + n < Len(buffer) THEN "write" ELSE "read_input"),
               lpc = "write", UNCHANGED <<verdict, given, buffer, served, shown, legacyClosed>>
        PROVE  Legacy!LegacyInv'
    <3>1. /\ Len(buffer) <= given /\ written < Len(buffer) /\ Len(received) = L + written
          /\ buffer = [i \in 1..Len(buffer) |-> L + i]
      BY <2>1, LegacyProgresses DEF LegacyProgress, LastRead
    <3>2. L \in Nat /\ n \in Nat /\ written + n <= Len(buffer) /\ written + n \in Nat
      BY <3>1, LegacyTypes
    <3>3. received = Numbered(L + written)
      BY <3>1, LegacyTypes
    <3>4. buffer \in Seq(Nat) /\ received \in Seq(Nat) /\ written \in Nat
      BY LegacyTypes
    <3> HIDE DEF L
    <3>10. \A i \in 1..Len(buffer) : buffer[i] = L + i
      BY <3>1
    <3>5. /\ received' = Numbered(L + (written + n)) /\ received' \in Seq(Nat)
          /\ Len(received') = L + (written + n)
      <4>1. n \in 1..(Len(buffer) - written)
        BY <2>1
      <4>2. /\ received \o SubSeq(buffer, written + 1, written + n) = Numbered(L + (written + n))
            /\ received \o SubSeq(buffer, written + 1, written + n) \in Seq(Nat)
            /\ Len(received \o SubSeq(buffer, written + 1, written + n)) = L + (written + n)
        <5>1. L \in Nat /\ Len(received) = L + written
          BY <3>1, <3>2, Zenon
        <5> QED BY ONLY <3>3, <3>4, <3>10, <4>1, <5>1, NumberedAppended, ZenonT(60)
      <4> QED BY <2>1, <4>2
    <3>6. /\ Len(buffer)' = Len(buffer) /\ given' = given /\ served' = 0 /\ shown' = 0
          /\ verdict' = "" /\ LastRead'
      BY <2>1, LegacyProgresses DEF LegacyProgress, LastRead
    <3>7. written + n < Len(buffer) \/ L + (written + n) = given
      <4>1. given \in Nat /\ Len(buffer) \in Nat /\ L = given - Len(buffer)
        BY LegacyTypes DEF L
      <4> QED BY ONLY <3>2, <4>1
    <3>8. /\ Len(received)' = L + (written + n) /\ L = given - Len(buffer)
          /\ lpc' = (IF written + n < Len(buffer) THEN "write" ELSE "read_input")
          /\ written' = written + n
      BY <2>1, <3>5 DEF L
    <3>9. LegacyProgress'
      <4>1. CASE written + n < Len(buffer)
        <5>1. (Len(buffer) <= given)' /\ (written < Len(buffer))'
          BY <3>1, <3>6, <3>8, <4>1
        <5>2. (Len(received) = (given - Len(buffer)) + written)'
          BY <3>6, <3>8
        <5>3. given' \in Nat /\ written' \in Nat /\ Len(buffer)' \in Nat /\ Len(received)' \in Nat
          <6>1. given \in Nat /\ Len(buffer) \in Nat
            BY LegacyTypes
          <6>2. L + (written + n) \in Nat
            BY ONLY <3>2
          <6> QED BY <3>2, <3>6, <3>8, <6>1, <6>2
        <5> QED BY <3>6, <3>8, <4>1, <5>1, <5>2, <5>3, WritingProgress
      <4>2. CASE ~(written + n < Len(buffer))
        <5>1. (Len(received) = given)'
          BY <3>6, <3>7, <3>8, <4>2
        <5> QED BY <3>6, <3>8, <4>2, <5>1, ReadingProgress
      <4> QED BY <4>1, <4>2
    <3> QED BY <2>1, <3>2, <3>5, <3>6, <3>9, LegacyTypes, LegacyComposed
  <2>2. CASE /\ UNCHANGED <<received, written>>
             /\ lpc' = "returned" /\ verdict' \in {"zero_write", "write_failed"}
    <3>1. lpc = "write" /\ UNCHANGED <<given, buffer, served, shown, legacyClosed>>
      BY <1>3 DEF Legacy!Write
    <3>2. LegacyProgress'
      BY <2>2, <3>1, LegacyProgresses DEF LegacyProgress
    <3> QED BY <2>2, <3>1, <3>2, LegacyTypes, LegacyInputSame
  <2> QED BY <1>3, <2>1, <2>2 DEF Legacy!Write, Legacy!Give
<1>4. CASE Legacy!ReadOutput
  <2>0. lpc = "read_output" /\ shown = served
    BY <1>4, LegacyProgresses DEF Legacy!ReadOutput, LegacyProgress
  <2>1. served' \in Nat /\ served' >= shown
    <3>1. ASSUME NEW n \in 1..BufferSize, served' = served + n
          PROVE  served' \in Nat /\ served' >= shown
      BY <3>1, <2>0, BufferAssumption, LegacyTypes
    <3> QED BY <1>4, <2>0, <3>1, LegacyTypes DEF Legacy!ReadOutput
  <2>2. LegacyProgress'
    BY <1>4, <2>1, LegacyProgresses, LegacyTypes DEF Legacy!ReadOutput, LegacyProgress, Legacy!Give
  <2> QED BY <1>4, <2>1, <2>2, LegacyTypes, LegacyInputSame DEF Legacy!ReadOutput, Legacy!Give
<1>5. CASE Legacy!Show
  <2>1. shown' \in Nat
    BY <1>5, LegacyTypes DEF Legacy!Show
  <2>2. LegacyProgress'
    BY <1>5, <2>1, LegacyProgresses, LegacyTypes DEF Legacy!Show, LegacyProgress, Legacy!Give
  <2> QED BY <1>5, <2>1, <2>2, LegacyTypes, LegacyInputSame DEF Legacy!Show, Legacy!Give
<1>6. CASE Legacy!LegacyClose
  <2>1. LegacyProgress'
    BY <1>6, LegacyProgresses DEF Legacy!LegacyClose, LegacyProgress, Legacy!Give
  <2> QED BY <1>6, <2>1, LegacyTypes, LegacyInputSame DEF Legacy!LegacyClose, Legacy!Give
<1> QED BY <1>1, <1>2, <1>3, <1>4, <1>5, <1>6 DEF Legacy!LegacyNext

LEMMA LegacyStutters ==
    ASSUME Legacy!LegacyInv, UNCHANGED legacyVars
    PROVE  Legacy!LegacyInv'
<1>1. LegacyProgress'
  BY LegacyProgresses DEF legacyVars, LegacyProgress, LastRead
<1> QED BY <1>1, LegacyTypes, LegacyInputSame DEF legacyVars

-----------------------------------------------------------------------------
(* The command line.                                                       *)

LEMMA Largest ==
    ASSUME NEW S \in SUBSET Nat, NEW m \in S, \A j \in S : j <= m
    PROVE  (CHOOSE i \in S : \A j \in S : j <= i) = m
<1>1. \A i \in S : (\A j \in S : j <= i) => i = m
  OBVIOUS
<1> QED BY <1>1

\* An option parsed last is the one that counts, and one of another kind
\* changes nothing.
LEMMA LastGivenNew ==
    ASSUME NEW o, NEW d, NEW options \in SUBSET (1..(at - 1)), at \in Nat, args[at] = o
    PROVE  Cli!LastGiven(options \cup {at}, o, d) = args[at + 1]
<1> DEFINE its == {i \in options \cup {at} : args[i] = o}
<1>1. its \in SUBSET Nat /\ at \in its /\ \A j \in its : j <= at
  <2>1. \A j \in options \cup {at} : j \in Nat /\ j <= at
    OBVIOUS
  <2> QED BY <2>1, Zenon
<1>2. Cli!LastGiven(options \cup {at}, o, d)
      = IF its = {} THEN d ELSE args[1 + CHOOSE i \in its : \A j \in its : j <= i]
  BY DEF Cli!LastGiven
<1> HIDE DEF its
<1>3. (CHOOSE i \in its : \A j \in its : j <= i) = at
  BY <1>1, Largest
<1>4. 1 + at = at + 1
  OBVIOUS
<1> QED BY <1>1, <1>2, <1>3, <1>4

LEMMA LastGivenOther ==
    ASSUME NEW o, NEW d, NEW options, args[at] # o
    PROVE  Cli!LastGiven(options \cup {at}, o, d) = Cli!LastGiven(options, o, d)
<1> DEFINE A == {i \in options \cup {at} : args[i] = o}
           B == {i \in options : args[i] = o}
<1>1. A = B
  OBVIOUS
<1>2. Cli!LastGiven(options \cup {at}, o, d)
      = IF A = {} THEN d ELSE args[1 + CHOOSE i \in A : \A j \in A : j <= i]
  BY Zenon DEF Cli!LastGiven
<1>3. Cli!LastGiven(options, o, d)
      = IF B = {} THEN d ELSE args[1 + CHOOSE i \in B : \A j \in B : j <= i]
  BY Zenon DEF Cli!LastGiven
<1> HIDE DEF A, B
<1> QED BY <1>1, <1>2, <1>3

\* The options parsed so far and the one parsed now stand side by side.
LEMMA PlacedNext ==
    ASSUME NEW options, Cli!Placed(options, at)
    PROVE  Cli!Placed(options \cup {at}, at + Cli!Width(args[at]))
BY Zenon DEF Cli!Placed

LEMMA OptionsNext ==
    ASSUME NEW options \in SUBSET (1..(at - 1)), at \in Nat \ {0}, NEW w \in {1, 2}
    PROVE  options \cup {at} \in SUBSET (1..((at + w) - 1))
OBVIOUS

LEMMA CommandLineStarts == Cli!CommandLineInit => Cli!CommandLineInv
BY EmptySeq DEF Cli!CommandLineInit, Cli!CommandLineInv, Cli!ExitCodeTruthful

\* What positions say only depends on the arguments.
LEMMA GivenSame ==
    ASSUME args' = args, NEW options, NEW d
    PROVE  /\ Cli!PortGiven(options)' = Cli!PortGiven(options)
           /\ Cli!HostsGiven(options, d)' = Cli!HostsGiven(options, d)
           /\ Cli!AuthGiven(options)' = Cli!AuthGiven(options)
<1>1. ASSUME NEW o, NEW e
      PROVE  Cli!LastGiven(options, o, e)' = Cli!LastGiven(options, o, e)
  BY DEF Cli!LastGiven
<1> QED BY <1>1 DEF Cli!PortGiven, Cli!HostsGiven, Cli!AuthGiven

LEMMA PlacedSame ==
    ASSUME args' = args, NEW options, NEW d
    PROVE  /\ Cli!Placed(options, d)' <=> Cli!Placed(options, d)
           /\ Cli!OneAuth(options)' <=> Cli!OneAuth(options)
BY DEF Cli!Placed, Cli!OneAuth, Cli!Width

LEMMA AsTypedSame ==
    ASSUME args' = args, NEW r PROVE Cli!AsTyped(r)' <=> Cli!AsTyped(r)
BY GivenSame, PlacedSame DEF Cli!AsTyped

\* A request that was made stays what was typed, and a command that has not
\* run yet has nothing to answer for.
LEMMA TypedSame ==
    ASSUME UNCHANGED <<args, connectRequest>>, connectRequest # <<>> => Cli!AsTyped(connectRequest[1])
    PROVE  (connectRequest # <<>> => Cli!AsTyped(connectRequest[1]))'
BY AsTypedSame

LEMMA ParsedSame ==
    ASSUME UNCHANGED <<args, at, port, hostsFile, auth, authSelected, home>>, Cli!ParsedSoFar
    PROVE  Cli!ParsedSoFar'
<1>1. PICK options \in SUBSET (1..(at - 1)) :
          /\ Cli!Placed(options, at) /\ Cli!OneAuth(options)
          /\ port = Cli!PortGiven(options)
          /\ hostsFile = Cli!HostsGiven(options, IF home THEN "home" ELSE "none")
          /\ auth = Cli!AuthGiven(options)
          /\ authSelected <=> \E i \in options : args[i] \in {"-i", "--password"}
  BY DEF Cli!ParsedSoFar
<1>2. PICK h, a : h = (IF home THEN "home" ELSE "none") /\ a = at
  OBVIOUS
<1>3. Cli!Placed(options, a)' /\ Cli!OneAuth(options)'
  BY <1>1, <1>2, PlacedSame
<1>4. /\ port' = Cli!PortGiven(options)' /\ auth' = Cli!AuthGiven(options)'
      /\ hostsFile' = Cli!HostsGiven(options, h)'
  BY <1>1, <1>2, GivenSame
<1>5. (hostsFile = Cli!HostsGiven(options, IF home THEN "home" ELSE "none"))'
  BY <1>2, <1>4 DEF Cli!HostsGiven, Cli!LastGiven
<1>6. Cli!Placed(options, at)' /\ options \in SUBSET (1..(at' - 1))
  BY <1>2, <1>3 DEF Cli!Placed
<1>7. authSelected' <=> \E i \in options : args'[i] \in {"-i", "--password"}
  BY <1>1
<1> QED BY <1>3, <1>4, <1>5, <1>6, <1>7 DEF Cli!ParsedSoFar

LEMMA NotEndedYet ==
    ASSUME remote' = <<>>, cpc' # "exited" \/ code' = 255,
           (connectRequest # <<>> => Cli!AsTyped(connectRequest[1]))'
    PROVE  Cli!ExitCodeTruthful'
BY DEF Cli!ExitCodeTruthful

\* Giving up before the session.
LEMMA GaveUp ==
    ASSUME Cli!CommandLineInv, cpc # "exited", cpc' = "exited", code' = 255, at' = at,
           UNCHANGED <<args, connectRequest, remote>>
    PROVE  Cli!CommandLineInv'
<1>1. remote' = <<>>
  BY DEF Cli!CommandLineInv
<1>2. Cli!ExitCodeTruthful'
  BY <1>1, TypedSame, NotEndedYet DEF Cli!CommandLineInv, Cli!ExitCodeTruthful
<1> QED BY <1>1, <1>2 DEF Cli!CommandLineInv

\* An option was parsed.
LEMMA ParsedOne ==
    ASSUME Cli!CommandLineInv, cpc = "parse", cpc' = "parse", Cli!ParsedSoFar',
           at' \in Nat \ {0}, UNCHANGED <<args, connectRequest, remote>>
    PROVE  Cli!CommandLineInv'
<1>1. remote' = <<>> /\ connectRequest' = <<>>
  BY DEF Cli!CommandLineInv
<1>2. Cli!ExitCodeTruthful'
  BY <1>1, NotEndedYet
<1> QED BY <1>1, <1>2 DEF Cli!CommandLineInv

LEMMA TypeArgumentKeeps ==
    ASSUME Cli!CommandLineInv, Cli!TypeArgument PROVE Cli!CommandLineInv'
<1>1. PICK a \in Arguments : args' = Append(args, a)
  BY DEF Cli!TypeArgument
<1>2. args' \in Seq(Arguments)
  BY <1>1, AppendProperties DEF Cli!CommandLineInv
<1>3. remote' = <<>> /\ connectRequest' = <<>> /\ cpc' = "typing" /\ cpc = "typing"
  BY DEF Cli!CommandLineInv, Cli!TypeArgument
<1>4. Cli!ExitCodeTruthful'
  BY <1>3, NotEndedYet
<1> QED BY <1>2, <1>3, <1>4 DEF Cli!CommandLineInv, Cli!TypeArgument, Cli!parsed

LEMMA StartKeeps ==
    ASSUME Cli!CommandLineInv, Cli!Start PROVE Cli!CommandLineInv'
<1>1. /\ cpc = "typing" /\ remote' = <<>> /\ connectRequest' = <<>> /\ at' = 1 /\ args' = args
      /\ args \in Seq(Arguments)
  BY DEF Cli!CommandLineInv, Cli!Start
<1>2. CASE args \in Cli!Help /\ Cli!Exit(0)
  <2>1. cpc' = "exited" /\ code' = 0
    BY <1>2 DEF Cli!Exit
  <2>2. Cli!ExitCodeTruthful'
    BY <1>1, <1>2, <2>1 DEF Cli!ExitCodeTruthful, Cli!Help
  <2> QED BY <1>1, <2>1, <2>2 DEF Cli!CommandLineInv
<1>3. CASE cpc' = "parse" /\ hostsFile' = IF home THEN "home" ELSE "none"
  <2>1. UNCHANGED <<home, port, auth, authSelected>> /\ port = 22 /\ auth = "agent" /\ ~authSelected
    BY <1>1 DEF Cli!CommandLineInv, Cli!Start
  <2>2. /\ Cli!Placed({}, 1)' /\ Cli!OneAuth({})'
    BY DEF Cli!Placed, Cli!OneAuth
  <2>3. Cli!PortGiven({})' = 22 /\ Cli!AuthGiven({})' = "agent"
    BY DEF Cli!PortGiven, Cli!AuthGiven, Cli!LastGiven
  <2>4. ASSUME NEW d PROVE Cli!HostsGiven({}, d)' = d
    BY DEF Cli!HostsGiven, Cli!LastGiven
  <2>5. Cli!ParsedSoFar'
    <3>1. {} \in SUBSET (1..(at' - 1))
      OBVIOUS
    <3> QED BY <1>1, <1>3, <2>1, <2>2, <2>3, <2>4, <3>1 DEF Cli!ParsedSoFar
  <2>6. Cli!ExitCodeTruthful'
    BY <1>1, <1>3, NotEndedYet
  <2> QED BY <1>1, <1>3, <2>5, <2>6 DEF Cli!CommandLineInv
<1> QED BY <1>2, <1>3 DEF Cli!Start

\* An option that says what the parser then knows.
LEMMA OptionParsed ==
    ASSUME Cli!CommandLineInv, cpc = "parse", cpc' = "parse",
           UNCHANGED <<args, home, connectRequest, remote>>, at \in Nat \ {0},
           NEW options \in SUBSET (1..(at - 1)), Cli!Placed(options, at),
           at' = at + Cli!Width(args[at]), Cli!OneAuth(options \cup {at}),
           port' = Cli!PortGiven(options \cup {at}),
           hostsFile' = Cli!HostsGiven(options \cup {at}, IF home THEN "home" ELSE "none"),
           auth' = Cli!AuthGiven(options \cup {at}),
           authSelected' <=> \E i \in options \cup {at} : args[i] \in {"-i", "--password"}
    PROVE  Cli!CommandLineInv'
<1> DEFINE next == options \cup {at}
           none == IF home THEN "home" ELSE "none"
<1>1. Cli!Width(args[at]) \in {1, 2} /\ at' \in Nat \ {0}
  BY DEF Cli!Width
<1>2. next \in SUBSET (1..(at' - 1))
  BY <1>1, OptionsNext
<1>3. Cli!Placed(next, at')
  BY PlacedNext
<1>4. PICK n : n = next
  OBVIOUS
<1>5. PICK a : a = at'
  OBVIOUS
<1> HIDE DEF next
<1>6. Cli!Placed(n, a)' /\ Cli!OneAuth(n)'
  BY <1>3, <1>4, <1>5, PlacedSame DEF next
<1>7. /\ port' = Cli!PortGiven(n)' /\ auth' = Cli!AuthGiven(n)'
  BY <1>4, GivenSame DEF next
<1>8. (hostsFile = Cli!HostsGiven(n, IF home THEN "home" ELSE "none"))'
  <2>1. PICK h : h = none
    OBVIOUS
  <2>2. hostsFile' = Cli!HostsGiven(n, h)'
    BY <1>4, <2>1, GivenSame DEF next
  <2> QED BY <2>1, <2>2 DEF Cli!HostsGiven, Cli!LastGiven
<1>9. authSelected' <=> \E i \in n : args'[i] \in {"-i", "--password"}
  BY <1>4 DEF next
<1>10. Cli!ParsedSoFar'
  <2>1. Cli!Placed(n, at)' /\ n \in SUBSET (1..(at' - 1))
    BY <1>2, <1>4, <1>5, <1>6 DEF Cli!Placed
  <2> QED BY <1>6, <1>7, <1>8, <1>9, <2>1 DEF Cli!ParsedSoFar
<1> QED BY <1>1, <1>10, ParsedOne

\* An option of another kind says nothing about the port, the file or the
\* authentication.
LEMMA OtherPort ==
    ASSUME NEW options, args[at] # "-p"
    PROVE  Cli!PortGiven(options \cup {at}) = Cli!PortGiven(options)
BY LastGivenOther DEF Cli!PortGiven

LEMMA OtherHosts ==
    ASSUME NEW options, NEW d, args[at] # "--known-hosts"
    PROVE  Cli!HostsGiven(options \cup {at}, d) = Cli!HostsGiven(options, d)
BY LastGivenOther DEF Cli!HostsGiven

LEMMA OtherAuth ==
    ASSUME NEW options, args[at] \notin {"-i", "--password"}
    PROVE  /\ Cli!AuthGiven(options \cup {at}) = Cli!AuthGiven(options)
           /\ Cli!OneAuth(options) => Cli!OneAuth(options \cup {at})
           /\ (\E i \in options \cup {at} : args[i] \in {"-i", "--password"})
                <=> \E i \in options : args[i] \in {"-i", "--password"}
<1>1. Cli!LastGiven(options \cup {at}, "-i", "agent") = Cli!LastGiven(options, "-i", "agent")
  BY LastGivenOther
<1>2. Cli!AuthGiven(options \cup {at}) = Cli!AuthGiven(options)
  BY <1>1 DEF Cli!AuthGiven
<1>3. Cli!OneAuth(options) => Cli!OneAuth(options \cup {at})
  BY DEF Cli!OneAuth
<1> QED BY <1>2, <1>3

LEMMA ParsePortKeeps ==
    ASSUME Cli!CommandLineInv, cpc = "parse", Cli!ParsePort,
           UNCHANGED <<args, home, connectRequest, remote>>
    PROVE  Cli!CommandLineInv'
<1>1. CASE Cli!Refuse
  BY <1>1, GaveUp DEF Cli!Refuse, Cli!Exit
<1>2. CASE /\ Cli!Value \in DOMAIN Cli!Port /\ port' = Cli!Port[Cli!Value] /\ at' = at + 2
           /\ UNCHANGED <<cpc, code, hostsFile, auth, authSelected, command>>
  <2>1. args[at] = "-p" /\ at \in Nat \ {0} /\ Cli!ParsedSoFar
    BY DEF Cli!ParsePort, Cli!This, Cli!CommandLineInv
  <2>2. PICK options \in SUBSET (1..(at - 1)) :
            /\ Cli!Placed(options, at) /\ Cli!OneAuth(options)
            /\ port = Cli!PortGiven(options)
            /\ hostsFile = Cli!HostsGiven(options, IF home THEN "home" ELSE "none")
            /\ auth = Cli!AuthGiven(options)
            /\ authSelected <=> \E i \in options : args[i] \in {"-i", "--password"}
    BY <2>1 DEF Cli!ParsedSoFar
  <2>3. Cli!LastGiven(options \cup {at}, "-p", "") = args[at + 1]
    BY <2>1, LastGivenNew
  <2>4. port' = Cli!PortGiven(options \cup {at})
    <3>1. Cli!Value # "" /\ Cli!Value = args[at + 1]
      BY <1>2 DEF Cli!Port, Cli!Value
    <3>2. Cli!PortGiven(options \cup {at}) = Cli!Port[args[at + 1]]
      BY <2>3, <3>1 DEF Cli!PortGiven
    <3> QED BY <1>2, <3>1, <3>2
  <2>5. hostsFile' = Cli!HostsGiven(options \cup {at}, IF home THEN "home" ELSE "none")
    BY <1>2, <2>1, <2>2, OtherHosts
  <2>6. /\ auth' = Cli!AuthGiven(options \cup {at}) /\ Cli!OneAuth(options \cup {at})
        /\ authSelected' <=> \E i \in options \cup {at} : args[i] \in {"-i", "--password"}
    BY <1>2, <2>1, <2>2, OtherAuth
  <2>7. at' = at + Cli!Width(args[at])
    BY <1>2, <2>1 DEF Cli!Width
  <2> QED BY <1>2, <2>1, <2>2, <2>4, <2>5, <2>6, <2>7, OptionParsed
<1> QED BY <1>1, <1>2 DEF Cli!ParsePort

LEMMA ParseKnownHostsKeeps ==
    ASSUME Cli!CommandLineInv, cpc = "parse", Cli!ParseKnownHosts,
           UNCHANGED <<args, home, connectRequest, remote>>
    PROVE  Cli!CommandLineInv'
<1>1. CASE Cli!Refuse
  BY <1>1, GaveUp DEF Cli!Refuse, Cli!Exit
<1>2. CASE /\ hostsFile' = Cli!Value /\ at' = at + 2
           /\ UNCHANGED <<cpc, code, port, auth, authSelected, command>>
  <2>1. args[at] = "--known-hosts" /\ at \in Nat \ {0} /\ Cli!ParsedSoFar
    BY DEF Cli!ParseKnownHosts, Cli!This, Cli!CommandLineInv
  <2>2. PICK options \in SUBSET (1..(at - 1)) :
            /\ Cli!Placed(options, at) /\ Cli!OneAuth(options)
            /\ port = Cli!PortGiven(options)
            /\ auth = Cli!AuthGiven(options)
            /\ authSelected <=> \E i \in options : args[i] \in {"-i", "--password"}
    BY <2>1 DEF Cli!ParsedSoFar
  <2>3. \A d : Cli!LastGiven(options \cup {at}, "--known-hosts", d) = args[at + 1]
    BY <2>1, LastGivenNew
  <2>4. port' = Cli!PortGiven(options \cup {at})
    BY <1>2, <2>1, <2>2, OtherPort
  <2>5. hostsFile' = Cli!HostsGiven(options \cup {at}, IF home THEN "home" ELSE "none")
    BY <1>2, <2>3 DEF Cli!HostsGiven, Cli!Value
  <2>6. /\ auth' = Cli!AuthGiven(options \cup {at}) /\ Cli!OneAuth(options \cup {at})
        /\ authSelected' <=> \E i \in options \cup {at} : args[i] \in {"-i", "--password"}
    BY <1>2, <2>1, <2>2, OtherAuth
  <2>7. at' = at + Cli!Width(args[at])
    BY <1>2, <2>1 DEF Cli!Width
  <2> QED BY <1>2, <2>1, <2>2, <2>4, <2>5, <2>6, <2>7, OptionParsed
<1> QED BY <1>1, <1>2 DEF Cli!ParseKnownHosts

LEMMA ParseAuthKeeps ==
    ASSUME Cli!CommandLineInv, cpc = "parse", Cli!ParseAuth,
           UNCHANGED <<args, home, connectRequest, remote>>
    PROVE  Cli!CommandLineInv'
<1>1. CASE Cli!Refuse
  BY <1>1, GaveUp DEF Cli!Refuse, Cli!Exit
<1>2. CASE /\ ~authSelected /\ authSelected' = TRUE
           /\ \/ args[at] = "--password" /\ auth' = "password" /\ at' = at + 1
              \/ args[at] = "-i" /\ auth' = Cli!Value /\ at' = at + 2
           /\ UNCHANGED <<cpc, code, port, hostsFile, command>>
  <2>1. at \in Nat \ {0} /\ Cli!ParsedSoFar
    BY DEF Cli!CommandLineInv
  <2>2. PICK options \in SUBSET (1..(at - 1)) :
            /\ Cli!Placed(options, at)
            /\ port = Cli!PortGiven(options)
            /\ hostsFile = Cli!HostsGiven(options, IF home THEN "home" ELSE "none")
            /\ authSelected <=> \E i \in options : args[i] \in {"-i", "--password"}
    BY <2>1 DEF Cli!ParsedSoFar
  <2>3. \A i \in options : args[i] \notin {"-i", "--password"}
    BY <1>2, <2>2
  <2>4. port' = Cli!PortGiven(options \cup {at})
    BY <1>2, <2>2, OtherPort
  <2>5. hostsFile' = Cli!HostsGiven(options \cup {at}, IF home THEN "home" ELSE "none")
    BY <1>2, <2>2, OtherHosts
  <2>6. Cli!OneAuth(options \cup {at})
    BY <2>3 DEF Cli!OneAuth
  <2>7. authSelected' <=> \E i \in options \cup {at} : args[i] \in {"-i", "--password"}
    BY <1>2
  <2>8. auth' = Cli!AuthGiven(options \cup {at}) /\ at' = at + Cli!Width(args[at])
    <3>1. CASE args[at] = "--password" /\ auth' = "password" /\ at' = at + 1
      BY <3>1 DEF Cli!AuthGiven, Cli!Width
    <3>2. CASE args[at] = "-i" /\ auth' = Cli!Value /\ at' = at + 2
      <4>1. Cli!LastGiven(options \cup {at}, "-i", "agent") = args[at + 1]
        BY <2>1, <3>2, LastGivenNew
      <4>2. ~\E i \in options \cup {at} : args[i] = "--password"
        BY <2>3, <3>2
      <4>3. auth' = Cli!AuthGiven(options \cup {at})
        BY <3>2, <4>1, <4>2 DEF Cli!AuthGiven, Cli!Value
      <4> QED BY <3>2, <4>3 DEF Cli!Width
    <3> QED BY <1>2, <3>1, <3>2
  <2> QED BY <1>2, <2>1, <2>2, <2>4, <2>5, <2>6, <2>7, <2>8, OptionParsed
<1> QED BY <1>1, <1>2 DEF Cli!ParseAuth, Cli!This

LEMMA ParseDestinationKeeps ==
    ASSUME Cli!CommandLineInv, cpc = "parse", Cli!ParseDestination,
           UNCHANGED <<args, home, connectRequest, remote>>
    PROVE  Cli!CommandLineInv'
<1>1. CASE Cli!Refuse
  BY <1>1, GaveUp DEF Cli!Refuse, Cli!Exit
<1>2. CASE /\ hostsFile # "none" /\ command' = SubSeq(args, at + 1, Len(args)) /\ cpc' = "run"
           /\ UNCHANGED <<code, at, port, hostsFile, auth, authSelected>>
  <2>1. /\ at \in Nat \ {0} /\ args \in Seq(Arguments) /\ Cli!ParsedSoFar /\ at <= Len(args)
        /\ connectRequest' = <<>> /\ remote' = <<>>
    BY DEF Cli!CommandLineInv, Cli!ParseDestination
  <2>2. at \in DOMAIN args
    BY <2>1, LenProperties
  <2>3. Cli!ParsedSoFar'
    BY <1>2, <2>1, ParsedSame
  <2>4. Cli!ExitCodeTruthful'
    BY <1>2, <2>1, NotEndedYet
  <2>5. (at \in DOMAIN args /\ hostsFile # "none" /\ command = SubSeq(args, at + 1, Len(args)))'
    BY <1>2, <2>2
  <2>6. at' \in Nat \ {0} /\ args' \in Seq(Arguments)
    BY <1>2, <2>1
  <2> QED BY <1>2, <2>1, <2>3, <2>4, <2>5, <2>6 DEF Cli!CommandLineInv
<1> QED BY <1>1, <1>2 DEF Cli!ParseDestination

LEMMA ParseKeeps ==
    ASSUME Cli!CommandLineInv, Cli!Parse PROVE Cli!CommandLineInv'
<1>1. cpc = "parse" /\ UNCHANGED <<args, home, connectRequest, remote>>
  BY DEF Cli!Parse
<1>2. CASE Cli!ParseNothing
  BY <1>1, <1>2, GaveUp DEF Cli!ParseNothing, Cli!Refuse, Cli!Exit
<1> QED BY <1>1, <1>2, ParsePortKeeps, ParseKnownHostsKeeps, ParseAuthKeeps, ParseDestinationKeeps
        DEF Cli!Parse

\* The request that leaves the parser is the one that was typed.
LEMMA ValidateKeeps ==
    ASSUME Cli!CommandLineInv, Cli!Validate PROVE Cli!CommandLineInv'
<1>1. cpc = "run" /\ UNCHANGED <<args, at, remote>>
  BY DEF Cli!Validate
<1>2. CASE Cli!Exit(255) /\ UNCHANGED connectRequest
  BY <1>1, <1>2, GaveUp DEF Cli!Exit
<1>3. CASE /\ connectRequest' = <<[port |-> port, hosts |-> hostsFile, auth |-> auth,
                                   to |-> args[at], command |-> command]>>
           /\ cpc' = "connect"
  <2>1. /\ at \in Nat \ {0} /\ args \in Seq(Arguments) /\ Cli!ParsedSoFar /\ remote' = <<>>
        /\ at \in DOMAIN args /\ hostsFile # "none" /\ command = SubSeq(args, at + 1, Len(args))
    BY <1>1 DEF Cli!CommandLineInv
  <2>2. PICK options \in SUBSET (1..(at - 1)) :
            /\ Cli!Placed(options, at) /\ Cli!OneAuth(options)
            /\ port = Cli!PortGiven(options)
            /\ hostsFile = Cli!HostsGiven(options, IF home THEN "home" ELSE "none")
            /\ auth = Cli!AuthGiven(options)
    BY <2>1 DEF Cli!ParsedSoFar
  <2>3. hostsFile = Cli!HostsGiven(options, "home")
    BY <2>1, <2>2 DEF Cli!HostsGiven, Cli!LastGiven
  <2>4. PICK r : r = [port |-> port, hosts |-> hostsFile, auth |-> auth,
                      to |-> args[at], command |-> command]
    OBVIOUS
  <2>5. /\ r.to = args[at] /\ r.command = SubSeq(args, at + 1, Len(args))
        /\ r.port = Cli!PortGiven(options) /\ r.hosts = Cli!HostsGiven(options, "home")
        /\ r.auth = Cli!AuthGiven(options)
    BY <2>1, <2>2, <2>3, <2>4
  <2>6. Cli!AsTyped(r)
    BY <2>1, <2>2, <2>5 DEF Cli!AsTyped
  <2>7. Cli!AsTyped(r)' /\ connectRequest'[1] = r
    BY <1>1, <1>3, <2>4, <2>6, AsTypedSame
  <2>8. (connectRequest # <<>> => Cli!AsTyped(connectRequest[1]))'
    BY <2>7
  <2>9. Cli!ExitCodeTruthful'
    BY <1>3, <2>1, <2>8, NotEndedYet
  <2> QED BY <1>1, <1>3, <2>1, <2>9 DEF Cli!CommandLineInv
<1> QED BY <1>2, <1>3 DEF Cli!Validate

LEMMA ConnectKeeps ==
    ASSUME Cli!CommandLineInv, Cli!Connect PROVE Cli!CommandLineInv'
<1>1. cpc = "connect" /\ UNCHANGED <<args, at, connectRequest, remote>>
  BY DEF Cli!Connect
<1>2. CASE Cli!Exit(255)
  BY <1>1, <1>2, GaveUp DEF Cli!Exit
<1>3. CASE cpc' = "session"
  <2>1. remote' = <<>>
    BY <1>1 DEF Cli!CommandLineInv
  <2>2. Cli!ExitCodeTruthful'
    BY <1>1, <1>3, <2>1, TypedSame, NotEndedYet DEF Cli!CommandLineInv, Cli!ExitCodeTruthful
  <2> QED BY <1>1, <1>3, <2>1, <2>2 DEF Cli!CommandLineInv
<1> QED BY <1>2, <1>3 DEF Cli!Connect

LEMMA SingletonsEqual ==
    ASSUME NEW a, NEW b, <<a>> = <<b>> PROVE a = b
<1>1. <<a>>[1] = a /\ <<b>>[1] = b
  OBVIOUS
<1> QED BY <1>1

\* The outcome of the remote side decides the exit code.
LEMMA RunSessionKeeps ==
    ASSUME Cli!CommandLineInv, Cli!RunSession PROVE Cli!CommandLineInv'
<1>1. cpc = "session" /\ UNCHANGED <<args, at, connectRequest>>
  BY DEF Cli!RunSession
<1>2. CASE Cli!Exit(255) /\ UNCHANGED remote
  BY <1>1, <1>2, GaveUp DEF Cli!Exit
<1>3. ASSUME NEW status \in {{}} \cup {{s} : s \in Cli!Statuses}, NEW signalled \in BOOLEAN,
             remote' = <<[status |-> status, signalled |-> signalled]>>,
             Cli!Exit(Cli!ExitCode(status, signalled))
      PROVE  Cli!CommandLineInv'
  <2>1. cpc' = "exited" /\ code' = Cli!ExitCode(status, signalled)
    BY <1>3 DEF Cli!Exit
  <2>2. ASSUME NEW s, status = {s}, signalled = FALSE, s \in 0..255 PROVE code' = s
    BY <2>1, <2>2 DEF Cli!ExitCode
  <2>3. ASSUME code' = 0 PROVE status = {0} /\ signalled = FALSE
    <3>1. signalled = FALSE /\ status # {}
      BY <2>1, <2>3 DEF Cli!ExitCode
    <3>2. PICK s : status = {s}
      BY <1>3, <3>1
    <3>3. code' = 255 \/ code' = s
      BY <2>1, <3>2 DEF Cli!ExitCode
    <3> QED BY <2>3, <3>1, <3>2, <3>3
  <2>4. ASSUME NEW s, remote' = <<[status |-> {s}, signalled |-> FALSE]>>
        PROVE  status = {s} /\ signalled = FALSE
    <3>1. [status |-> status, signalled |-> signalled] = [status |-> {s}, signalled |-> FALSE]
      BY <1>3, <2>4, SingletonsEqual
    <3> QED BY <3>1
  <2>5. (connectRequest # <<>> => Cli!AsTyped(connectRequest[1]))'
    BY <1>1, TypedSame DEF Cli!CommandLineInv, Cli!ExitCodeTruthful
  <2>6. code' = 0 => remote' = <<[status |-> {0}, signalled |-> FALSE]>>
    BY <1>3, <2>3
  <2>7. \A s \in Cli!Statuses \cap (0..255) :
            remote' = <<[status |-> {s}, signalled |-> FALSE]>> => code' = s
    BY <2>2, <2>4
  <2>8. Cli!ExitCodeTruthful'
    BY <2>5, <2>6, <2>7, Zenon DEF Cli!ExitCodeTruthful, Cli!Statuses
  <2> QED BY <1>1, <2>1, <2>8 DEF Cli!CommandLineInv
<1> QED BY <1>2, <1>3 DEF Cli!RunSession

LEMMA CommandLineKept ==
    ASSUME Cli!CommandLineInv, Cli!CommandLineNext PROVE Cli!CommandLineInv'
BY TypeArgumentKeeps, StartKeeps, ParseKeeps, ValidateKeeps, ConnectKeeps, RunSessionKeeps
DEF Cli!CommandLineNext

LEMMA CommandLineStutters ==
    ASSUME Cli!CommandLineInv, UNCHANGED cliVars PROVE Cli!CommandLineInv'
<1>1. /\ UNCHANGED <<args, at, port, hostsFile, auth, authSelected, home>>
      /\ UNCHANGED <<cpc, command, connectRequest, remote, code>>
  BY DEF cliVars
<1>2. Cli!ParsedSoFar => Cli!ParsedSoFar'
  BY <1>1, ParsedSame
<1>3. (connectRequest # <<>> => Cli!AsTyped(connectRequest[1]))'
  BY <1>1, TypedSame DEF Cli!CommandLineInv, Cli!ExitCodeTruthful
<1>4. Cli!ExitCodeTruthful'
  BY <1>1, <1>3, Zenon DEF Cli!CommandLineInv, Cli!ExitCodeTruthful, Cli!Statuses, Cli!Help
<1> QED BY <1>1, <1>2, <1>4 DEF Cli!CommandLineInv

-----------------------------------------------------------------------------
(* The client library.  A step is one of one part; the others stand still. *)

\* The parts' inductive invariants, together.
ClientInv == Runtime!RuntimeInv /\ Legacy!LegacyInv /\ Cli!CommandLineInv

LEMMA ClientStep ==
    ASSUME ClientInv, [Next]_vars
    PROVE  ClientInv'
<1>1. CASE RuntimeStep
  BY <1>1, RuntimeKept, LegacyStutters, CommandLineStutters DEF ClientInv, RuntimeStep
<1>2. CASE HalvesStep(Halves!HalvesNext)
  BY <1>2, RuntimeStutters, LegacyStutters, CommandLineStutters DEF ClientInv, HalvesStep
<1>3. CASE LegacyStep
  BY <1>3, RuntimeStutters, LegacyKept, CommandLineStutters DEF ClientInv, LegacyStep
<1>4. CASE QuotingStep
  BY <1>4, RuntimeStutters, LegacyStutters, CommandLineStutters DEF ClientInv, QuotingStep
<1>5. CASE CliStep
  BY <1>5, RuntimeStutters, LegacyStutters, CommandLineKept DEF ClientInv, CliStep
<1>6. CASE UNCHANGED vars
  BY <1>6, RuntimeStutters, LegacyStutters, CommandLineStutters DEF ClientInv, vars
<1> QED BY <1>1, <1>2, <1>3, <1>4, <1>5, <1>6 DEF Next

\* The inductive invariants of the runtime, the sequential runner and the
\* command line hold, for any threads, sizes and arguments.
THEOREM ClientInvariant == Spec => []ClientInv
<1>1. Init => ClientInv
  BY RuntimeStarts, LegacyStarts, CommandLineStarts DEF Init, ClientInv
<1>2. ClientInv /\ [Next]_vars => ClientInv'
  BY ClientStep
<1> QED BY <1>1, <1>2, PTL DEF Spec

\* However many threads race to the first use of the runtime and however many
\* builds fail, all callers that got one share the only one that was built.
THEOREM ClientSharesRuntime == Spec => []OneRuntime
<1>1. ClientInv => OneRuntime
  BY DEF ClientInv, Runtime!RuntimeInv, OneRuntime
<1> QED BY <1>1, ClientInvariant, PTL

\* The sequential runner, whatever the session takes of each write: the remote
\* side gets the input without a gap, a repetition or a swap, and Ok means that
\* everything was copied in both directions and the session was closed.
THEOREM LegacyCopiesAll == Spec => []LegacyOkMeansAll
<1>1. ClientInv => LegacyOkMeansAll
  BY DEF ClientInv, Legacy!LegacyInv, LegacyOkMeansAll
<1> QED BY <1>1, ClientInvariant, PTL

\* For every list of arguments: the opener is asked for exactly what was typed,
\* and the exit code is 0 only for help and for a remote side that ended well.
THEOREM CommandLineTruthful == Spec => []ExitCodeTruthful
<1>1. ClientInv => ExitCodeTruthful
  BY DEF ClientInv, Cli!CommandLineInv, ExitCodeTruthful
<1> QED BY <1>1, ClientInvariant, PTL

-----------------------------------------------------------------------------
(* Recursion over a sequence.  A set of numbers that has 0 and the         *)
(* successor of each of its members has them all; with sets, unlike with   *)
(* predicates, that is a lemma a proof can use.                            *)

LEMMA LeastNumber ==
    ASSUME NEW T, T \subseteq Nat, T # {}
    PROVE  \E x \in T : \A y \in T : ~(y < x)
<1> DEFINE R == OpToRel(<, Nat)
<1>1. IsWellFoundedOn(R, Nat)
  BY NatLessThanWellFounded
<1>2. PICK x \in T : \A y \in T : ~(<<y, x>> \in R)
  <2> HIDE DEF R
  <2> QED BY <1>1, WFMin
<1>3. ASSUME NEW y \in T, y < x PROVE <<y, x>> \in R
  BY <1>3 DEF OpToRel
<1> QED BY <1>2, <1>3

LEMMA SetInduction ==
    ASSUME NEW S, 0 \in S, \A n \in Nat : n \in S => n + 1 \in S
    PROVE  Nat \subseteq S
<1> DEFINE T == {n \in Nat : n \notin S}
<1>1. ASSUME T # {} PROVE FALSE
  <2>1. PICK x \in T : \A y \in T : ~(y < x)
    BY <1>1, LeastNumber
  <2>2. x # 0 /\ x - 1 \in Nat /\ x - 1 < x
    OBVIOUS
  <2>3. x - 1 \in S
    BY <2>1, <2>2
  <2> QED BY <2>2, <2>3
<1> QED BY <1>1

\* The scans of RemoteCommand, by name, so that what they have in common is
\* proved once.
Step(k, s, x) ==
    CASE k = "quote"  -> Quoting!AddQuoted(s, x)
      [] k = "join"   -> Quoting!AddArgument(s, x)
      [] k = "server" -> Quoting!ReadCharacter(s, x)
      [] k = "shell"  -> Quoting!ShellRead(s, x)
      [] k = "keep"   -> Quoting!KeepWord(s, x)

\* The states of a scan of the first n items.
States(k, start, line, n, st) ==
    st = [i \in 0..n |-> IF i = 0 THEN start ELSE Step(k, st[i - 1], line[i])]

LEMMA StatesExist ==
    ASSUME NEW k, NEW start, NEW line, NEW n \in Nat
    PROVE  \E st : States(k, start, line, n, st)
<1> DEFINE S == {m \in Nat : \E st : States(k, start, line, m, st)}
<1>1. 0 \in S
  <2> DEFINE st == [i \in 0..0 |-> start]
  <2>1. st = [i \in 0..0 |-> IF i = 0 THEN start ELSE Step(k, st[i - 1], line[i])]
    OBVIOUS
  <2>2. States(k, start, line, 0, st)
    BY <2>1, Zenon DEF States
  <2> QED BY <2>2
<1>2. ASSUME NEW m \in Nat, m \in S PROVE m + 1 \in S
  <2>1. PICK st : States(k, start, line, m, st)
    BY <1>2
  <2> DEFINE last == Step(k, st[m], line[m + 1])
             ext == [i \in 0..(m + 1) |-> IF i = m + 1 THEN last ELSE st[i]]
  <2>2. \A i \in 0..m : st[i] = IF i = 0 THEN start ELSE Step(k, st[i - 1], line[i])
    BY <2>1 DEF States
  <2>3. ASSUME NEW i \in 0..(m + 1)
        PROVE  ext[i] = IF i = 0 THEN start ELSE Step(k, ext[i - 1], line[i])
    <3>1. CASE i = m + 1
      BY <3>1
    <3>2. CASE i # m + 1
      <4>1. i \in 0..m /\ ext[i] = st[i] /\ (i # 0 => i - 1 \in 0..m /\ ext[i - 1] = st[i - 1])
        BY <3>2
      <4> HIDE DEF ext
      <4> QED BY <4>1, <2>2
    <3> QED BY <3>1, <3>2
  <2>4. ext = [i \in 0..(m + 1) |-> IF i = 0 THEN start ELSE Step(k, ext[i - 1], line[i])]
    BY <2>3
  <2>5. States(k, start, line, m + 1, ext)
    <3> HIDE DEF ext
    <3> QED BY <2>4 DEF States
  <2> QED BY <2>5
<1> HIDE DEF S
<1>3. Nat \subseteq S
  BY <1>1, <1>2, SetInduction
<1> QED BY <1>3 DEF S

\* Scans of two lines agree as long as the lines do.
LEMMA StatesAgree ==
    ASSUME NEW k, NEW start, NEW one, NEW other, NEW m \in Nat, NEW n \in Nat, m <= n,
           NEW st, States(k, start, one, m, st), NEW su, States(k, start, other, n, su),
           \A i \in 1..m : one[i] = other[i]
    PROVE  st[m] = su[m]
<1> DEFINE S == {i \in Nat : i <= m => st[i] = su[i]}
<1>1. /\ \A i \in 0..m : st[i] = IF i = 0 THEN start ELSE Step(k, st[i - 1], one[i])
      /\ \A i \in 0..n : su[i] = IF i = 0 THEN start ELSE Step(k, su[i - 1], other[i])
  BY DEF States
<1>2. 0 \in S
  BY <1>1
<1>3. ASSUME NEW i \in Nat, i \in S PROVE i + 1 \in S
  <2>1. CASE i + 1 <= m
    <3>1. i + 1 \in 0..m /\ i + 1 \in 0..n /\ i + 1 \in 1..m /\ i + 1 # 0 /\ (i + 1) - 1 = i
      BY <2>1
    <3>2. st[i] = su[i]
      BY <1>3, <2>1
    <3> QED BY <3>1, <3>2, <1>1
  <2>2. CASE ~(i + 1 <= m)
    BY <2>2
  <2> QED BY <2>1, <2>2
<1> HIDE DEF S
<1>4. Nat \subseteq S
  BY <1>2, <1>3, SetInduction
<1> QED BY <1>4 DEF S

\* One item more is one step more.
LEMMA StatesAppend ==
    ASSUME NEW k, NEW start, NEW A, NEW line \in Seq(A), NEW x \in A,
           NEW st, States(k, start, line, Len(line), st),
           NEW su, States(k, start, Append(line, x), Len(Append(line, x)), su)
    PROVE  su[Len(Append(line, x))] = Step(k, st[Len(line)], x)
<1>1. PICK m, longer : m = Len(line) /\ longer = Append(line, x)
  OBVIOUS
<1>2. /\ m \in Nat /\ Len(longer) = m + 1 /\ longer[m + 1] = x
      /\ \A i \in 1..m : line[i] = longer[i]
  BY <1>1, AppendProperties
<1>3. m + 1 \in Nat /\ m <= m + 1 /\ m + 1 \in 0..(m + 1) /\ m + 1 # 0 /\ (m + 1) - 1 = m
  BY <1>2
<1>4. States(k, start, line, m, st) /\ States(k, start, longer, m + 1, su)
  BY <1>1, <1>2
<1>5. st[m] = su[m]
  BY <1>2, <1>3, <1>4, StatesAgree
<1>6. su[m + 1] = Step(k, su[m], longer[m + 1])
  BY <1>3, <1>4 DEF States
<1> QED BY <1>1, <1>2, <1>5, <1>6

\* The text of an argument up to its closing quote, the line, and the states of
\* the two readers after a line.
Quoted(word) == Quoting!Scan(Quoting!AddQuoted, <<Quoting!Quote>>, word)
Encoded(arguments) == Quoting!EncodePosixRemoteCommand(arguments)
Server(line) == Quoting!Scan(Quoting!ReadCharacter, Quoting!NoWords, line)
Shell(line) == Quoting!Scan(Quoting!ShellRead, Quoting!NoShellWords, line)

LEMMA QuotedStates ==
    ASSUME NEW line, Len(line) \in Nat
    PROVE  \E st : /\ States("quote", <<Quoting!Quote>>, line, Len(line), st)
                   /\ Quoted(line) = st[Len(line)]
<1> DEFINE P(st) == st = [i \in 0..Len(line) |-> IF i = 0 THEN <<Quoting!Quote>>
                                                ELSE Quoting!AddQuoted(st[i - 1], line[i])]
<1>1. \A st : States("quote", <<Quoting!Quote>>, line, Len(line), st) <=> P(st)
  BY DEF States, Step
<1>2. \E st : P(st)
  BY <1>1, StatesExist, Zenon
<1>3. P(CHOOSE st : P(st))
  <2> HIDE DEF P
  <2> QED BY <1>2, Zenon
<1>4. Quoted(line) = (CHOOSE st : P(st))[Len(line)]
  BY Zenon DEF Quoted, Quoting!Scan
<1> HIDE DEF P
<1> QED BY <1>1, <1>3, <1>4, Zenon

LEMMA QuotedNext ==
    ASSUME NEW S, NEW line \in Seq(S), NEW x \in S
    PROVE  /\ Quoted(<<>>) = <<Quoting!Quote>>
           /\ Quoted(Append(line, x)) = Quoting!AddQuoted(Quoted(line), x)
<1>1. Len(line) \in Nat /\ Len(<<>>) = 0 /\ Len(Append(line, x)) \in Nat
  BY AppendProperties
<1>2. PICK st : /\ States("quote", <<Quoting!Quote>>, line, Len(line), st)
                /\ Quoted(line) = st[Len(line)]
  BY <1>1, QuotedStates
<1>3. PICK su : /\ States("quote", <<Quoting!Quote>>, Append(line, x), Len(Append(line, x)), su)
                /\ Quoted(Append(line, x)) = su[Len(Append(line, x))]
  BY <1>1, QuotedStates
<1>4. Quoted(Append(line, x)) = Step("quote", Quoted(line), x)
  BY <1>2, <1>3, StatesAppend
<1>5. PICK sv : /\ States("quote", <<Quoting!Quote>>, <<>>, Len(<<>>), sv)
                /\ Quoted(<<>>) = sv[Len(<<>>)]
  BY <1>1, QuotedStates
<1>6. Quoted(<<>>) = <<Quoting!Quote>>
  BY <1>1, <1>5 DEF States
<1> QED BY <1>4, <1>6 DEF Step

LEMMA EncodedStates ==
    ASSUME NEW line, Len(line) \in Nat
    PROVE  \E st : /\ States("join", <<>>, line, Len(line), st)
                   /\ Encoded(line) = st[Len(line)]
<1> DEFINE P(st) == st = [i \in 0..Len(line) |-> IF i = 0 THEN <<>>
                                                ELSE Quoting!AddArgument(st[i - 1], line[i])]
<1>1. \A st : States("join", <<>>, line, Len(line), st) <=> P(st)
  BY DEF States, Step
<1>2. \E st : P(st)
  BY <1>1, StatesExist, Zenon
<1>3. P(CHOOSE st : P(st))
  <2> HIDE DEF P
  <2> QED BY <1>2, Zenon
<1>4. Encoded(line) = (CHOOSE st : P(st))[Len(line)]
  BY Zenon DEF Encoded, Quoting!EncodePosixRemoteCommand, Quoting!Scan
<1> HIDE DEF P
<1> QED BY <1>1, <1>3, <1>4, Zenon

LEMMA EncodedNext ==
    ASSUME NEW S, NEW line \in Seq(S), NEW x \in S
    PROVE  /\ Encoded(<<>>) = <<>>
           /\ Encoded(Append(line, x)) = Quoting!AddArgument(Encoded(line), x)
<1>1. Len(line) \in Nat /\ Len(<<>>) = 0 /\ Len(Append(line, x)) \in Nat
  BY AppendProperties
<1>2. PICK st : /\ States("join", <<>>, line, Len(line), st)
                /\ Encoded(line) = st[Len(line)]
  BY <1>1, EncodedStates
<1>3. PICK su : /\ States("join", <<>>, Append(line, x), Len(Append(line, x)), su)
                /\ Encoded(Append(line, x)) = su[Len(Append(line, x))]
  BY <1>1, EncodedStates
<1>4. Encoded(Append(line, x)) = Step("join", Encoded(line), x)
  BY <1>2, <1>3, StatesAppend
<1>5. PICK sv : /\ States("join", <<>>, <<>>, Len(<<>>), sv)
                /\ Encoded(<<>>) = sv[Len(<<>>)]
  BY <1>1, EncodedStates
<1>6. Encoded(<<>>) = <<>>
  BY <1>1, <1>5 DEF States
<1> QED BY <1>4, <1>6 DEF Step

LEMMA ServerStates ==
    ASSUME NEW line, Len(line) \in Nat
    PROVE  \E st : /\ States("server", Quoting!NoWords, line, Len(line), st)
                   /\ Server(line) = st[Len(line)]
<1> DEFINE P(st) == st = [i \in 0..Len(line) |-> IF i = 0 THEN Quoting!NoWords
                                                ELSE Quoting!ReadCharacter(st[i - 1], line[i])]
<1>1. \A st : States("server", Quoting!NoWords, line, Len(line), st) <=> P(st)
  BY DEF States, Step
<1>2. \E st : P(st)
  BY <1>1, StatesExist, Zenon
<1>3. P(CHOOSE st : P(st))
  <2> HIDE DEF P
  <2> QED BY <1>2, Zenon
<1>4. Server(line) = (CHOOSE st : P(st))[Len(line)]
  BY Zenon DEF Server, Quoting!Scan
<1> HIDE DEF P
<1> QED BY <1>1, <1>3, <1>4, Zenon

LEMMA ServerNext ==
    ASSUME NEW S, NEW line \in Seq(S), NEW x \in S
    PROVE  /\ Server(<<>>) = Quoting!NoWords
           /\ Server(Append(line, x)) = Quoting!ReadCharacter(Server(line), x)
<1>1. Len(line) \in Nat /\ Len(<<>>) = 0 /\ Len(Append(line, x)) \in Nat
  BY AppendProperties
<1>2. PICK st : /\ States("server", Quoting!NoWords, line, Len(line), st)
                /\ Server(line) = st[Len(line)]
  BY <1>1, ServerStates
<1>3. PICK su : /\ States("server", Quoting!NoWords, Append(line, x), Len(Append(line, x)), su)
                /\ Server(Append(line, x)) = su[Len(Append(line, x))]
  BY <1>1, ServerStates
<1>4. Server(Append(line, x)) = Step("server", Server(line), x)
  BY <1>2, <1>3, StatesAppend
<1>5. PICK sv : /\ States("server", Quoting!NoWords, <<>>, Len(<<>>), sv)
                /\ Server(<<>>) = sv[Len(<<>>)]
  BY <1>1, ServerStates
<1>6. Server(<<>>) = Quoting!NoWords
  BY <1>1, <1>5 DEF States
<1> QED BY <1>4, <1>6 DEF Step

LEMMA ShellStates ==
    ASSUME NEW line, Len(line) \in Nat
    PROVE  \E st : /\ States("shell", Quoting!NoShellWords, line, Len(line), st)
                   /\ Shell(line) = st[Len(line)]
<1> DEFINE P(st) == st = [i \in 0..Len(line) |-> IF i = 0 THEN Quoting!NoShellWords
                                                ELSE Quoting!ShellRead(st[i - 1], line[i])]
<1>1. \A st : States("shell", Quoting!NoShellWords, line, Len(line), st) <=> P(st)
  BY DEF States, Step
<1>2. \E st : P(st)
  BY <1>1, StatesExist, Zenon
<1>3. P(CHOOSE st : P(st))
  <2> HIDE DEF P
  <2> QED BY <1>2, Zenon
<1>4. Shell(line) = (CHOOSE st : P(st))[Len(line)]
  BY Zenon DEF Shell, Quoting!Scan
<1> HIDE DEF P
<1> QED BY <1>1, <1>3, <1>4, Zenon

LEMMA ShellNext ==
    ASSUME NEW S, NEW line \in Seq(S), NEW x \in S
    PROVE  /\ Shell(<<>>) = Quoting!NoShellWords
           /\ Shell(Append(line, x)) = Quoting!ShellRead(Shell(line), x)
<1>1. Len(line) \in Nat /\ Len(<<>>) = 0 /\ Len(Append(line, x)) \in Nat
  BY AppendProperties
<1>2. PICK st : /\ States("shell", Quoting!NoShellWords, line, Len(line), st)
                /\ Shell(line) = st[Len(line)]
  BY <1>1, ShellStates
<1>3. PICK su : /\ States("shell", Quoting!NoShellWords, Append(line, x), Len(Append(line, x)), su)
                /\ Shell(Append(line, x)) = su[Len(Append(line, x))]
  BY <1>1, ShellStates
<1>4. Shell(Append(line, x)) = Step("shell", Shell(line), x)
  BY <1>2, <1>3, StatesAppend
<1>5. PICK sv : /\ States("shell", Quoting!NoShellWords, <<>>, Len(<<>>), sv)
                /\ Shell(<<>>) = sv[Len(<<>>)]
  BY <1>1, ShellStates
<1>6. Shell(<<>>) = Quoting!NoShellWords
  BY <1>1, <1>5 DEF States
<1> QED BY <1>4, <1>6 DEF Step

LEMMA NotEmptyStates ==
    ASSUME NEW line, Len(line) \in Nat
    PROVE  \E st : /\ States("keep", <<>>, line, Len(line), st)
                   /\ Quoting!NotEmpty(line) = st[Len(line)]
<1> DEFINE P(st) == st = [i \in 0..Len(line) |-> IF i = 0 THEN <<>>
                                                ELSE Quoting!KeepWord(st[i - 1], line[i])]
<1>1. \A st : States("keep", <<>>, line, Len(line), st) <=> P(st)
  BY DEF States, Step
<1>2. \E st : P(st)
  BY <1>1, StatesExist, Zenon
<1>3. P(CHOOSE st : P(st))
  <2> HIDE DEF P
  <2> QED BY <1>2, Zenon
<1>4. Quoting!NotEmpty(line) = (CHOOSE st : P(st))[Len(line)]
  BY Zenon DEF Quoting!NotEmpty, Quoting!Scan
<1> HIDE DEF P
<1> QED BY <1>1, <1>3, <1>4, Zenon

LEMMA NotEmptyNext ==
    ASSUME NEW S, NEW line \in Seq(S), NEW x \in S
    PROVE  /\ Quoting!NotEmpty(<<>>) = <<>>
           /\ Quoting!NotEmpty(Append(line, x)) = Quoting!KeepWord(Quoting!NotEmpty(line), x)
<1>1. Len(line) \in Nat /\ Len(<<>>) = 0 /\ Len(Append(line, x)) \in Nat
  BY AppendProperties
<1>2. PICK st : /\ States("keep", <<>>, line, Len(line), st)
                /\ Quoting!NotEmpty(line) = st[Len(line)]
  BY <1>1, NotEmptyStates
<1>3. PICK su : /\ States("keep", <<>>, Append(line, x), Len(Append(line, x)), su)
                /\ Quoting!NotEmpty(Append(line, x)) = su[Len(Append(line, x))]
  BY <1>1, NotEmptyStates
<1>4. Quoting!NotEmpty(Append(line, x)) = Step("keep", Quoting!NotEmpty(line), x)
  BY <1>2, <1>3, StatesAppend
<1>5. PICK sv : /\ States("keep", <<>>, <<>>, Len(<<>>), sv)
                /\ Quoting!NotEmpty(<<>>) = sv[Len(<<>>)]
  BY <1>1, NotEmptyStates
<1>6. Quoting!NotEmpty(<<>>) = <<>>
  BY <1>1, <1>5 DEF States
<1> QED BY <1>4, <1>6 DEF Step

-----------------------------------------------------------------------------
(* The quoting of remote commands.                                         *)

Special == {Quoting!Dollar, Quoting!Newline}
HasSpecial(words) == \E i \in DOMAIN words : Quoting!ToSet(words[i]) \cap Special # {}

\* What is between the arguments: nothing before the first, then a space.
Opened(line) == IF line = <<>> THEN line ELSE Append(line, Quoting!Space)

\* The two readers after the arguments front: word is what they have of the
\* next one, quote the quotes they are in.
ShellIs(s, front, word, quote, inWord) ==
    /\ DOMAIN s = {"words", "word", "inWord", "quote", "escaped", "plain"}
    /\ s.words = front /\ s.word = word /\ s.quote = quote /\ s.inWord = inWord
    /\ s.escaped = FALSE /\ s.plain = TRUE
ServerIs(s, front, word, quote) ==
    /\ DOMAIN s = {"words", "word", "quote", "escaped"}
    /\ s.words = Quoting!NotEmpty(front) /\ s.word = word /\ s.quote = quote
    /\ s.escaped = FALSE

\* The line as far as word, without the last quote.
Body(front, word) == Opened(Encoded(front)) \o Quoted(word)

\* What both readers know at that point, and whether a character that the
\* server does not take is there.
ReadSoFar(front, word) ==
    /\ front \in Seq(Seq(Quoting!Characters)) /\ word \in Seq(Quoting!Characters)
    /\ Opened(Encoded(front)) \in Seq(Quoting!Characters)
    /\ Quoted(word) \in Seq(Quoting!Characters)
    /\ ShellIs(Shell(Body(front, word)), front, word, Quoting!Quote, TRUE)
    /\ ServerIs(Server(Body(front, word)), front, word, Quoting!Quote)
    /\ (Quoting!ToSet(Body(front, word)) \cap Special # {}) <=> HasSpecial(Append(front, word))

\* The last argument is the one being typed: each step adds to the line at its
\* end, so the invariant says what the readers make of it up to there.
QuotingInv ==
    argv = <<>> \/ \E front, word : argv = Append(front, word) /\ ReadSoFar(front, word)

LEMMA SetOfAppend ==
    ASSUME NEW S, NEW s \in Seq(S), NEW x \in S
    PROVE  Quoting!ToSet(Append(s, x)) = Quoting!ToSet(s) \cup {x}
<1>1. /\ Append(s, x) \in Seq(S) /\ Len(Append(s, x)) = Len(s) + 1
      /\ Append(s, x)[Len(s) + 1] = x /\ \A i \in 1..Len(s) : Append(s, x)[i] = s[i]
  BY AppendProperties
<1>2. DOMAIN s = 1..Len(s) /\ DOMAIN Append(s, x) = 1..(Len(s) + 1) /\ Len(s) \in Nat
  BY <1>1, LenProperties
<1>3. \A i \in 1..(Len(s) + 1) : i \in 1..Len(s) \/ i = Len(s) + 1
  BY <1>2
<1>4. Len(s) + 1 \in 1..(Len(s) + 1) /\ \A i \in 1..Len(s) : i \in 1..(Len(s) + 1)
  BY <1>2
<1>5. ASSUME NEW y \in Quoting!ToSet(Append(s, x)) PROVE y \in Quoting!ToSet(s) \cup {x}
  BY <1>1, <1>2, <1>3, <1>5 DEF Quoting!ToSet
<1>6. ASSUME NEW y \in Quoting!ToSet(s) \cup {x} PROVE y \in Quoting!ToSet(Append(s, x))
  BY <1>1, <1>2, <1>4, <1>6 DEF Quoting!ToSet
<1> QED BY <1>5, <1>6

LEMMA SpecialInAppend ==
    ASSUME NEW S, NEW words \in Seq(S), NEW word \in S
    PROVE  HasSpecial(Append(words, word)) <=>
                HasSpecial(words) \/ Quoting!ToSet(word) \cap Special # {}
<1>1. /\ Append(words, word) \in Seq(S) /\ Len(Append(words, word)) = Len(words) + 1
      /\ Append(words, word)[Len(words) + 1] = word
      /\ \A i \in 1..Len(words) : Append(words, word)[i] = words[i]
  BY AppendProperties
<1>2. /\ DOMAIN words = 1..Len(words) /\ DOMAIN Append(words, word) = 1..(Len(words) + 1)
      /\ Len(words) \in Nat
  BY <1>1, LenProperties
<1>3. \A i \in 1..(Len(words) + 1) : i \in 1..Len(words) \/ i = Len(words) + 1
  BY <1>2
<1>4. /\ Len(words) + 1 \in 1..(Len(words) + 1)
      /\ \A i \in 1..Len(words) : i \in 1..(Len(words) + 1)
  BY <1>2
<1> QED BY <1>1, <1>2, <1>3, <1>4 DEF HasSpecial

LEMMA AppendedToConcat ==
    ASSUME NEW S, NEW s \in Seq(S), NEW t \in Seq(S), NEW x \in S
    PROVE  s \o Append(t, x) = Append(s \o t, x)
<1>1. t \o <<x>> = Append(t, x) /\ (s \o t) \o <<x>> = Append(s \o t, x) /\ <<x>> \in Seq(S)
  BY AppendIsConcat, ConcatProperties
<1> QED BY <1>1, ConcatAssociative

LEMMA TuplesAppended ==
    ASSUME NEW S, NEW q \in S, NEW d \in S
    PROVE  /\ Append(<<>>, q) = <<q>> /\ Append(<<q>>, d) = <<q, d>>
           /\ Append(<<q, d>>, q) = <<q, d, q>> /\ Append(<<q, d, q>>, d) = <<q, d, q, d>>
           /\ Append(<<q, d, q, d>>, q) = <<q, d, q, d, q>>
<1>1. Append(<<>>, q) = <<q>>
  OBVIOUS
<1>2. Append(<<q>>, d) = <<q, d>>
  <2>1. <<q>> \in Seq(S) /\ <<q, d>> \in Seq(S) /\ Len(<<q>>) = 1 /\ Len(<<q, d>>) = 2
    OBVIOUS
  <2>2. Append(<<q>>, d) \in Seq(S) /\ Len(Append(<<q>>, d)) = 2
    BY <2>1, AppendProperties
  <2>3. \A i \in 1..2 : Append(<<q>>, d)[i] = <<q, d>>[i]
    OBVIOUS
  <2> QED BY <2>1, <2>2, <2>3, SeqEqual
<1>3. Append(<<q, d>>, q) = <<q, d, q>>
  <2>1. <<q, d>> \in Seq(S) /\ <<q, d, q>> \in Seq(S) /\ Len(<<q, d>>) = 2 /\ Len(<<q, d, q>>) = 3
    OBVIOUS
  <2>2. Append(<<q, d>>, q) \in Seq(S) /\ Len(Append(<<q, d>>, q)) = 3
    BY <2>1, AppendProperties
  <2>3. \A i \in 1..3 : Append(<<q, d>>, q)[i] = <<q, d, q>>[i]
    OBVIOUS
  <2> QED BY <2>1, <2>2, <2>3, SeqEqual
<1>4. Append(<<q, d, q>>, d) = <<q, d, q, d>>
  <2>1. /\ <<q, d, q>> \in Seq(S) /\ <<q, d, q, d>> \in Seq(S)
        /\ Len(<<q, d, q>>) = 3 /\ Len(<<q, d, q, d>>) = 4
    OBVIOUS
  <2>2. Append(<<q, d, q>>, d) \in Seq(S) /\ Len(Append(<<q, d, q>>, d)) = 4
    BY <2>1, AppendProperties
  <2>3. \A i \in 1..4 : Append(<<q, d, q>>, d)[i] = <<q, d, q, d>>[i]
    OBVIOUS
  <2> QED BY <2>1, <2>2, <2>3, SeqEqual
<1>5. Append(<<q, d, q, d>>, q) = <<q, d, q, d, q>>
  <2>1. /\ <<q, d, q, d>> \in Seq(S) /\ <<q, d, q, d, q>> \in Seq(S)
        /\ Len(<<q, d, q, d>>) = 4 /\ Len(<<q, d, q, d, q>>) = 5
    OBVIOUS
  <2>2. Append(<<q, d, q, d>>, q) \in Seq(S) /\ Len(Append(<<q, d, q, d>>, q)) = 5
    BY <2>1, AppendProperties
  <2>3. \A i \in 1..5 : Append(<<q, d, q, d>>, q)[i] = <<q, d, q, d, q>>[i]
    OBVIOUS
  <2> QED BY <2>1, <2>2, <2>3, SeqEqual
<1> QED BY <1>1, <1>2, <1>3, <1>4, <1>5

LEMMA FiveAppended ==
    ASSUME NEW S, NEW s \in Seq(S), NEW q \in S, NEW d \in S
    PROVE  s \o <<q, d, q, d, q>> = Append(Append(Append(Append(Append(s, q), d), q), d), q)
<1>1. /\ Append(<<>>, q) = <<q>> /\ Append(<<q>>, d) = <<q, d>>
      /\ Append(<<q, d>>, q) = <<q, d, q>> /\ Append(<<q, d, q>>, d) = <<q, d, q, d>>
      /\ Append(<<q, d, q, d>>, q) = <<q, d, q, d, q>>
  BY TuplesAppended
<1>2. /\ <<>> \in Seq(S) /\ <<q>> \in Seq(S) /\ <<q, d>> \in Seq(S) /\ <<q, d, q>> \in Seq(S)
      /\ <<q, d, q, d>> \in Seq(S)
  OBVIOUS
<1>3. s \o <<>> = s
  BY ConcatEmptySeq
<1>4. s \o <<q>> = Append(s, q)
  BY <1>1, <1>2, <1>3, AppendedToConcat
<1>5. s \o <<q, d>> = Append(s \o <<q>>, d)
  BY <1>1, <1>2, AppendedToConcat
<1>6. s \o <<q, d, q>> = Append(s \o <<q, d>>, q)
  BY <1>1, <1>2, AppendedToConcat
<1>7. s \o <<q, d, q, d>> = Append(s \o <<q, d, q>>, d)
  BY <1>1, <1>2, AppendedToConcat
<1>8. s \o <<q, d, q, d, q>> = Append(s \o <<q, d, q, d>>, q)
  BY <1>1, <1>2, AppendedToConcat
<1> QED BY <1>4, <1>5, <1>6, <1>7, <1>8

LEMMA Distinct ==
    /\ Quoting!Quote \notin {Quoting!DoubleQuote, Quoting!Backslash, Quoting!Space,
                             Quoting!Newline, Quoting!Dollar, "none"}
    /\ Quoting!DoubleQuote \notin {Quoting!Backslash, Quoting!Space, Quoting!Newline,
                                   Quoting!Dollar, "none"}
    /\ Quoting!Space \notin {Quoting!Backslash, Quoting!Newline, Quoting!Dollar, "none"}
BY DEF Quoting!Quote, Quoting!DoubleQuote, Quoting!Backslash, Quoting!Dollar, Quoting!Space,
       Quoting!Newline

\* What the shell makes of a character in single quotes, of the quotes and of a
\* space outside them, and of a single quote that comes in double quotes.
LEMMA ShellKeeps ==
    ASSUME NEW s, NEW front, NEW word \in Seq(Quoting!Characters),
           NEW c \in Quoting!Characters,
           \/ c # Quoting!Quote /\ ShellIs(s, front, word, Quoting!Quote, TRUE)
           \/ c = Quoting!Quote /\ ShellIs(s, front, word, Quoting!DoubleQuote, TRUE)
    PROVE  ShellIs(Quoting!ShellRead(s, c), front, Append(word, c), s.quote, TRUE)
<1>1. Quoting!ShellRead(s, c) = Quoting!ShellAdd(s, <<c>>)
  BY Distinct DEF Quoting!ShellRead, ShellIs
<1>2. word \o <<c>> = Append(word, c)
  BY AppendIsConcat
<1>3. ShellIs(s, front, word, s.quote, TRUE)
  BY DEF ShellIs
<1>4. ShellIs(Quoting!ShellAdd(s, <<c>>), front, word \o <<c>>, s.quote, TRUE)
  BY <1>3 DEF ShellIs, Quoting!ShellAdd
<1> QED BY <1>1, <1>2, <1>4

LEMMA ShellCloses ==
    ASSUME NEW s, NEW front, NEW word, NEW q \in {Quoting!Quote, Quoting!DoubleQuote},
           ShellIs(s, front, word, q, TRUE)
    PROVE  ShellIs(Quoting!ShellRead(s, q), front, word, "none", TRUE)
<1>1. Quoting!ShellRead(s, q) = [s EXCEPT !.quote = "none"]
  BY Distinct DEF Quoting!ShellRead, ShellIs
<1>2. ShellIs([s EXCEPT !.quote = "none"], front, word, "none", TRUE)
  BY DEF ShellIs
<1> QED BY <1>1, <1>2

LEMMA ShellOpens ==
    ASSUME NEW s, NEW front, NEW word, NEW in, NEW q \in {Quoting!Quote, Quoting!DoubleQuote},
           ShellIs(s, front, word, "none", in)
    PROVE  ShellIs(Quoting!ShellRead(s, q), front, word, q, TRUE)
<1>1. Quoting!ShellRead(s, q) = [s EXCEPT !.quote = q, !.inWord = TRUE]
  BY Distinct DEF Quoting!ShellRead, ShellIs
<1>2. ShellIs([s EXCEPT !.quote = q, !.inWord = TRUE], front, word, q, TRUE)
  BY DEF ShellIs
<1> QED BY <1>1, <1>2

LEMMA ShellEnds ==
    ASSUME NEW s, NEW front, NEW word, ShellIs(s, front, word, "none", TRUE)
    PROVE  /\ ShellIs(Quoting!ShellEndWord(s), Append(front, word), <<>>, "none", FALSE)
           /\ Quoting!ShellRead(s, Quoting!Space) = Quoting!ShellEndWord(s)
<1>1. Quoting!ShellRead(s, Quoting!Space) = Quoting!ShellEndWord(s)
  BY Distinct DEF Quoting!ShellRead, ShellIs
<1>2. ShellIs(Quoting!ShellEndWord(s), Append(front, word), <<>>, "none", FALSE)
  BY DEF ShellIs, Quoting!ShellEndWord
<1> QED BY <1>1, <1>2

\* The same for parse_shell_words.
LEMMA ServerKeeps ==
    ASSUME NEW s, NEW front, NEW word, NEW c,
           \/ c # Quoting!Quote /\ ServerIs(s, front, word, Quoting!Quote)
           \/ c = Quoting!Quote /\ ServerIs(s, front, word, Quoting!DoubleQuote)
    PROVE  ServerIs(Quoting!ReadCharacter(s, c), front, Append(word, c), s.quote)
<1>1. Quoting!ReadCharacter(s, c) = [s EXCEPT !.word = Append(@, c)]
  BY Distinct DEF Quoting!ReadCharacter, ServerIs
<1>2. ServerIs(s, front, word, s.quote)
  BY DEF ServerIs
<1>3. ServerIs([s EXCEPT !.word = Append(@, c)], front, Append(word, c), s.quote)
  BY <1>2 DEF ServerIs
<1> QED BY <1>1, <1>3

LEMMA ServerCloses ==
    ASSUME NEW s, NEW front, NEW word, NEW q \in {Quoting!Quote, Quoting!DoubleQuote},
           ServerIs(s, front, word, q)
    PROVE  ServerIs(Quoting!ReadCharacter(s, q), front, word, "none")
<1>1. Quoting!ReadCharacter(s, q) = [s EXCEPT !.quote = "none"]
  BY Distinct DEF Quoting!ReadCharacter, ServerIs
<1>2. ServerIs([s EXCEPT !.quote = "none"], front, word, "none")
  BY DEF ServerIs
<1> QED BY <1>1, <1>2

LEMMA ServerOpens ==
    ASSUME NEW s, NEW front, NEW word, NEW q \in {Quoting!Quote, Quoting!DoubleQuote},
           ServerIs(s, front, word, "none")
    PROVE  ServerIs(Quoting!ReadCharacter(s, q), front, word, q)
<1>1. Quoting!ReadCharacter(s, q) = [s EXCEPT !.quote = q]
  BY Distinct DEF Quoting!ReadCharacter, ServerIs
<1>2. ServerIs([s EXCEPT !.quote = q], front, word, q)
  BY DEF ServerIs
<1> QED BY <1>1, <1>2

LEMMA ServerEnds ==
    ASSUME NEW s, NEW front \in Seq(Seq(Quoting!Characters)), NEW word \in Seq(Quoting!Characters),
           ServerIs(s, front, word, "none")
    PROVE  /\ ServerIs(Quoting!EndWord(s), Append(front, word), <<>>, "none")
           /\ Quoting!ReadCharacter(s, Quoting!Space) = Quoting!EndWord(s)
<1>1. Quoting!ReadCharacter(s, Quoting!Space) = Quoting!EndWord(s)
  BY Distinct DEF Quoting!ReadCharacter, ServerIs
<1>2. Quoting!NotEmpty(Append(front, word)) =
        IF word = <<>> THEN Quoting!NotEmpty(front) ELSE Append(Quoting!NotEmpty(front), word)
  BY NotEmptyNext DEF Quoting!KeepWord
<1>3. ServerIs(Quoting!EndWord(s), Append(front, word), <<>>, "none")
  <2>1. CASE word = <<>>
    BY <1>2, <2>1 DEF ServerIs, Quoting!EndWord
  <2>2. CASE word # <<>>
    BY <1>2, <2>2 DEF ServerIs, Quoting!EndWord
  <2> QED BY <2>1, <2>2
<1> QED BY <1>1, <1>3

LEMMA TheCharacters ==
    /\ Quoting!Quote \in Quoting!Characters /\ Quoting!DoubleQuote \in Quoting!Characters
    /\ Quoting!Space \in Quoting!Characters
    /\ Quoting!Quote \notin Special /\ Quoting!DoubleQuote \notin Special
    /\ Quoting!Space \notin Special
BY Distinct DEF Quoting!Characters, Special

\* A line that is one character longer.
LEMMA OneMore ==
    ASSUME NEW line \in Seq(Quoting!Characters), NEW x \in Quoting!Characters
    PROVE  /\ Append(line, x) \in Seq(Quoting!Characters) /\ Append(line, x) # <<>>
           /\ Shell(Append(line, x)) = Quoting!ShellRead(Shell(line), x)
           /\ Server(Append(line, x)) = Quoting!ReadCharacter(Server(line), x)
           /\ Quoting!ToSet(Append(line, x)) \cap Special # {} <=>
                Quoting!ToSet(line) \cap Special # {} \/ x \in Special
<1>1. Append(line, x) \in Seq(Quoting!Characters) /\ Append(line, x) # <<>>
  BY AppendProperties
<1>2. Shell(Append(line, x)) = Quoting!ShellRead(Shell(line), x)
  BY ShellNext
<1>3. Server(Append(line, x)) = Quoting!ReadCharacter(Server(line), x)
  BY ServerNext
<1>4. Quoting!ToSet(Append(line, x)) = Quoting!ToSet(line) \cup {x}
  BY SetOfAppend
<1>5. (Quoting!ToSet(line) \cup {x}) \cap Special # {} <=>
                Quoting!ToSet(line) \cap Special # {} \/ x \in Special
  OBVIOUS
<1> QED BY <1>1, <1>2, <1>3, <1>4, <1>5

\* The first argument is begun.
LEMMA FirstWord == ReadSoFar(<<>>, <<>>)
<1>1. <<>> \in Seq(Quoting!Characters) /\ <<>> \in Seq(Seq(Quoting!Characters))
  OBVIOUS
<1>2. /\ Encoded(<<>>) = <<>> /\ Quoted(<<>>) = <<Quoting!Quote>>
      /\ Shell(<<>>) = Quoting!NoShellWords /\ Server(<<>>) = Quoting!NoWords
      /\ Quoting!NotEmpty(<<>>) = <<>>
  <2>1. Encoded(<<>>) = <<>> /\ Quoting!NotEmpty(<<>>) = <<>>
    BY <1>1, EncodedNext, NotEmptyNext
  <2>2. Quoted(<<>>) = <<Quoting!Quote>>
    BY <1>1, TheCharacters, QuotedNext
  <2>3. Shell(<<>>) = Quoting!NoShellWords /\ Server(<<>>) = Quoting!NoWords
    BY <1>1, TheCharacters, ShellNext, ServerNext
  <2> QED BY <2>1, <2>2, <2>3
<1>3. /\ Opened(Encoded(<<>>)) = <<>> /\ Quoted(<<>>) \in Seq(Quoting!Characters)
      /\ Body(<<>>, <<>>) = Append(<<>>, Quoting!Quote)
  <2>1. <<Quoting!Quote>> \in Seq(Quoting!Characters)
    BY TheCharacters
  <2>2. <<>> \o <<Quoting!Quote>> = Append(<<>>, Quoting!Quote)
    BY <1>1, TheCharacters, AppendIsConcat
  <2> QED BY <1>2, <2>1, <2>2 DEF Body, Opened
<1>4. /\ ShellIs(Quoting!NoShellWords, <<>>, <<>>, "none", FALSE)
      /\ ServerIs(Quoting!NoWords, <<>>, <<>>, "none")
  BY <1>2 DEF ShellIs, ServerIs, Quoting!NoShellWords, Quoting!NoWords
<1>5. PICK line : line = <<>>
  OBVIOUS
<1>6. /\ Shell(Append(line, Quoting!Quote)) = Quoting!ShellRead(Shell(line), Quoting!Quote)
      /\ Server(Append(line, Quoting!Quote)) = Quoting!ReadCharacter(Server(line), Quoting!Quote)
      /\ Quoting!ToSet(Append(line, Quoting!Quote)) \cap Special # {} <=>
                Quoting!ToSet(line) \cap Special # {} \/ Quoting!Quote \in Special
  BY <1>1, <1>5, TheCharacters, OneMore
<1>7. /\ ShellIs(Quoting!ShellRead(Shell(line), Quoting!Quote), <<>>, <<>>, Quoting!Quote, TRUE)
      /\ ServerIs(Quoting!ReadCharacter(Server(line), Quoting!Quote), <<>>, <<>>, Quoting!Quote)
  BY <1>2, <1>4, <1>5, ShellOpens, ServerOpens
<1>8. Quoting!ToSet(Body(<<>>, <<>>)) \cap Special = {}
  <2>1. Quoting!ToSet(line) = {}
    BY <1>5 DEF Quoting!ToSet
  <2> QED BY <1>3, <1>5, <1>6, <2>1, TheCharacters
<1>9. ~HasSpecial(Append(<<>>, <<>>))
  <2>1. ~HasSpecial(<<>>) /\ Quoting!ToSet(<<>>) \cap Special = {}
    BY DEF HasSpecial, Quoting!ToSet
  <2> QED BY <2>1, <1>1, SpecialInAppend
<1> QED BY <1>1, <1>3, <1>5, <1>6, <1>7, <1>8, <1>9 DEF ReadSoFar

\* A character is added to the last argument.
LEMMA NextCharacter ==
    ASSUME NEW front, NEW word, NEW c \in Quoting!Characters, ReadSoFar(front, word)
    PROVE  ReadSoFar(front, Append(word, c))
<1>1. /\ front \in Seq(Seq(Quoting!Characters)) /\ word \in Seq(Quoting!Characters)
      /\ Opened(Encoded(front)) \in Seq(Quoting!Characters)
      /\ Quoted(word) \in Seq(Quoting!Characters)
  BY DEF ReadSoFar
<1>2. Append(word, c) \in Seq(Quoting!Characters)
  BY <1>1, AppendProperties
<1>3. PICK body : body = Body(front, word)
  OBVIOUS
<1>4. /\ body \in Seq(Quoting!Characters)
      /\ ShellIs(Shell(body), front, word, Quoting!Quote, TRUE)
      /\ ServerIs(Server(body), front, word, Quoting!Quote)
      /\ Quoting!ToSet(body) \cap Special # {} <=> HasSpecial(Append(front, word))
  BY <1>1, <1>3, ConcatProperties DEF ReadSoFar, Body
<1>5. Quoting!QuoteCharacter(c) \in Seq(Quoting!Characters)
  BY TheCharacters DEF Quoting!QuoteCharacter
<1>6. /\ Quoted(Append(word, c)) = Quoted(word) \o Quoting!QuoteCharacter(c)
      /\ Quoted(Append(word, c)) \in Seq(Quoting!Characters)
  BY <1>1, <1>5, QuotedNext, ConcatProperties DEF Quoting!AddQuoted
<1>7. Body(front, Append(word, c)) = body \o Quoting!QuoteCharacter(c)
  <2>1. PICK o, q, t : /\ o = Opened(Encoded(front)) /\ q = Quoted(word)
                       /\ t = Quoting!QuoteCharacter(c)
    OBVIOUS
  <2>2. o \o (q \o t) = (o \o q) \o t
    BY <1>1, <1>5, <2>1, ConcatAssociative
  <2>3. Body(front, Append(word, c)) = o \o (q \o t) /\ body = o \o q
    BY <1>3, <1>6, <2>1 DEF Body
  <2> QED BY <2>1, <2>2, <2>3
<1>8. HasSpecial(Append(front, Append(word, c))) <=>
        HasSpecial(Append(front, word)) \/ c \in Special
  <2>1. HasSpecial(Append(front, Append(word, c))) <=>
            HasSpecial(front) \/ Quoting!ToSet(Append(word, c)) \cap Special # {}
    BY <1>1, <1>2, SpecialInAppend
  <2>2. HasSpecial(Append(front, word)) <=>
            HasSpecial(front) \/ Quoting!ToSet(word) \cap Special # {}
    BY <1>1, SpecialInAppend
  <2>3. Quoting!ToSet(Append(word, c)) \cap Special # {} <=>
            Quoting!ToSet(word) \cap Special # {} \/ c \in Special
    BY <1>1, OneMore
  <2> QED BY <2>1, <2>2, <2>3
<1>9. PICK longer : longer = Body(front, Append(word, c))
  OBVIOUS
<1>10. /\ ShellIs(Shell(longer), front, Append(word, c), Quoting!Quote, TRUE)
       /\ ServerIs(Server(longer), front, Append(word, c), Quoting!Quote)
       /\ Quoting!ToSet(longer) \cap Special # {} <=>
            Quoting!ToSet(body) \cap Special # {} \/ c \in Special
  <2>1. CASE c # Quoting!Quote
    <3>1. longer = Append(body, c)
      BY <1>4, <1>7, <1>9, <2>1, AppendIsConcat DEF Quoting!QuoteCharacter
    <3>2. /\ Shell(longer) = Quoting!ShellRead(Shell(body), c)
          /\ Server(longer) = Quoting!ReadCharacter(Server(body), c)
          /\ Quoting!ToSet(longer) \cap Special # {} <=>
                Quoting!ToSet(body) \cap Special # {} \/ c \in Special
      BY <1>4, <3>1, OneMore
    <3>3. (Shell(body)).quote = Quoting!Quote /\ (Server(body)).quote = Quoting!Quote
      BY <1>4 DEF ShellIs, ServerIs
    <3>4. ShellIs(Quoting!ShellRead(Shell(body), c), front, Append(word, c), Quoting!Quote, TRUE)
      BY <1>1, <1>4, <2>1, <3>3, ShellKeeps
    <3>5. ServerIs(Quoting!ReadCharacter(Server(body), c), front, Append(word, c), Quoting!Quote)
      BY <1>4, <2>1, <3>3, ServerKeeps
    <3> QED BY <3>2, <3>4, <3>5
  <2>2. CASE c = Quoting!Quote
    <3> DEFINE Q == Quoting!Quote
               D == Quoting!DoubleQuote
    <3>1. PICK b1 : b1 = Append(body, Q)
      OBVIOUS
    <3>2. PICK b2 : b2 = Append(b1, D)
      OBVIOUS
    <3>3. PICK b3 : b3 = Append(b2, Q)
      OBVIOUS
    <3>4. PICK b4 : b4 = Append(b3, D)
      OBVIOUS
    <3>5. PICK b5 : b5 = Append(b4, Q)
      OBVIOUS
    <3>6. longer = b5
      <4>1. body \o <<Q, D, Q, D, Q>> = Append(Append(Append(Append(Append(body, Q), D), Q), D), Q)
        <5>1. Q \in Quoting!Characters /\ D \in Quoting!Characters
          BY TheCharacters
        <5> HIDE DEF Q, D
        <5> QED BY <1>4, <5>1, FiveAppended
      <4>2. Quoting!QuoteCharacter(c) = <<Q, D, Q, D, Q>>
        BY <2>2 DEF Quoting!QuoteCharacter
      <4> QED BY <4>1, <4>2, <1>7, <1>9, <3>1, <3>2, <3>3, <3>4, <3>5
    <3>7. /\ b1 \in Seq(Quoting!Characters)
          /\ Shell(b1) = Quoting!ShellRead(Shell(body), Q)
          /\ Server(b1) = Quoting!ReadCharacter(Server(body), Q)
          /\ Quoting!ToSet(b1) \cap Special # {} <=> Quoting!ToSet(body) \cap Special # {}
      BY <1>4, <3>1, TheCharacters, OneMore
    <3>8. /\ b2 \in Seq(Quoting!Characters)
          /\ Shell(b2) = Quoting!ShellRead(Shell(b1), D)
          /\ Server(b2) = Quoting!ReadCharacter(Server(b1), D)
          /\ Quoting!ToSet(b2) \cap Special # {} <=> Quoting!ToSet(b1) \cap Special # {}
      BY <3>7, <3>2, TheCharacters, OneMore
    <3>9. /\ b3 \in Seq(Quoting!Characters)
          /\ Shell(b3) = Quoting!ShellRead(Shell(b2), Q)
          /\ Server(b3) = Quoting!ReadCharacter(Server(b2), Q)
          /\ Quoting!ToSet(b3) \cap Special # {} <=> Quoting!ToSet(b2) \cap Special # {}
      BY <3>8, <3>3, TheCharacters, OneMore
    <3>10. /\ b4 \in Seq(Quoting!Characters)
           /\ Shell(b4) = Quoting!ShellRead(Shell(b3), D)
           /\ Server(b4) = Quoting!ReadCharacter(Server(b3), D)
           /\ Quoting!ToSet(b4) \cap Special # {} <=> Quoting!ToSet(b3) \cap Special # {}
      BY <3>9, <3>4, TheCharacters, OneMore
    <3>11. /\ Shell(b5) = Quoting!ShellRead(Shell(b4), Q)
           /\ Server(b5) = Quoting!ReadCharacter(Server(b4), Q)
           /\ Quoting!ToSet(b5) \cap Special # {} <=> Quoting!ToSet(b4) \cap Special # {}
      BY <3>10, <3>5, TheCharacters, OneMore
    <3>12. /\ ShellIs(Shell(b1), front, word, "none", TRUE)
           /\ ServerIs(Server(b1), front, word, "none")
      BY <1>4, <3>7, ShellCloses, ServerCloses
    <3>13. ShellIs(Shell(b2), front, word, D, TRUE) /\ ServerIs(Server(b2), front, word, D)
      BY <3>12, <3>8, ShellOpens, ServerOpens
    <3>14. (Shell(b2)).quote = D /\ (Server(b2)).quote = D
      BY <3>13 DEF ShellIs, ServerIs
    <3>15. /\ ShellIs(Shell(b3), front, Append(word, Q), D, TRUE)
           /\ ServerIs(Server(b3), front, Append(word, Q), D)
      BY <1>1, <3>9, <3>13, <3>14, TheCharacters, ShellKeeps, ServerKeeps
    <3>16. /\ ShellIs(Shell(b4), front, Append(word, Q), "none", TRUE)
           /\ ServerIs(Server(b4), front, Append(word, Q), "none")
      BY <3>10, <3>15, ShellCloses, ServerCloses
    <3>17. /\ ShellIs(Shell(b5), front, Append(word, Q), Q, TRUE)
           /\ ServerIs(Server(b5), front, Append(word, Q), Q)
      BY <3>11, <3>16, ShellOpens, ServerOpens
    <3> QED BY <2>2, <3>6, <3>7, <3>8, <3>9, <3>10, <3>11, <3>17, TheCharacters
  <2> QED BY <2>1, <2>2
<1> QED BY <1>1, <1>2, <1>4, <1>6, <1>8, <1>9, <1>10 DEF ReadSoFar

\* The line of the arguments as they are: the text so far and its last quote.
LEMMA Closed ==
    ASSUME NEW front, NEW word, ReadSoFar(front, word)
    PROVE  /\ Encoded(Append(front, word)) = Append(Body(front, word), Quoting!Quote)
           /\ Body(front, word) \in Seq(Quoting!Characters)
<1>1. /\ front \in Seq(Seq(Quoting!Characters)) /\ word \in Seq(Quoting!Characters)
      /\ Opened(Encoded(front)) \in Seq(Quoting!Characters)
      /\ Quoted(word) \in Seq(Quoting!Characters)
  BY DEF ReadSoFar
<1>2. Encoded(Append(front, word)) = Quoting!AddArgument(Encoded(front), word)
  BY <1>1, EncodedNext
<1>3. Quoting!AddArgument(Encoded(front), word) =
        Opened(Encoded(front)) \o Append(Quoted(word), Quoting!Quote)
  BY Zenon DEF Quoting!AddArgument, Quoting!QuoteArgument, Opened, Quoted
<1>4. Opened(Encoded(front)) \o Append(Quoted(word), Quoting!Quote) =
        Append(Opened(Encoded(front)) \o Quoted(word), Quoting!Quote)
  BY <1>1, TheCharacters, AppendedToConcat
<1>5. Opened(Encoded(front)) \o Quoted(word) \in Seq(Quoting!Characters)
  BY <1>1, ConcatProperties
<1> QED BY <1>2, <1>3, <1>4, <1>5 DEF Body

\* The next argument is begun.
LEMMA NextWord ==
    ASSUME NEW front, NEW word, ReadSoFar(front, word)
    PROVE  ReadSoFar(Append(front, word), <<>>)
<1> DEFINE Q == Quoting!Quote
           S == Quoting!Space
<1>1. /\ front \in Seq(Seq(Quoting!Characters)) /\ word \in Seq(Quoting!Characters)
      /\ Append(front, word) \in Seq(Seq(Quoting!Characters))
      /\ <<>> \in Seq(Quoting!Characters)
  BY AppendProperties DEF ReadSoFar
<1>2. PICK body : body = Body(front, word)
  OBVIOUS
<1>3. /\ body \in Seq(Quoting!Characters)
      /\ ShellIs(Shell(body), front, word, Q, TRUE)
      /\ ServerIs(Server(body), front, word, Q)
      /\ Quoting!ToSet(body) \cap Special # {} <=> HasSpecial(Append(front, word))
  BY <1>2, Closed DEF ReadSoFar
<1>4. PICK b1 : b1 = Append(body, Q)
  OBVIOUS
<1>5. PICK b2 : b2 = Append(b1, S)
  OBVIOUS
<1>6. PICK b3 : b3 = Append(b2, Q)
  OBVIOUS
<1>7. /\ b1 \in Seq(Quoting!Characters) /\ b1 # <<>>
      /\ Shell(b1) = Quoting!ShellRead(Shell(body), Q)
      /\ Server(b1) = Quoting!ReadCharacter(Server(body), Q)
      /\ Quoting!ToSet(b1) \cap Special # {} <=> Quoting!ToSet(body) \cap Special # {}
  BY <1>3, <1>4, TheCharacters, OneMore
<1>8. /\ b2 \in Seq(Quoting!Characters)
      /\ Shell(b2) = Quoting!ShellRead(Shell(b1), S)
      /\ Server(b2) = Quoting!ReadCharacter(Server(b1), S)
      /\ Quoting!ToSet(b2) \cap Special # {} <=> Quoting!ToSet(b1) \cap Special # {}
  BY <1>7, <1>5, TheCharacters, OneMore
<1>9. /\ Shell(b3) = Quoting!ShellRead(Shell(b2), Q)
      /\ Server(b3) = Quoting!ReadCharacter(Server(b2), Q)
      /\ Quoting!ToSet(b3) \cap Special # {} <=> Quoting!ToSet(b2) \cap Special # {}
  BY <1>8, <1>6, TheCharacters, OneMore
<1>10. ShellIs(Shell(b1), front, word, "none", TRUE) /\ ServerIs(Server(b1), front, word, "none")
  BY <1>3, <1>7, ShellCloses, ServerCloses
<1>11. /\ ShellIs(Shell(b2), Append(front, word), <<>>, "none", FALSE)
       /\ ServerIs(Server(b2), Append(front, word), <<>>, "none")
  BY <1>1, <1>8, <1>10, ShellEnds, ServerEnds
<1>12. /\ ShellIs(Shell(b3), Append(front, word), <<>>, Q, TRUE)
       /\ ServerIs(Server(b3), Append(front, word), <<>>, Q)
  BY <1>9, <1>11, ShellOpens, ServerOpens
<1>13. Opened(Encoded(Append(front, word))) = b2
  <2>1. Encoded(Append(front, word)) = b1
    BY <1>2, <1>4, Closed
  <2> QED BY <2>1, <1>5, <1>7 DEF Opened
<1>14. Quoted(<<>>) = <<Q>> /\ <<Q>> \in Seq(Quoting!Characters)
  BY <1>1, TheCharacters, QuotedNext
<1>15. Body(Append(front, word), <<>>) = b3
  BY <1>6, <1>8, <1>13, <1>14, TheCharacters, AppendIsConcat DEF Body
<1>16. HasSpecial(Append(Append(front, word), <<>>)) <=> HasSpecial(Append(front, word))
  <2>1. Quoting!ToSet(<<>>) \cap Special = {}
    BY DEF Quoting!ToSet
  <2> QED BY <1>1, <2>1, SpecialInAppend
<1> QED BY <1>1, <1>3, <1>7, <1>8, <1>9, <1>12, <1>13, <1>14, <1>15, <1>16 DEF ReadSoFar

\* Typing changes the last argument only.
LEMMA LastReplaced ==
    ASSUME NEW S, NEW s \in Seq(Seq(S)), NEW t \in Seq(S), NEW c \in S
    PROVE  [Append(s, t) EXCEPT ![Len(Append(s, t))] = Append(@, c)] = Append(s, Append(t, c))
<1>1. Append(t, c) \in Seq(S)
  BY AppendProperties
<1>2. PICK n, one, other : n = Len(s) /\ one = Append(s, t) /\ other = Append(s, Append(t, c))
  OBVIOUS
<1>3. /\ n \in Nat /\ one \in Seq(Seq(S)) /\ Len(one) = n + 1 /\ one[n + 1] = t
      /\ \A i \in 1..n : one[i] = s[i]
  BY <1>2, AppendProperties
<1>4. /\ other \in Seq(Seq(S)) /\ Len(other) = n + 1 /\ other[n + 1] = Append(t, c)
      /\ \A i \in 1..n : other[i] = s[i]
  BY <1>1, <1>2, AppendProperties
<1>5. PICK new : new = [one EXCEPT ![n + 1] = Append(@, c)]
  OBVIOUS
<1>6. DOMAIN one = 1..(n + 1) /\ DOMAIN other = 1..(n + 1) /\ n + 1 \in 1..(n + 1)
  BY <1>3, <1>4, LenProperties
<1>7. \A i \in 1..(n + 1) : new[i] = other[i]
  <2> SUFFICES ASSUME NEW i \in 1..(n + 1) PROVE new[i] = other[i]
    OBVIOUS
  <2>1. CASE i = n + 1
    BY <2>1, <1>3, <1>4, <1>5, <1>6
  <2>2. CASE i # n + 1
    <3>1. i \in 1..n
      BY <1>3, <2>2
    <3> QED BY <2>2, <3>1, <1>3, <1>4, <1>5, <1>6
  <2> QED BY <2>1, <2>2
<1>8. /\ new = [i \in 1..(n + 1) |-> new[i]]
      /\ other = [i \in 1..(n + 1) |-> other[i]]
  <2>1. new = [i \in DOMAIN one |-> new[i]]
    BY <1>5
  <2>2. other = [i \in DOMAIN other |-> other[i]]
    BY <1>4
  <2> QED BY <2>1, <2>2, <1>6
<1>9. new = other
  BY <1>7, <1>8
<1> QED BY <1>2, <1>3, <1>5, <1>9

LEMMA QuotingInvStep == QuotingInv /\ [Next]_vars => QuotingInv'
<1> SUFFICES ASSUME QuotingInv, [Next]_vars PROVE QuotingInv'
  OBVIOUS
<1>1. CASE argv' = argv
  BY <1>1 DEF QuotingInv, ReadSoFar
<1>2. CASE Quoting!TypeWord
  <2>1. CASE argv = <<>>
    <3>1. argv' = Append(<<>>, <<>>)
      BY <1>2, <2>1 DEF Quoting!TypeWord
    <3> QED BY <3>1, FirstWord DEF QuotingInv
  <2>2. CASE argv # <<>>
    <3>1. PICK front, word : argv = Append(front, word) /\ ReadSoFar(front, word)
      BY <2>2 DEF QuotingInv
    <3>2. argv' = Append(Append(front, word), <<>>)
      BY <1>2, <3>1 DEF Quoting!TypeWord
    <3>3. ReadSoFar(Append(front, word), <<>>)
      BY <3>1, NextWord
    <3> QED BY <3>2, <3>3 DEF QuotingInv
  <2> QED BY <2>1, <2>2
<1>3. CASE Quoting!TypeCharacter
  <2>1. PICK c \in Quoting!Characters : argv' = [argv EXCEPT ![Len(argv)] = Append(@, c)]
    BY <1>3 DEF Quoting!TypeCharacter
  <2>2. PICK front, word : argv = Append(front, word) /\ ReadSoFar(front, word)
    BY <1>3 DEF Quoting!TypeCharacter, QuotingInv
  <2>3. front \in Seq(Seq(Quoting!Characters)) /\ word \in Seq(Quoting!Characters)
    BY <2>2 DEF ReadSoFar
  <2>4. argv' = Append(front, Append(word, c))
    BY <2>1, <2>2, <2>3, LastReplaced
  <2>5. ReadSoFar(front, Append(word, c))
    BY <2>2, NextCharacter
  <2> QED BY <2>4, <2>5 DEF QuotingInv
<1> QED
  BY <1>1, <1>2, <1>3 DEF Next, vars, RuntimeStep, HalvesStep, LegacyStep, QuotingStep, CliStep,
     Quoting!CommandNext

LEMMA QuotingInvMeans == QuotingInv => QuotingRoundTrip
<1> SUFFICES ASSUME QuotingInv PROVE QuotingRoundTrip
  OBVIOUS
<1>1. PICK typed, line : typed = argv /\ line = Encoded(typed)
  OBVIOUS
<1>2. PICK shell, server : shell = Quoting!ShellEndWord(Shell(line)) /\ server = Server(line)
  OBVIOUS
<1>3. /\ shell.words = typed /\ shell.plain /\ shell.quote = "none" /\ ~shell.escaped
      /\ Quoting!EndWord(server).words = Quoting!NotEmpty(typed)
      /\ server.quote = "none" /\ ~server.escaped
      /\ Quoting!ToSet(line) \cap Special # {} <=> HasSpecial(typed)
  <2>1. CASE typed = <<>>
    <3>1. <<>> \in Seq(Quoting!Characters) /\ <<>> \in Seq(Seq(Quoting!Characters))
      OBVIOUS
    <3>2. Encoded(<<>>) = <<>> /\ Quoting!NotEmpty(<<>>) = <<>>
      BY <3>1, EncodedNext, NotEmptyNext
    <3>3. Shell(<<>>) = Quoting!NoShellWords /\ Server(<<>>) = Quoting!NoWords
      BY <3>1, TheCharacters, ShellNext, ServerNext
    <3>4. shell = Quoting!NoShellWords
      <4>1. Quoting!ShellEndWord(Quoting!NoShellWords) = Quoting!NoShellWords
        BY DEF Quoting!ShellEndWord, Quoting!NoShellWords
      <4> QED BY <1>1, <1>2, <2>1, <3>2, <3>3, <4>1
    <3>5. server = Quoting!NoWords /\ Quoting!EndWord(server) = server
      BY <1>1, <1>2, <2>1, <3>2, <3>3 DEF Quoting!EndWord, Quoting!NoWords
    <3>6. Quoting!ToSet(<<>>) \cap Special = {} /\ ~HasSpecial(<<>>)
      BY DEF Quoting!ToSet, HasSpecial
    <3> QED
      BY <1>1, <2>1, <3>2, <3>4, <3>5, <3>6 DEF Quoting!NoShellWords, Quoting!NoWords
  <2>2. CASE typed # <<>>
    <3>1. PICK front, word : typed = Append(front, word) /\ ReadSoFar(front, word)
      BY <1>1, <2>2 DEF QuotingInv
    <3>2. PICK body : body = Body(front, word)
      OBVIOUS
    <3>3. line = Append(body, Quoting!Quote) /\ body \in Seq(Quoting!Characters)
      BY <1>1, <3>1, <3>2, Closed
    <3>4. /\ ShellIs(Shell(body), front, word, Quoting!Quote, TRUE)
          /\ ServerIs(Server(body), front, word, Quoting!Quote)
          /\ front \in Seq(Seq(Quoting!Characters)) /\ word \in Seq(Quoting!Characters)
          /\ Quoting!ToSet(body) \cap Special # {} <=> HasSpecial(typed)
      BY <3>1, <3>2 DEF ReadSoFar
    <3>5. /\ Shell(line) = Quoting!ShellRead(Shell(body), Quoting!Quote)
          /\ Server(line) = Quoting!ReadCharacter(Server(body), Quoting!Quote)
          /\ Quoting!ToSet(line) \cap Special # {} <=> Quoting!ToSet(body) \cap Special # {}
      BY <3>3, TheCharacters, OneMore
    <3>6. /\ ShellIs(Shell(line), front, word, "none", TRUE)
          /\ ServerIs(Server(line), front, word, "none")
      BY <3>4, <3>5, ShellCloses, ServerCloses
    <3>7. ShellIs(shell, typed, <<>>, "none", FALSE)
      BY <1>2, <3>1, <3>6, ShellEnds
    <3>8. ServerIs(Quoting!EndWord(server), typed, <<>>, "none")
      BY <1>2, <3>1, <3>4, <3>6, ServerEnds
    <3>9. server.quote = "none" /\ ~server.escaped
      BY <1>2, <3>6 DEF ServerIs
    <3> QED BY <3>4, <3>5, <3>7, <3>8, <3>9 DEF ShellIs, ServerIs
  <2> QED BY <2>1, <2>2
<1>4. /\ Quoting!PosixShell(line) = shell
      /\ Quoting!Scan(Quoting!ReadCharacter, Quoting!NoWords, line) = server
  BY <1>2, Zenon DEF Quoting!PosixShell, Shell, Server
<1>5. PICK read : read = Quoting!ParseShellWords(line)
  OBVIOUS
<1>6. read = IF Quoting!ToSet(line) \cap Special # {} THEN Quoting!Unreadable
             ELSE [error |-> FALSE, words |-> Quoting!EndWord(server).words]
  <2>1. Quoting!ToSet(line) \cap Special # {} <=>
            Quoting!Dollar \in Quoting!ToSet(line) \/ Quoting!Newline \in Quoting!ToSet(line)
    BY DEF Special
  <2>2. read = IF \/ Quoting!Dollar \in Quoting!ToSet(line)
                  \/ Quoting!Newline \in Quoting!ToSet(line)
                  \/ server.escaped \/ server.quote # "none"
               THEN Quoting!Unreadable
               ELSE [error |-> FALSE, words |-> Quoting!EndWord(server).words]
    BY <1>4, <1>5, Zenon DEF Quoting!ParseShellWords
  <2> QED BY <2>1, <2>2, <1>3
<1>7. /\ read.error <=> HasSpecial(typed)
      /\ ~read.error => read.words = Quoting!NotEmpty(typed)
  BY <1>3, <1>6 DEF Quoting!Unreadable
<1>8. HasSpecial(typed) <=>
        \E i \in DOMAIN typed : Quoting!ToSet(typed[i]) \cap {Quoting!Dollar, Quoting!Newline} # {}
  BY DEF HasSpecial, Special
<1>9. /\ argv = typed /\ Quoting!PosixShell(Quoting!EncodePosixRemoteCommand(argv)) = shell
      /\ Quoting!ParseShellWords(Quoting!EncodePosixRemoteCommand(argv)) = read
  BY <1>1, <1>4, <1>5 DEF Encoded
<1> QED
  BY <1>3, <1>7, <1>8, <1>9 DEF QuotingRoundTrip, Quoting!QuotingRoundTrip

\* For every argument vector of any length: the remote shell reads from the line
\* of encode_posix_remote_command exactly the arguments, and the hermetic
\* server's parser the ones that are not empty or an error.
THEOREM QuotingReadBack == Spec => []QuotingRoundTrip
<1>1. Init => QuotingInv
  BY DEF Init, Quoting!CommandInit, QuotingInv
<1> QED BY <1>1, QuotingInvStep, QuotingInvMeans, PTL DEF Spec
=============================================================================
