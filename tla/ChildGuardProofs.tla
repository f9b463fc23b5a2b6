-------------------------- MODULE ChildGuardProofs --------------------------
(***************************************************************************)
(* Theorems about ChildGuard, for any set of guards and any number of      *)
(* failing calls of the operating system.                                  *)
(***************************************************************************)
EXTENDS ChildGuard, SequenceTheorems, FiniteSetTheorems, TLAPS

\* The type of the processes and their guards, but for their flags.
GuardsOK ==
    /\ proc \in [Guards -> {"none", "running", "exited", "reaped"}]
    /\ owner \in [Guards -> {"nobody", "guard", "queue", "reaper"}]
    /\ pc \in [Guards -> {"new", "spawning", "idle", "poll", "gone"} \cup CleanupSteps]
    /\ why \in [Guards -> {"none", "terminate", "timeout", "observe", "observe_keep", "drop"}]
    /\ result \in [Guards -> {"none", "ok", "io", "pending", "timed_out", "deferred"}]

\* The type of the flags.
FlagsOK ==
    /\ signalled \in [Guards -> BOOLEAN]
    /\ killed \in [Guards -> BOOLEAN] /\ lastError \in [Guards -> BOOLEAN]

\* The type of the reaper and its vectors.
ReaperOK ==
    /\ reaper \in {"none", "ready", "failed"}
    /\ pending \in Seq(Guards) /\ active \in Seq(Guards) /\ index \in 0..Len(active)
    /\ rpc \in {"off", "lock", "waiting", "timed", "scan"}
    /\ failed \in 0..Failures

LEMMA Types == TypeOK <=> GuardsOK /\ FlagsOK /\ ReaperOK
BY Zenon DEF TypeOK, GuardsOK, FlagsOK, ReaperOK

\* Setting one flag keeps the type of all.
LEMMA FlagSet ==
    ASSUME NEW f \in [Guards -> BOOLEAN], NEW g \in Guards, NEW b \in BOOLEAN
    PROVE  [f EXCEPT ![g] = b] \in [Guards -> BOOLEAN]
BY Zenon

\* The child that a pass of the reaper looks at.
LEMMA ScannedChild ==
    ASSUME ReaperOK, index > 0
    PROVE  active[index] \in Guards /\ index \in 1..Len(active)
BY ElementOfSeq, LenProperties DEF ReaperOK

\* What swap_remove returns.
LEMMA SwapRemoveResult ==
    ASSUME ReaperOK, NEW i \in 1..Len(active)
    PROVE  /\ SwapRemove(i) \in Seq(Guards) /\ Len(SwapRemove(i)) = Len(active) - 1
           /\ \A j \in 1..(Len(active) - 1) :
                SwapRemove(i)[j] = IF j = i THEN active[Len(active)] ELSE active[j]
<1>1. Len(active) \in Nat /\ \A j \in 1..Len(active) : active[j] \in Guards
  BY ElementOfSeq, LenProperties DEF ReaperOK
<1>2. \A j \in 1..(Len(active) - 1) :
         (IF j = i THEN active[Len(active)] ELSE active[j]) \in Guards
  BY <1>1
<1>3. SwapRemove(i) \in Seq(Guards) /\ Len(SwapRemove(i)) = Len(active) - 1
  BY <1>1, <1>2, IsASeq DEF SwapRemove
<1> QED BY <1>3 DEF SwapRemove

LEMMA InitType == Init => TypeOK
<1> SUFFICES ASSUME Init PROVE TypeOK
  OBVIOUS
<1>1. GuardsOK
  BY DEF Init, GuardsOK
<1>2. FlagsOK
  BY Zenon DEF Init, FlagsOK
<1>3. ReaperOK
  BY FailuresAssumption DEF Init, ReaperOK
<1> QED BY <1>1, <1>2, <1>3, Types

\* The processes and their guards.
LEMMA StepGuards ==
    ASSUME TypeOK, OwnersPlaced, Next
    PROVE  GuardsOK'
<1> USE Types DEF GuardsOK, CleanupSteps, cleanupVars, guardVars, reaperVars, procVars
<1>1. ASSUME NEW g \in Guards, Exit(g) PROVE GuardsOK'
  BY <1>1 DEF Exit
<1>2. ASSUME NEW g \in Guards, SpawnReaper(g) PROVE GuardsOK'
  BY <1>2 DEF SpawnReaper, Fail, At, Answer
<1>3. ASSUME NEW g \in Guards, SpawnChild(g) PROVE GuardsOK'
  BY <1>3 DEF SpawnChild, Fail, At, Answer
<1>4. ASSUME NEW g \in Guards, WaitCall(g) PROVE GuardsOK'
  BY <1>4 DEF WaitCall, Owns, At, Answer
<1>5. ASSUME NEW g \in Guards, TerminateCall(g) PROVE GuardsOK'
  BY <1>5 DEF TerminateCall, Owns, BeginCleanup, At, Answer
<1>6. ASSUME NEW g \in Guards, Drop(g) PROVE GuardsOK'
  BY <1>6 DEF Drop, Owns, BeginCleanup, At
<1>7. ASSUME NEW g \in Guards, PollStatus(g) PROVE GuardsOK'
  BY <1>7 DEF PollStatus, Owns, Release, Answer, Fail, At
<1>8. ASSUME NEW g \in Guards, PollError(g) PROVE GuardsOK'
  BY <1>8 DEF PollError, Owns, TryWait, Fail, BeginCleanup, At
<1>9. ASSUME NEW g \in Guards, PollPending(g) PROVE GuardsOK'
  BY <1>9 DEF PollPending, Owns, TryWait, Fail, Answer
<1>10. ASSUME NEW g \in Guards, WaitDeadline(g) PROVE GuardsOK'
  BY <1>10 DEF WaitDeadline, TryWait, Fail, BeginCleanup, At
<1>11. ASSUME NEW g \in Guards, CleanupKill(g) PROVE GuardsOK'
  BY <1>11 DEF CleanupKill, Kill, Fail, At
<1>12. ASSUME NEW g \in Guards, CleanupReap(g) PROVE GuardsOK'
  <2>1. \A r \in ReapedResults(g) :
           r \in {"none", "ok", "io", "pending", "timed_out", "deferred"}
    BY <1>12 DEF CleanupReap, OwnersPlaced, ReapedResults
  <2> QED BY <1>12, <2>1
    DEF CleanupReap, TryWait, Fail, Release, Answer, EndCleanup, After, At
<1>13. ASSUME NEW g \in Guards, CleanupAgain(g) PROVE GuardsOK'
  BY <1>13 DEF CleanupAgain, At
<1>14. ASSUME NEW g \in Guards, Defer(g) PROVE GuardsOK'
  BY <1>14 DEF Defer, At
<1>15. ASSUME NEW g \in Guards, EnqueueNotify(g) PROVE GuardsOK'
  BY <1>15 DEF EnqueueNotify, Answer, EndCleanup, After, At
<1>16. CASE ReaperLock
  BY <1>16 DEF ReaperLock, ReaperTake
<1>17. CASE ReaperTick
  BY <1>17 DEF ReaperTick, ReaperTake
<1>18. CASE ReaperScan
  <2>1. active[index] \in Guards
    BY <1>18, ScannedChild, Types DEF ReaperScan
  <2> QED BY <1>18, <2>1 DEF ReaperScan, TryWait, Kill, Fail, Release
<1>19. CASE UNCHANGED <<proc, owner, pc, why, result>>
  BY <1>19
<1> QED BY <1>1, <1>2, <1>3, <1>4, <1>5, <1>6, <1>7, <1>8, <1>9, <1>10, <1>11,
   <1>12, <1>13, <1>14, <1>15, <1>16, <1>17, <1>18, <1>19
   DEF Next, ReaperStep, ReaperPassEnds

\* The flags.
LEMMA StepFlags ==
    ASSUME TypeOK, Next
    PROVE  FlagsOK'
<1> USE Types DEF FlagsOK, cleanupVars, guardVars, reaperVars, procVars
<1>1. ASSUME NEW g \in Guards, TerminateCall(g) PROVE FlagsOK'
  BY <1>1, FlagSet, Zenon DEF TerminateCall, Owns, BeginCleanup, At, Answer
<1>2. ASSUME NEW g \in Guards, Drop(g) PROVE FlagsOK'
  BY <1>2, FlagSet, Zenon DEF Drop, Owns, BeginCleanup, At
<1>3. ASSUME NEW g \in Guards, PollError(g) PROVE FlagsOK'
  BY <1>3, FlagSet, Zenon DEF PollError, Owns, TryWait, Fail, BeginCleanup, At
<1>4. ASSUME NEW g \in Guards, WaitDeadline(g) PROVE FlagsOK'
  BY <1>4, FlagSet, Zenon DEF WaitDeadline, TryWait, Fail, BeginCleanup, At
<1>5. ASSUME NEW g \in Guards, CleanupKill(g) PROVE FlagsOK'
  <2>1. signalled' \in [Guards -> BOOLEAN]
    BY <1>5, FlagSet, Zenon DEF CleanupKill, Kill
  <2>2. PICK ok \in BOOLEAN : /\ killed' = [killed EXCEPT ![g] = ok]
                             /\ lastError' = [lastError EXCEPT ![g] = lastError[g] \/ ~ok]
    BY <1>5, Zenon DEF CleanupKill
  <2>3. (lastError[g] \/ ~ok) \in BOOLEAN
    OBVIOUS
  <2>4. killed' \in [Guards -> BOOLEAN] /\ lastError' \in [Guards -> BOOLEAN]
    BY <2>2, <2>3, FlagSet, Zenon
  <2> QED BY <2>1, <2>4, Zenon
<1>6. ASSUME NEW g \in Guards, CleanupReap(g) PROVE FlagsOK'
  <2>1. CASE EndCleanup(g)
    BY <1>6, <2>1, FlagSet, Zenon DEF CleanupReap, EndCleanup
  <2>2. ASSUME NEW a, lastError' = [lastError EXCEPT ![g] = lastError[g] \/ a = "error"], killed' = killed
        PROVE  FlagsOK'
    <3>1. (lastError[g] \/ a = "error") \in BOOLEAN
      OBVIOUS
    <3> QED BY <1>6, <2>2, <3>1, FlagSet, Zenon DEF CleanupReap
  <2> QED BY <1>6, <2>1, <2>2, Zenon DEF CleanupReap
<1>7. ASSUME NEW g \in Guards, EnqueueNotify(g) PROVE FlagsOK'
  BY <1>7, FlagSet, Zenon DEF EnqueueNotify, Answer, EndCleanup, After, At
<1>8. CASE ReaperScan
  <2>1. active[index] \in Guards
    BY <1>8, ScannedChild, Types DEF ReaperScan
  <2>2. \/ signalled' = signalled
        \/ signalled' = [signalled EXCEPT ![active[index]] = TRUE]
    BY <1>8, Zenon DEF ReaperScan, Kill
  <2>3. UNCHANGED <<killed, lastError>>
    BY <1>8 DEF ReaperScan
  <2> QED BY <2>1, <2>2, <2>3, FlagSet, Zenon
<1>9. CASE UNCHANGED <<signalled, killed, lastError>>
  BY <1>9, Zenon
<1> QED BY <1>1, <1>2, <1>3, <1>4, <1>5, <1>6, <1>7, <1>8, <1>9
   DEF Next, ReaperStep, Exit, SpawnReaper, SpawnChild, WaitCall, PollStatus,
   PollPending, CleanupAgain, Defer, ReaperLock, ReaperTick, ReaperPassEnds,
   Fail, At, Answer, Owns, Release, TryWait, ReaperTake

\* The reaper and its vectors.
LEMMA StepReaper ==
    ASSUME TypeOK, Next
    PROVE  ReaperOK'
<1> USE Types, FailuresAssumption DEF ReaperOK, cleanupVars, guardVars, reaperVars,
        procVars
<1>1. ASSUME NEW g \in Guards, SpawnReaper(g) PROVE ReaperOK'
  BY <1>1 DEF SpawnReaper, Fail, At, Answer
<1>2. ASSUME NEW g \in Guards, SpawnChild(g) PROVE ReaperOK'
  BY <1>2 DEF SpawnChild, Fail, At, Answer
<1>3. ASSUME NEW g \in Guards, PollStatus(g) PROVE ReaperOK'
  BY <1>3 DEF PollStatus, Owns, Release, Answer, Fail, At
<1>4. ASSUME NEW g \in Guards, PollError(g) PROVE ReaperOK'
  BY <1>4 DEF PollError, Owns, TryWait, Fail, BeginCleanup, At
<1>5. ASSUME NEW g \in Guards, PollPending(g) PROVE ReaperOK'
  BY <1>5 DEF PollPending, Owns, TryWait, Fail, Answer
<1>6. ASSUME NEW g \in Guards, WaitDeadline(g) PROVE ReaperOK'
  BY <1>6 DEF WaitDeadline, TryWait, Fail, BeginCleanup, At
<1>7. ASSUME NEW g \in Guards, CleanupKill(g) PROVE ReaperOK'
  BY <1>7 DEF CleanupKill, Kill, Fail, At
<1>8. ASSUME NEW g \in Guards, CleanupReap(g) PROVE ReaperOK'
  BY <1>8 DEF CleanupReap, TryWait, Fail, Release, Answer, EndCleanup, After, At
<1>9. ASSUME NEW g \in Guards, Defer(g) PROVE ReaperOK'
  <2>1. pending' \in Seq(Guards)
    BY <1>9, AppendProperties DEF Defer
  <2> QED BY <1>9, <2>1 DEF Defer
<1>10. ASSUME NEW g \in Guards, EnqueueNotify(g) PROVE ReaperOK'
  BY <1>10 DEF EnqueueNotify, Answer, EndCleanup, After, At
<1>11. CASE ReaperLock
  <2>1. CASE ReaperTake
    <3>1. active \o pending \in Seq(Guards)
      BY ConcatProperties
    <3>2. Len(active \o pending) \in Nat
      BY <3>1, LenProperties
    <3> QED BY <1>11, <2>1, <3>1, <3>2 DEF ReaperLock, ReaperTake
  <2>2. CASE ~ReaperTake
    BY <1>11, <2>2 DEF ReaperLock
  <2> QED BY <2>1, <2>2
<1>12. CASE ReaperTick
  <2>1. CASE ReaperTake
    <3>1. active \o pending \in Seq(Guards)
      BY ConcatProperties
    <3>2. Len(active \o pending) \in Nat
      BY <3>1, LenProperties
    <3> QED BY <1>12, <2>1, <3>1, <3>2 DEF ReaperTick, ReaperTake
  <2> QED BY <1>12, <2>1 DEF ReaperTick
<1>13. CASE ReaperScan
  <2>1. active[index] \in Guards /\ index \in 1..Len(active)
    BY <1>13, ScannedChild DEF ReaperScan
  <2>2. failed' \in 0..Failures
    BY <1>13 DEF ReaperScan, TryWait, Kill, Fail
  <2>3. active' = SwapRemove(index) \/ active' = active
    BY <1>13 DEF ReaperScan
  <2>4. active' \in Seq(Guards) /\ index' \in 0..Len(active')
    BY <1>13, <2>1, <2>3, SwapRemoveResult, LenProperties DEF ReaperScan
  <2> QED BY <1>13, <2>2, <2>4 DEF ReaperScan
<1>14. CASE ReaperPassEnds
  BY <1>14 DEF ReaperPassEnds
<1>15. CASE UNCHANGED <<reaper, pending, active, index, rpc, failed>>
  BY <1>15
<1> QED BY <1>1, <1>2, <1>3, <1>4, <1>5, <1>6, <1>7, <1>8, <1>9, <1>10, <1>11,
   <1>12, <1>13, <1>14, <1>15
   DEF Next, ReaperStep, Exit, WaitCall, TerminateCall, Drop, CleanupAgain,
   Owns, At, Answer, BeginCleanup

LEMMA StepType == ASSUME TypeOK, OwnersPlaced, Next PROVE TypeOK'
<1>1. GuardsOK' /\ FlagsOK' /\ ReaperOK'
  BY StepGuards, StepFlags, StepReaper
<1> QED BY <1>1, Zenon DEF TypeOK, GuardsOK, FlagsOK, ReaperOK

LEMMA StutterType == ASSUME TypeOK, UNCHANGED vars PROVE TypeOK'
BY Zenon DEF TypeOK, vars, guardVars, cleanupVars, reaperVars, procVars

-----------------------------------------------------------------------------
(* The invariant.                                                          *)

LEMMA GuardParts == GuardInv => QueuesExact /\ OwnersPlaced /\ ResultTruthful
BY DEF GuardInv

LEMMA InitGuards == Init => GuardInv
BY DEF Init, GuardInv, QueuesExact, OwnersPlaced, ResultTruthful, CleanupSteps

LEMMA ReaperKinds == TypeOK => reaper \in {"none", "ready", "failed"}
BY DEF TypeOK

\* Taking the queue moves its children to the reaper, each once.
LEMMA TakeExact ==
    ASSUME TypeOK, QueuesExact, ReaperTake
    PROVE  QueuesExact'
<1> DEFINE n == Len(active)
           m == Len(pending)
<1>1. n \in Nat /\ m \in Nat
  BY Types, LenProperties DEF ReaperOK
<1>2. /\ Len(active') = n + m
      /\ \A i \in 1..(n + m) : active'[i] = IF i <= n THEN active[i] ELSE pending[i - n]
  BY Types, ConcatProperties DEF ReaperTake, ReaperOK
<1> HIDE DEF n, m
<1>3. /\ \A i \in 1..n : active'[i] = active[i] /\ i \in 1..(n + m)
      /\ \A i \in 1..m : active'[n + i] = pending[i] /\ n + i \in 1..(n + m)
      /\ \A i \in 1..(n + m) : i \in 1..n \/ (i - n \in 1..m /\ active'[i] = pending[i - n])
  <2>1. \A i \in 1..n : active'[i] = active[i] /\ i \in 1..(n + m)
    BY <1>1, <1>2
  <2>2. ASSUME NEW i \in 1..m PROVE active'[n + i] = pending[i] /\ n + i \in 1..(n + m)
    <3>1. n + i \in 1..(n + m) /\ ~(n + i <= n) /\ (n + i) - n = i
      BY <1>1
    <3> QED BY <3>1, <1>2
  <2>3. ASSUME NEW i \in 1..(n + m)
        PROVE  i \in 1..n \/ (i - n \in 1..m /\ active'[i] = pending[i - n])
    <3>1. CASE i <= n
      BY <3>1, <1>1
    <3>2. CASE ~(i <= n)
      <4>1. i - n \in 1..m
        BY <3>2, <1>1
      <4> QED BY <4>1, <3>2, <1>2
    <3> QED BY <3>1, <3>2
  <2> QED BY <2>1, <2>2, <2>3
<1> USE DEF n, m
<1>4. Len(pending') = 0
  BY DEF ReaperTake
<1>5. \A i \in 1..n, j \in 1..m : active[i] # pending[j]
  <2> SUFFICES ASSUME NEW i \in 1..n, NEW j \in 1..m, active[i] = pending[j] PROVE FALSE
    OBVIOUS
  <2>1. active[i] \in Guards /\ pending[j] \in Guards
    BY Types, ElementOfSeq DEF ReaperOK
  <2>2. owner[active[i]] = "reaper" /\ owner[pending[j]] = "queue"
    BY <2>1 DEF QueuesExact
  <2> QED BY <2>2
<1>6. \A g \in Guards : owner'[g] = IF owner[g] = "queue" THEN "reaper" ELSE owner[g]
  BY Types DEF GuardsOK, ReaperTake
<1>7. \A i, j \in 1..n : active[i] = active[j] => i = j
  BY DEF QueuesExact
<1>8. \A i, j \in 1..m : pending[i] = pending[j] => i = j
  BY DEF QueuesExact
<1> HIDE DEF n, m
<1>9. \A i, j \in 1..(n + m) : active'[i] = active'[j] => i = j
  <2> SUFFICES ASSUME NEW i \in 1..(n + m), NEW j \in 1..(n + m), active'[i] = active'[j]
               PROVE  i = j
    OBVIOUS
  <2>1. CASE i \in 1..n /\ j \in 1..n
    BY <2>1, <1>3, <1>7
  <2>2. CASE i \notin 1..n /\ j \notin 1..n
    <3>1. i - n \in 1..m /\ j - n \in 1..m /\ pending[i - n] = pending[j - n]
      BY <2>2, <1>3
    <3>2. i - n = j - n
      BY <3>1, <1>8
    <3> QED BY <3>2, <1>1
  <2>3. CASE i \in 1..n /\ j \notin 1..n
    BY <2>3, <1>3, <1>5
  <2>4. CASE i \notin 1..n /\ j \in 1..n
    BY <2>4, <1>3, <1>5
  <2> QED BY <2>1, <2>2, <2>3, <2>4
<1>10. ASSUME NEW g \in Guards
       PROVE  owner'[g] = "reaper" <=> \E i \in 1..(n + m) : active'[i] = g
  <2>1. (\E i \in 1..(n + m) : active'[i] = g)
          <=> (\E i \in 1..n : active[i] = g) \/ (\E i \in 1..m : pending[i] = g)
    <3>1. ASSUME NEW i \in 1..(n + m), active'[i] = g
          PROVE  (\E j \in 1..n : active[j] = g) \/ (\E j \in 1..m : pending[j] = g)
      BY <3>1, <1>3
    <3>2. ASSUME NEW i \in 1..n, active[i] = g PROVE \E j \in 1..(n + m) : active'[j] = g
      BY <3>2, <1>3
    <3>3. ASSUME NEW i \in 1..m, pending[i] = g PROVE \E j \in 1..(n + m) : active'[j] = g
      BY <3>3, <1>3
    <3> QED BY <3>1, <3>2, <3>3
  <2>2. /\ owner[g] = "queue" <=> \E i \in 1..m : pending[i] = g
        /\ owner[g] = "reaper" <=> \E i \in 1..n : active[i] = g
    BY DEF n, m, QueuesExact
  <2> QED BY <2>1, <2>2, <1>6
<1>11. \A g \in Guards : owner'[g] # "queue"
  BY <1>6
<1> QED BY <1>2, <1>4, <1>9, <1>10, <1>11 DEF QueuesExact

\* The reaper forgets a child that it has reaped, and no other.
LEMMA ScanExact ==
    ASSUME TypeOK, QueuesExact, rpc = "scan", index > 0,
           active' = SwapRemove(index), Release(active[index]), pending' = pending
    PROVE  QueuesExact'
<1> DEFINE n == Len(active)
           h == active[index]
<1>0. ReaperOK /\ GuardsOK
  BY Types
<1>1. n \in Nat /\ index \in 1..n /\ h \in Guards
  BY <1>0, LenProperties, ScannedChild DEF ReaperOK
<1>2. /\ Len(active') = n - 1
      /\ \A j \in 1..(n - 1) : active'[j] = IF j = index THEN active[n] ELSE active[j]
  BY <1>0, <1>1, SwapRemoveResult
<1>3. owner[h] = "reaper"
  BY <1>1 DEF QueuesExact
<1>4. owner' = [owner EXCEPT ![h] = "nobody"]
  BY DEF Release
<1>5. \A i, j \in 1..n : active[i] = active[j] => i = j
  BY DEF QueuesExact
<1>6. \A g \in Guards : owner[g] = "reaper" <=> \E i \in 1..n : active[i] = g
  BY DEF QueuesExact
<1>7. \A i \in 1..n : active[i] = h => i = index
  BY <1>1, <1>5
<1>8. \A g \in Guards : owner'[g] = IF g = h THEN "nobody" ELSE owner[g]
  BY <1>0, <1>1, <1>4 DEF GuardsOK
<1>9. \A g \in Guards : owner'[g] = "queue" <=> \E i \in 1..Len(pending) : pending[i] = g
  BY <1>3, <1>8 DEF QueuesExact
<1> HIDE DEF n, h
<1>10. \A i, j \in 1..(n - 1) : active'[i] = active'[j] => i = j
  BY <1>1, <1>2, <1>5
<1>11. \A g \in Guards : owner'[g] = "reaper" <=> \E i \in 1..(n - 1) : active'[i] = g
  <2> TAKE g \in Guards
  <2>1. CASE g = h
    <3>1. \A i \in 1..(n - 1) : active'[i] # h
      BY <1>1, <1>2, <1>7
    <3> QED BY <2>1, <3>1, <1>8
  <2>2. CASE g # h
    <3>1. ASSUME NEW i \in 1..n, active[i] = g PROVE \E j \in 1..(n - 1) : active'[j] = g
      <4>1. i # index
        BY <2>2, <3>1 DEF h
      <4>2. CASE i = n
        BY <4>1, <4>2, <3>1, <1>1, <1>2
      <4>3. CASE i # n
        BY <4>1, <4>3, <3>1, <1>1, <1>2
      <4> QED BY <4>2, <4>3
    <3>2. ASSUME NEW j \in 1..(n - 1), active'[j] = g PROVE \E i \in 1..n : active[i] = g
      BY <3>2, <1>1, <1>2
    <3> QED BY <2>2, <3>1, <3>2, <1>6, <1>8
  <2> QED BY <2>1, <2>2
<1>12. \A i, j \in 1..Len(pending) : pending[i] = pending[j] => i = j
  BY DEF QueuesExact
<1> QED BY <1>2, <1>9, <1>10, <1>11, <1>12 DEF n, QueuesExact

\* A child changes hands in one step.
LEMMA StepQueuesExact ==
    ASSUME TypeOK, GuardInv, Next
    PROVE  QueuesExact'
<1> USE GuardParts, Types DEF cleanupVars, guardVars, reaperVars, procVars
<1>1. ASSUME NEW g \in Guards, SpawnChild(g) PROVE QueuesExact'
  <2>1. \A h \in Guards : /\ owner'[h] = "queue" <=> owner[h] = "queue"
                          /\ owner'[h] = "reaper" <=> owner[h] = "reaper"
    BY <1>1 DEF SpawnChild, Fail, At, Answer, OwnersPlaced, GuardsOK, CleanupSteps
  <2>2. UNCHANGED <<pending, active>>
    BY <1>1 DEF SpawnChild
  <2> QED BY <2>1, <2>2 DEF QueuesExact
<1>2. ASSUME NEW g \in Guards, PollStatus(g) PROVE QueuesExact'
  <2>1. \A h \in Guards : /\ owner'[h] = "queue" <=> owner[h] = "queue"
                          /\ owner'[h] = "reaper" <=> owner[h] = "reaper"
    BY <1>2
    DEF PollStatus, Owns, Release, Answer, Fail, At, OwnersPlaced, GuardsOK,
        CleanupSteps
  <2>2. UNCHANGED <<pending, active>>
    BY <1>2 DEF PollStatus
  <2> QED BY <2>1, <2>2 DEF QueuesExact
<1>3. ASSUME NEW g \in Guards, CleanupReap(g) PROVE QueuesExact'
  <2>1. \A h \in Guards : /\ owner'[h] = "queue" <=> owner[h] = "queue"
                          /\ owner'[h] = "reaper" <=> owner[h] = "reaper"
    BY <1>3
    DEF CleanupReap, TryWait, Fail, Release, Answer, EndCleanup, After, At,
        OwnersPlaced, GuardsOK, CleanupSteps
  <2>2. UNCHANGED <<pending, active>>
    BY <1>3 DEF CleanupReap
  <2> QED BY <2>1, <2>2 DEF QueuesExact
<1>4. ASSUME NEW g \in Guards, Defer(g) PROVE QueuesExact'
  <2> DEFINE m == Len(pending)
  <2>1. m \in Nat /\ pending \in Seq(Guards)
    BY LenProperties DEF ReaperOK
  <2>2. /\ Len(pending') = m + 1 /\ pending'[m + 1] = g
        /\ \A i \in 1..m : pending'[i] = pending[i]
    BY <1>4, <2>1, AppendProperties DEF Defer
  <2>3. owner[g] = "guard"
    BY <1>4 DEF Defer, OwnersPlaced
  <2>4. owner' = [owner EXCEPT ![g] = "queue"] /\ active' = active
    BY <1>4 DEF Defer
  <2>5. \A i \in 1..m : pending[i] # g
    BY <2>3 DEF QueuesExact
  <2>6. \A i, j \in 1..m : pending[i] = pending[j] => i = j
    BY DEF QueuesExact
  <2>7. \A h \in Guards : owner[h] = "queue" <=> \E i \in 1..m : pending[i] = h
    BY DEF QueuesExact
  <2> HIDE DEF m
  <2>8. \A i, j \in 1..(m + 1) : pending'[i] = pending'[j] => i = j
    BY <2>1, <2>2, <2>5, <2>6
  <2>9. \A h \in Guards : owner'[h] = IF h = g THEN "queue" ELSE owner[h]
    BY <2>4 DEF GuardsOK
  <2>10. ASSUME NEW h \in Guards
         PROVE  owner'[h] = "queue" <=> \E i \in 1..(m + 1) : pending'[i] = h
    <3>1. m + 1 \in 1..(m + 1) /\ \A i \in 1..m : i \in 1..(m + 1)
      BY <2>1
    <3>2. \A i \in 1..(m + 1) : i = m + 1 \/ i \in 1..m
      BY <2>1
    <3> QED BY <3>1, <3>2, <2>2, <2>7, <2>9
  <2>11. \A h \in Guards : owner'[h] = "reaper" <=> owner[h] = "reaper"
    BY <2>3, <2>9
  <2> QED BY <2>2, <2>4, <2>8, <2>10, <2>11 DEF QueuesExact
<1>5. CASE ReaperLock
  <2>1. CASE ReaperTake
    BY <2>1, TakeExact
  <2>2. CASE UNCHANGED <<owner, pending, active>>
    BY <2>2 DEF QueuesExact
  <2> QED BY <1>5, <2>1, <2>2 DEF ReaperLock
<1>6. CASE ReaperTick
  BY <1>6, TakeExact DEF ReaperTick
<1>7. CASE ReaperScan
  <2>1. CASE active' = SwapRemove(index) /\ Release(active[index])
    BY <1>7, <2>1, ScanExact DEF ReaperScan
  <2>2. CASE UNCHANGED <<owner, pending, active>>
    BY <2>2 DEF QueuesExact
  <2> QED BY <1>7, <2>1, <2>2 DEF ReaperScan
<1>8. CASE UNCHANGED <<owner, pending, active>>
  BY <1>8 DEF QueuesExact
<1> QED BY <1>1, <1>2, <1>3, <1>4, <1>5, <1>6, <1>7, <1>8
   DEF Next, ReaperStep, Exit, SpawnReaper, WaitCall, TerminateCall, Drop,
   PollError, PollPending, WaitDeadline, CleanupKill, CleanupAgain,
   EnqueueNotify, ReaperPassEnds, Fail, At, Answer, Owns, BeginCleanup,
   TryWait, Kill, EndCleanup, After

\* An owner lets go of a process only when it has reaped it.
LEMMA StepOwnersPlaced ==
    ASSUME TypeOK, GuardInv, Next
    PROVE  OwnersPlaced'
<1> USE GuardParts, Types DEF cleanupVars, guardVars, reaperVars, procVars,
        OwnersPlaced, GuardsOK, CleanupSteps
<1>1. ASSUME NEW g \in Guards, Exit(g) PROVE OwnersPlaced'
  BY <1>1 DEF Exit
<1>2. ASSUME NEW g \in Guards, SpawnReaper(g) PROVE OwnersPlaced'
  BY <1>2, ReaperKinds DEF SpawnReaper, Fail, At, Answer
<1>3. ASSUME NEW g \in Guards, SpawnChild(g) PROVE OwnersPlaced'
  BY <1>3 DEF SpawnChild, Fail, At, Answer
<1>4. ASSUME NEW g \in Guards, WaitCall(g) PROVE OwnersPlaced'
  BY <1>4 DEF WaitCall, Owns, At, Answer
<1>5. ASSUME NEW g \in Guards, TerminateCall(g) PROVE OwnersPlaced'
  BY <1>5 DEF TerminateCall, Owns, BeginCleanup, At, Answer
<1>6. ASSUME NEW g \in Guards, Drop(g) PROVE OwnersPlaced'
  BY <1>6 DEF Drop, Owns, BeginCleanup, At
<1>7. ASSUME NEW g \in Guards, PollStatus(g) PROVE OwnersPlaced'
  BY <1>7 DEF PollStatus, Owns, Release, Answer, Fail, At
<1>8. ASSUME NEW g \in Guards, PollError(g) PROVE OwnersPlaced'
  BY <1>8 DEF PollError, Owns, TryWait, Fail, BeginCleanup, At
<1>9. ASSUME NEW g \in Guards, PollPending(g) PROVE OwnersPlaced'
  BY <1>9 DEF PollPending, Owns, TryWait, Fail, Answer
<1>10. ASSUME NEW g \in Guards, WaitDeadline(g) PROVE OwnersPlaced'
  BY <1>10 DEF WaitDeadline, TryWait, Fail, BeginCleanup, At
<1>11. ASSUME NEW g \in Guards, CleanupKill(g) PROVE OwnersPlaced'
  BY <1>11 DEF CleanupKill, Kill, Fail, At
<1>12. ASSUME NEW g \in Guards, CleanupReap(g) PROVE OwnersPlaced'
  BY <1>12 DEF CleanupReap, TryWait, Fail, Release, Answer, EndCleanup, After, At
<1>13. ASSUME NEW g \in Guards, CleanupAgain(g) PROVE OwnersPlaced'
  BY <1>13 DEF CleanupAgain, At
<1>14. ASSUME NEW g \in Guards, Defer(g) PROVE OwnersPlaced'
  BY <1>14 DEF Defer, At
<1>15. ASSUME NEW g \in Guards, EnqueueNotify(g) PROVE OwnersPlaced'
  BY <1>15 DEF EnqueueNotify, Answer, EndCleanup, After, At
<1>16. CASE ReaperLock
  BY <1>16 DEF ReaperLock, ReaperTake
<1>17. CASE ReaperTick
  BY <1>17 DEF ReaperTick, ReaperTake
<1>18. CASE ReaperScan
  <2>1. active[index] \in Guards /\ index \in 1..Len(active)
    BY <1>18, ScannedChild DEF ReaperScan
  <2>2. owner[active[index]] = "reaper"
    BY <2>1 DEF QueuesExact
  <2> QED BY <1>18, <2>1, <2>2 DEF ReaperScan, TryWait, Kill, Fail, Release
<1>19. CASE UNCHANGED <<proc, owner, pc, why, result, reaper>>
  BY <1>19
<1> QED BY <1>1, <1>2, <1>3, <1>4, <1>5, <1>6, <1>7, <1>8, <1>9, <1>10, <1>11,
   <1>12, <1>13, <1>14, <1>15, <1>16, <1>17, <1>18, <1>19
   DEF Next, ReaperStep, ReaperPassEnds

\* A result is set in the step that reaps the process, or after it was handed over.
LEMMA StepResultTruthful ==
    ASSUME TypeOK, GuardInv, Next
    PROVE  ResultTruthful'
<1> USE GuardParts, Types DEF cleanupVars, guardVars, reaperVars, procVars,
        ResultTruthful, OwnersPlaced, GuardsOK, CleanupSteps
<1>1. ASSUME NEW g \in Guards, Exit(g) PROVE ResultTruthful'
  BY <1>1 DEF Exit
<1>2. ASSUME NEW g \in Guards, SpawnReaper(g) PROVE ResultTruthful'
  BY <1>2 DEF SpawnReaper, Fail, At, Answer
<1>3. ASSUME NEW g \in Guards, SpawnChild(g) PROVE ResultTruthful'
  BY <1>3 DEF SpawnChild, Fail, At, Answer
<1>4. ASSUME NEW g \in Guards, WaitCall(g) PROVE ResultTruthful'
  BY <1>4 DEF WaitCall, Owns, At, Answer
<1>5. ASSUME NEW g \in Guards, TerminateCall(g) PROVE ResultTruthful'
  BY <1>5 DEF TerminateCall, Owns, BeginCleanup, At, Answer
<1>6. ASSUME NEW g \in Guards, PollStatus(g) PROVE ResultTruthful'
  BY <1>6 DEF PollStatus, Owns, Release, Answer, Fail, At
<1>7. ASSUME NEW g \in Guards, PollError(g) PROVE ResultTruthful'
  BY <1>7 DEF PollError, Owns, TryWait, Fail, BeginCleanup, At
<1>8. ASSUME NEW g \in Guards, PollPending(g) PROVE ResultTruthful'
  BY <1>8 DEF PollPending, Owns, TryWait, Fail, Answer
<1>9. ASSUME NEW g \in Guards, WaitDeadline(g) PROVE ResultTruthful'
  BY <1>9 DEF WaitDeadline, TryWait, Fail, BeginCleanup, At
<1>10. ASSUME NEW g \in Guards, CleanupReap(g) PROVE ResultTruthful'
  <2>1. CASE TryWait(g, "status")
    BY <1>10, <2>1 DEF CleanupReap, TryWait, Release, Answer
  <2>2. CASE ~TryWait(g, "status")
    BY <1>10, <2>2 DEF CleanupReap, TryWait, Fail
  <2> QED BY <2>1, <2>2
<1>11. ASSUME NEW g \in Guards, Defer(g) PROVE ResultTruthful'
  BY <1>11 DEF Defer, At
<1>12. ASSUME NEW g \in Guards, EnqueueNotify(g) PROVE ResultTruthful'
  BY <1>12 DEF EnqueueNotify, Answer, EndCleanup, After, At
<1>13. CASE ReaperLock
  BY <1>13 DEF ReaperLock, ReaperTake
<1>14. CASE ReaperTick
  BY <1>14 DEF ReaperTick, ReaperTake
<1>15. CASE ReaperScan
  <2>1. active[index] \in Guards /\ index \in 1..Len(active)
    BY <1>15, ScannedChild DEF ReaperScan
  <2>2. owner[active[index]] = "reaper"
    BY <2>1 DEF QueuesExact
  <2> QED BY <1>15, <2>1, <2>2 DEF ReaperScan, TryWait, Kill, Fail, Release
<1>16. CASE UNCHANGED <<proc, owner, result>>
  BY <1>16
<1> QED BY <1>1, <1>2, <1>3, <1>4, <1>5, <1>6, <1>7, <1>8, <1>9, <1>10, <1>11,
   <1>12, <1>13, <1>14, <1>15, <1>16
   DEF Next, ReaperStep, Drop, CleanupKill, CleanupAgain, ReaperPassEnds,
   Owns, BeginCleanup, At, Kill, Fail

LEMMA StutterGuards == ASSUME GuardInv, UNCHANGED vars PROVE GuardInv'
BY DEF GuardInv, QueuesExact, OwnersPlaced, ResultTruthful,
    vars, guardVars, cleanupVars, reaperVars, procVars

\* How often a child occurs in the queue and the reaper's vector together.
LEMMA OccursOnce ==
    ASSUME TypeOK, QueuesExact, NEW g \in Guards
    PROVE  Occurrences(g, pending \o active)
               = IF owner[g] \in {"queue", "reaper"} THEN 1 ELSE 0
<1> USE Types DEF GuardsOK, ReaperOK
<1> DEFINE m == Len(pending)
           n == Len(active)
           q == pending \o active
           S == {i \in 1..Len(q) : q[i] = g}
<1>1. m \in Nat /\ n \in Nat
  BY LenProperties
<1>2. /\ Len(q) = m + n
      /\ \A i \in 1..(m + n) : q[i] = IF i <= m THEN pending[i] ELSE active[i - m]
  BY ConcatProperties
<1>3. /\ \A i, j \in 1..m : pending[i] = pending[j] => i = j
      /\ \A i, j \in 1..n : active[i] = active[j] => i = j
      /\ owner[g] = "queue" <=> \E i \in 1..m : pending[i] = g
      /\ owner[g] = "reaper" <=> \E i \in 1..n : active[i] = g
  BY DEF QueuesExact
<1>4. Occurrences(g, q) = Cardinality(S)
  BY DEF Occurrences
<1> HIDE DEF m, n, q
<1>5. S = {i \in 1..(m + n) : q[i] = g}
  BY <1>2
<1> HIDE DEF S
<1>6. CASE owner[g] = "queue"
  <2>1. PICK i \in 1..m : pending[i] = g
    BY <1>3, <1>6
  <2>2. S = {i}
    BY <2>1, <1>1, <1>2, <1>3, <1>5, <1>6
  <2> QED BY <2>2, <1>4, <1>6, FS_Singleton DEF q
<1>7. CASE owner[g] = "reaper"
  <2>1. PICK i \in 1..n : active[i] = g
    BY <1>3, <1>7
  <2>2. m + i \in S
    BY <2>1, <1>1, <1>2, <1>5
  <2>3. ASSUME NEW j \in S PROVE j = m + i
    <3>1. j \in 1..(m + n) /\ q[j] = g
      BY <1>5
    <3>2. j > m
      BY <3>1, <1>1, <1>2, <1>3, <1>7
    <3>3. j - m \in 1..n /\ active[j - m] = g
      BY <3>1, <3>2, <1>1, <1>2
    <3>4. j - m = i
      BY <3>3, <2>1, <1>3
    <3> QED BY <3>1, <3>4, <1>1
  <2>4. S = {m + i}
    BY <2>2, <2>3
  <2> QED BY <2>4, <1>4, <1>7, FS_Singleton DEF q
<1>8. CASE owner[g] \notin {"queue", "reaper"}
  <2>1. S = {}
    <3> SUFFICES ASSUME NEW j \in S PROVE FALSE
      OBVIOUS
    <3>1. j \in 1..(m + n) /\ q[j] = g
      BY <1>5
    <3>2. CASE j <= m
      <4>1. j \in 1..m /\ pending[j] = g
        BY <1>1, <1>2, <3>1, <3>2
      <4> QED BY <1>3, <1>8, <4>1
    <3>3. CASE j > m
      <4>1. j - m \in 1..n /\ active[j - m] = g
        BY <1>1, <1>2, <3>1, <3>3
      <4> QED BY <1>3, <1>8, <4>1
    <3> QED BY <1>1, <3>1, <3>2, <3>3
  <2> QED BY <2>1, <1>4, <1>8, FS_EmptySet DEF q
<1> QED BY <1>6, <1>7, <1>8

\* The invariant says that nobody loses a child.
LEMMA NothingLost == ASSUME TypeOK, GuardInv PROVE NoChildLost
<1> USE GuardParts, Types DEF GuardsOK
<1> SUFFICES ASSUME NEW g \in Guards
             PROVE  LET held == Occurrences(g, pending \o active)
                    IN  IF proc[g] \in {"running", "exited"}
                        THEN /\ reaper = "ready"
                             /\ IF held = 0 THEN owner[g] = "guard" /\ pc[g] # "gone"
                                ELSE held = 1 /\ owner[g] \in {"queue", "reaper"}
                        ELSE held = 0
  BY DEF NoChildLost
<1>1. Occurrences(g, pending \o active) = IF owner[g] \in {"queue", "reaper"} THEN 1 ELSE 0
  BY OccursOnce
<1> QED BY <1>1 DEF OwnersPlaced

\* The types and the invariant of the guards and the reaper hold in every
\* reachable state, whichever calls of the operating system fail.
THEOREM GuardInvariant == Spec => [](TypeOK /\ GuardInv)
<1>1. Init => TypeOK /\ GuardInv
  BY InitType, InitGuards
<1>2. TypeOK /\ GuardInv /\ [Next]_vars => (TypeOK /\ GuardInv)'
  <2>1. CASE Next
    <3>1. ASSUME TypeOK, GuardInv PROVE TypeOK' /\ GuardInv'
      <4>1. OwnersPlaced
        BY <3>1, GuardParts
      <4> QED BY <2>1, <3>1, <4>1, StepType, StepQueuesExact, StepOwnersPlaced,
                 StepResultTruthful DEF GuardInv
    <3> QED BY <3>1
  <2>2. CASE UNCHANGED vars
    BY <2>2, StutterType, StutterGuards
  <2> QED BY <2>1, <2>2
<1> QED BY <1>1, <1>2, PTL DEF Spec

\* A process that has not been reaped is held once: by its guard, which is
\* still there, by the queue or by the reaper.
THEOREM GuardsLoseNoChild == Spec => []NoChildLost
BY GuardInvariant, NothingLost, PTL

\* A call that reports a result or a timeout has reaped its child, one that
\* reports a deferral no longer owns it.
THEOREM GuardResults == Spec => []ResultTruthful
<1>1. GuardInv => ResultTruthful
  BY DEF GuardInv
<1> QED BY <1>1, GuardInvariant, PTL
=============================================================================
