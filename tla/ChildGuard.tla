----------------------------- MODULE ChildGuard -----------------------------
(***************************************************************************)
(* Child processes of the test support crate: ChildGuard, whose waits and  *)
(* cleanups are bounded, and the permanent background reaper that takes    *)
(* over the children they could not reap in time.                          *)
(*                                                                         *)
(* Each guard belongs to a thread of its own and owns one process.  The    *)
(* guards share the reaper's queue, a mutex and a condition variable.  The *)
(* operating system may refuse to kill or to wait, processes exit when     *)
(* they like, and a deadline may expire between any two steps.             *)
(***************************************************************************)
EXTENDS Naturals, Sequences, FiniteSets

CONSTANTS
    Guards,         \* the guards, each named like the process it owns
    Failures        \* bound: calls of the operating system that fail

ASSUME FailuresAssumption == Failures \in Nat

VARIABLES
    proc,           \* the process: none, running, exited (a zombie), reaped
    signalled,      \* has it been killed?
    owner,          \* who is to reap it: nobody, its guard, the queue, the reaper
    pc,             \* where the guard's thread is
    why,            \* why it is cleaning up
    killed,         \* bounded_cleanup: has a kill succeeded?
    lastError,      \* bounded_cleanup: has anything failed?
    result,         \* what the last call returned
    reaper,         \* GLOBAL_REAPER: none, ready, failed
    pending,        \* the queue
    rpc,            \* where the reaper is
    active,         \* the children it holds, in order
    index,          \* how many of them this pass has still to look at
    failed          \* failures so far

cleanupVars == <<why, killed, lastError>>
guardVars == <<pc, cleanupVars, result>>
reaperVars == <<reaper, pending, rpc, active, index>>
procVars == <<proc, signalled, owner>>
vars == <<procVars, guardVars, reaperVars, failed>>

CleanupSteps == {"kill", "reap", "clock", "notify"}

Init ==
    /\ proc = [g \in Guards |-> "none"] /\ owner = [g \in Guards |-> "nobody"]
    /\ signalled = [g \in Guards |-> FALSE]
    /\ pc = [g \in Guards |-> "new"] /\ why = [g \in Guards |-> "none"]
    /\ killed = [g \in Guards |-> FALSE] /\ lastError = [g \in Guards |-> FALSE]
    /\ result = [g \in Guards |-> "none"]
    /\ reaper = "none" /\ pending = <<>> /\ rpc = "off" /\ active = <<>> /\ index = 0
    /\ failed = 0

-----------------------------------------------------------------------------
(* The operating system.                                                   *)

Exit(g) ==
    /\ proc[g] = "running"
    /\ proc' = [proc EXCEPT ![g] = "exited"]
    /\ UNCHANGED <<signalled, owner, guardVars, reaperVars, failed>>

Fail == failed < Failures /\ failed' = failed + 1

\* Child::kill
Kill(g, ok) ==
    \/ ok /\ signalled' = [signalled EXCEPT ![g] = TRUE] /\ UNCHANGED failed
    \/ ~ok /\ Fail /\ UNCHANGED signalled

\* Child::try_wait: a status, none yet, or an error.
TryWait(g, answer) ==
    \/ /\ answer = "status" /\ proc[g] = "exited"
       /\ proc' = [proc EXCEPT ![g] = "reaped"] /\ UNCHANGED failed
    \/ answer = "none" /\ proc[g] = "running" /\ UNCHANGED <<proc, failed>>
    \/ answer = "error" /\ Fail /\ UNCHANGED proc

-----------------------------------------------------------------------------
(* ChildGuard.                                                             *)

At(g, next) == pc' = [pc EXCEPT ![g] = next]
Answer(g, r) == result' = [result EXCEPT ![g] = r]
Owns(g) == owner[g] = "guard"
Release(g) == owner' = [owner EXCEPT ![g] = "nobody"]

\* spawn: the reaper first, once for all (OnceLock), then the captures and the
\* process.
SpawnReaper(g) ==
    /\ pc[g] = "new"
    /\ \/ /\ reaper = "none" /\ reaper' = "ready" /\ rpc' = "lock" /\ UNCHANGED failed
       \/ /\ reaper = "none" /\ Fail /\ reaper' = "failed" /\ UNCHANGED rpc
       \/ /\ reaper # "none" /\ UNCHANGED <<reaper, rpc, failed>>
    /\ IF reaper' = "failed" THEN At(g, "gone") /\ Answer(g, "io")
       ELSE At(g, "spawning") /\ UNCHANGED result
    /\ UNCHANGED <<procVars, cleanupVars, pending, active, index>>

SpawnChild(g) ==
    /\ pc[g] = "spawning"
    /\ \/ /\ proc' = [proc EXCEPT ![g] = "running"]
          /\ owner' = [owner EXCEPT ![g] = "guard"]
          /\ At(g, "idle") /\ UNCHANGED <<result, failed>>
       \/ Fail /\ At(g, "gone") /\ Answer(g, "io") /\ UNCHANGED <<proc, owner>>
    /\ UNCHANGED <<signalled, cleanupVars, reaperVars>>

BeginCleanup(g, reason) ==
    /\ At(g, "kill") /\ why' = [why EXCEPT ![g] = reason]
    /\ killed' = [killed EXCEPT ![g] = FALSE]
    /\ lastError' = [lastError EXCEPT ![g] = FALSE]

\* wait, terminate and the drop consume the guard.  A guard whose child has
\* been taken answers with missing_child_error, or drops nothing.
WaitCall(g) ==
    /\ pc[g] = "idle"
    /\ IF Owns(g) THEN At(g, "poll") /\ UNCHANGED result ELSE At(g, "gone") /\ Answer(g, "io")
    /\ UNCHANGED <<procVars, cleanupVars, reaperVars, failed>>

TerminateCall(g) ==
    /\ pc[g] = "idle"
    /\ \/ Owns(g) /\ BeginCleanup(g, "terminate") /\ UNCHANGED result
       \/ ~Owns(g) /\ At(g, "gone") /\ Answer(g, "io") /\ UNCHANGED cleanupVars
    /\ UNCHANGED <<procVars, reaperVars, failed>>

Drop(g) ==
    /\ pc[g] = "idle"
    /\ \/ Owns(g) /\ BeginCleanup(g, "drop")
       \/ ~Owns(g) /\ At(g, "gone") /\ UNCHANGED cleanupVars
    /\ UNCHANGED <<procVars, result, reaperVars, failed>>

\* A poll of wait (pc = "poll") or of try_wait (pc = "idle") finds the child's
\* status; capturing its output may still fail.
PollStatus(g) ==
    /\ pc[g] \in {"poll", "idle"} /\ Owns(g) /\ proc[g] = "exited"
    /\ proc' = [proc EXCEPT ![g] = "reaped"] /\ Release(g)
    /\ \/ Answer(g, "ok") /\ UNCHANGED failed
       \/ Answer(g, "io") /\ Fail
    /\ At(g, IF pc[g] = "poll" THEN "gone" ELSE "idle")
    /\ UNCHANGED <<signalled, cleanupVars, reaperVars>>

\* A poll fails: the child is cleaned up.
PollError(g) ==
    /\ pc[g] \in {"poll", "idle"} /\ Owns(g) /\ TryWait(g, "error")
    /\ BeginCleanup(g, IF pc[g] = "poll" THEN "observe" ELSE "observe_keep")
    /\ UNCHANGED <<signalled, owner, result, reaperVars>>

\* try_wait on a running child, or on a guard that has none.
PollPending(g) ==
    /\ pc[g] = "idle"
    /\ \/ Owns(g) /\ TryWait(g, "none") /\ Answer(g, "pending")
       \/ ~Owns(g) /\ Answer(g, "io") /\ UNCHANGED <<proc, failed>>
    /\ UNCHANGED <<signalled, owner, pc, cleanupVars, reaperVars>>

\* wait finds its deadline expired and the child still running.
WaitDeadline(g) ==
    /\ pc[g] = "poll" /\ TryWait(g, "none")
    /\ BeginCleanup(g, "timeout")
    /\ UNCHANGED <<signalled, owner, result, reaperVars>>

-----------------------------------------------------------------------------
(* bounded_cleanup, and what its callers make of the outcome.              *)

\* The first kill, and the next ones as long as none has succeeded.
CleanupKill(g) ==
    /\ pc[g] = "kill"
    /\ \E ok \in BOOLEAN :
        /\ Kill(g, ok) /\ killed' = [killed EXCEPT ![g] = ok]
        /\ lastError' = [lastError EXCEPT ![g] = @ \/ ~ok]
    /\ At(g, "reap")
    /\ UNCHANGED <<proc, owner, why, result, reaperVars>>

\* After an observation error of try_wait the guard is still there, empty.
After(g) == IF why[g] = "observe_keep" THEN "idle" ELSE "gone"

\* What a cleanup that reaped the child returns; capturing may fail too.
ReapedResults(g) ==
    CASE why[g] = "timeout" -> {"timed_out"}
      [] why[g] = "terminate" -> IF lastError[g] THEN {"io"} ELSE {"ok", "io"}
      [] why[g] \in {"observe", "observe_keep"} -> {"io"}
      [] why[g] = "drop" -> {result[g]}

\* The call returns, and its locals are gone.
EndCleanup(g) ==
    /\ At(g, After(g)) /\ why' = [why EXCEPT ![g] = "none"]
    /\ killed' = [killed EXCEPT ![g] = FALSE]
    /\ lastError' = [lastError EXCEPT ![g] = FALSE]

CleanupReap(g) ==
    /\ pc[g] = "reap"
    /\ \/ /\ TryWait(g, "status") /\ Release(g)
          /\ \E r \in ReapedResults(g) : Answer(g, r)
          /\ EndCleanup(g)
       \/ /\ \E a \in {"none", "error"} :
                TryWait(g, a) /\ lastError' = [lastError EXCEPT ![g] = @ \/ a = "error"]
          /\ At(g, "clock")
          /\ UNCHANGED <<owner, result, why, killed>>
    /\ UNCHANGED <<signalled, reaperVars>>

\* The grace is not over: kill again unless a kill has succeeded, and sleep.
CleanupAgain(g) ==
    /\ pc[g] = "clock"
    /\ At(g, IF killed[g] THEN "reap" ELSE "kill")
    /\ UNCHANGED <<procVars, cleanupVars, result, reaperVars, failed>>

\* Mutant: the guard gives the child up when its grace is over.
GiveUp(g) ==
    /\ pc[g] = "clock"
    /\ Release(g) /\ At(g, "notify")
    /\ UNCHANGED <<proc, signalled, cleanupVars, result, reaperVars, failed>>

\* Mutant: a child that was killed is waited for.
DeferUnlessKilled(g) ==
    /\ pc[g] = "clock" /\ ~killed[g]
    /\ owner' = [owner EXCEPT ![g] = "queue"] /\ pending' = Append(pending, g)
    /\ At(g, "notify")
    /\ UNCHANGED <<proc, signalled, cleanupVars, result, reaper, rpc, active, index, failed>>

\* The grace is over: the child is pushed on the reaper's queue, under its lock.
Defer(g) ==
    /\ pc[g] = "clock"
    /\ owner' = [owner EXCEPT ![g] = "queue"] /\ pending' = Append(pending, g)
    /\ At(g, "notify")
    /\ UNCHANGED <<proc, signalled, cleanupVars, result, reaper, rpc, active, index, failed>>

\* Mutant: a deferred cleanup is reported like one that reaped the child.
NotifyAndClaim(g) ==
    /\ pc[g] = "notify"
    /\ rpc' = IF rpc = "waiting" THEN "lock" ELSE rpc
    /\ \E r \in ReapedResults(g) : Answer(g, r)
    /\ EndCleanup(g)
    /\ UNCHANGED <<procVars, reaper, pending, active, index, failed>>

\* enqueue notifies after the lock is released, then the call returns.
EnqueueNotify(g) ==
    /\ pc[g] = "notify"
    /\ rpc' = IF rpc = "waiting" THEN "lock" ELSE rpc
    /\ IF why[g] = "drop" THEN UNCHANGED result ELSE Answer(g, "deferred")
    /\ EndCleanup(g)
    /\ UNCHANGED <<procVars, reaper, pending, active, index, failed>>

-----------------------------------------------------------------------------
(* deferred_reaper_loop.                                                   *)

\* mem::take of the queue, which the next pass looks at.
ReaperTake ==
    /\ active' = active \o pending /\ index' = Len(active \o pending)
    /\ owner' = [g \in Guards |-> IF owner[g] = "queue" THEN "reaper" ELSE owner[g]]
    /\ pending' = <<>> /\ rpc' = "scan"

\* Mutant: an empty queue is always waited for without a timeout.
UntimedWait ==
    /\ rpc = "lock"
    /\ \/ pending # <<>> /\ ReaperTake
       \/ pending = <<>> /\ rpc' = "waiting" /\ UNCHANGED <<owner, pending, active, index>>
    /\ UNCHANGED <<proc, signalled, guardVars, reaper, failed>>

\* Under the lock: take the queue, wait for a notification when there is
\* nothing at all to do, or wait with a timeout when only held children are.
ReaperLock ==
    /\ rpc = "lock"
    /\ \/ pending # <<>> /\ ReaperTake
       \/ /\ pending = <<>> /\ rpc' = IF active = <<>> THEN "waiting" ELSE "timed"
          /\ UNCHANGED <<owner, pending, active, index>>
    /\ UNCHANGED <<proc, signalled, guardVars, reaper, failed>>

\* wait_timeout ends, by a notification or by the poll interval.
ReaperTick ==
    /\ rpc = "timed" /\ ReaperTake
    /\ UNCHANGED <<proc, signalled, guardVars, reaper, failed>>

\* Vec::swap_remove
SwapRemove(i) ==
    [j \in 1..(Len(active) - 1) |-> IF j = i THEN active[Len(active)] ELSE active[j]]

\* One child of the pass, from the last to the first.
ReaperScan ==
    /\ rpc = "scan" /\ index > 0
    /\ LET g == active[index]
       IN  \/ /\ TryWait(g, "status")
              /\ active' = SwapRemove(index)
              /\ Release(g) /\ UNCHANGED signalled
           \/ /\ proc[g] = "running"
              /\ \E ok \in BOOLEAN : Kill(g, ok)
              /\ UNCHANGED <<proc, active, owner>>
           \/ /\ TryWait(g, "error")
              /\ signalled' = [signalled EXCEPT ![g] = TRUE]
              /\ UNCHANGED <<active, owner>>
    /\ index' = index - 1
    /\ UNCHANGED <<rpc, guardVars, reaper, pending>>

ReaperPassEnds ==
    /\ rpc = "scan" /\ index = 0
    /\ rpc' = "lock"
    /\ UNCHANGED <<procVars, guardVars, reaper, pending, active, index, failed>>

ReaperStep == ReaperLock \/ ReaperTick \/ ReaperScan \/ ReaperPassEnds

-----------------------------------------------------------------------------
\* The steps a guard's thread takes by itself, up to what only time decides.
Step(g) == SpawnReaper(g) \/ SpawnChild(g) \/ (pc[g] = "poll" /\ PollStatus(g))
           \/ CleanupKill(g) \/ CleanupReap(g) \/ EnqueueNotify(g)

Next == \/ \E g \in Guards :
              \/ Exit(g) \/ SpawnReaper(g) \/ SpawnChild(g)
              \/ WaitCall(g) \/ TerminateCall(g) \/ Drop(g)
              \/ PollStatus(g) \/ PollError(g) \/ PollPending(g) \/ WaitDeadline(g)
              \/ CleanupKill(g) \/ CleanupReap(g) \/ CleanupAgain(g) \/ Defer(g)
              \/ EnqueueNotify(g)
        \/ ReaperStep

Spec == Init /\ [][Next]_vars

\* Threads are scheduled and deadlines expire: a wait that keeps finding its
\* child running, and a cleanup that keeps coming by its clock, find them over.
FairSpec ==
    /\ Spec /\ WF_vars(ReaperStep)
    /\ \A g \in Guards : /\ WF_vars(Step(g)) /\ WF_vars(WaitDeadline(g))
                         /\ WF_vars(CleanupAgain(g)) /\ SF_vars(Defer(g))

-----------------------------------------------------------------------------
(* Properties.                                                             *)

\* The type of every variable; the pass of the reaper stays within its vector.
TypeOK ==
    /\ proc \in [Guards -> {"none", "running", "exited", "reaped"}]
    /\ signalled \in [Guards -> BOOLEAN]
    /\ owner \in [Guards -> {"nobody", "guard", "queue", "reaper"}]
    /\ pc \in [Guards -> {"new", "spawning", "idle", "poll", "gone"} \cup CleanupSteps]
    /\ why \in [Guards -> {"none", "terminate", "timeout", "observe", "observe_keep", "drop"}]
    /\ killed \in [Guards -> BOOLEAN] /\ lastError \in [Guards -> BOOLEAN]
    /\ result \in [Guards -> {"none", "ok", "io", "pending", "timed_out", "deferred"}]
    /\ reaper \in {"none", "ready", "failed"}
    /\ pending \in Seq(Guards) /\ active \in Seq(Guards) /\ index \in 0..Len(active)
    /\ rpc \in {"off", "lock", "waiting", "timed", "scan"}
    /\ failed \in 0..Failures

Occurrences(g, q) == Cardinality({i \in 1..Len(q) : q[i] = g})

\* "Owns a native child process and guarantees bounded waiting plus deferred
\* cleanup": a process that has not been reaped is held by exactly one of its
\* live guard, the queue and the reaper, and the reaper's thread exists.
NoChildLost ==
    \A g \in Guards :
        LET held == Occurrences(g, pending \o active)
        IN  IF proc[g] \in {"running", "exited"}
            THEN /\ reaper = "ready"
                 /\ IF held = 0 THEN owner[g] = "guard" /\ pc[g] # "gone"
                    ELSE held = 1 /\ owner[g] \in {"queue", "reaper"}
            ELSE held = 0

\* Output or TimedOut is only returned of a child that was reaped: of what wait
\* promises, "only after killing and reaping the child", the half that frees the
\* process (the kill may have failed, and the child have exited by itself).  A
\* child that was deferred is no longer the guard's.
ResultTruthful ==
    \A g \in Guards :
        /\ result[g] \in {"ok", "timed_out"} => proc[g] = "reaped"
        /\ result[g] = "deferred" => owner[g] # "guard"

\* wait, terminate and the drop return although the child can neither be
\* killed nor waited for.
CallsReturn ==
    \A g \in Guards :
        (pc[g] \in CleanupSteps \cup {"poll"}) ~> (pc[g] \in {"idle", "gone"})

\* A child handed to the reaper is reaped, if processes that were killed exit:
\* no notification is lost, and no held child is forgotten.
DeferredReaped ==
    (\A g \in Guards : WF_vars(signalled[g] /\ Exit(g))) =>
        \A g \in Guards : (owner[g] = "queue") ~> (proc[g] = "reaped")

-----------------------------------------------------------------------------
(* What the proofs add to make NoChildLost and ResultTruthful inductive.   *)

\* The queue and the reaper's vector hold each child they own once, no others.
QueuesExact ==
    /\ \A i, j \in 1..Len(pending) : pending[i] = pending[j] => i = j
    /\ \A i, j \in 1..Len(active) : active[i] = active[j] => i = j
    /\ \A g \in Guards :
        /\ owner[g] = "queue" <=> \E i \in 1..Len(pending) : pending[i] = g
        /\ owner[g] = "reaper" <=> \E i \in 1..Len(active) : active[i] = g

\* Who owns a process, and where its guard's thread is.
OwnersPlaced ==
    \A g \in Guards :
        /\ owner[g] = "nobody" <=> proc[g] \in {"none", "reaped"}
        /\ owner[g] # "nobody" \/ pc[g] = "spawning" => reaper = "ready"
        /\ pc[g] \in {"new", "spawning"} => proc[g] = "none" /\ result[g] = "none"
        /\ owner[g] = "guard" => pc[g] \in {"idle", "poll", "kill", "reap", "clock"}
        /\ pc[g] \in {"poll", "kill", "reap", "clock"} => owner[g] = "guard"
        /\ pc[g] \in CleanupSteps => why[g] # "none"

GuardInv == QueuesExact /\ OwnersPlaced /\ ResultTruthful
=============================================================================
