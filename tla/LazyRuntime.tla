---------------------------- MODULE LazyRuntime ----------------------------
(***************************************************************************)
(* LazyRusshRuntime::get_or_try_init: threads that need the process-wide   *)
(* runtime look for it, and the first to hold the initialization lock      *)
(* builds it.  Building may fail, in which case a later call tries again,  *)
(* or panic, which poisons the lock.                                       *)
(***************************************************************************)
EXTENDS Naturals, FiniteSets

CONSTANTS
    Threads,
    MaxAttempts         \* bound: runtimes anyone tries to build

VARIABLES
    tpc,                \* where each thread is in the call
    cell,               \* the OnceLock: 0, or the runtime that was set
    holder,             \* who holds the initialization lock
    poisoned,
    attempts,           \* runtimes tried; also their numbers
    mine,               \* the runtime a thread has built
    got,                \* the runtimes that calls of each thread returned
    errors              \* the errors they returned

runtimeVars == <<tpc, cell, holder, poisoned, attempts, mine, got, errors>>

Nobody == "nobody"

RuntimeInit ==
    /\ tpc = [t \in Threads |-> "idle"] /\ cell = 0 /\ holder = Nobody /\ poisoned = FALSE
    /\ attempts = 0 /\ mine = [t \in Threads |-> 0] /\ got = [t \in Threads |-> {}]
    /\ errors = [t \in Threads |-> {}]

At(t, here) == tpc[t] = here
Go(t, there) == tpc' = [tpc EXCEPT ![t] = there]
Answer(t, r) == Go(t, "idle") /\ got' = [got EXCEPT ![t] = @ \cup {r}] /\ UNCHANGED errors
Fail(t, e) == Go(t, "idle") /\ errors' = [errors EXCEPT ![t] = @ \cup {e}] /\ UNCHANGED got

\* The call, and the first look, without the lock.
Call(t) ==
    /\ At(t, "idle")
    /\ Go(t, "look")
    /\ UNCHANGED <<cell, holder, poisoned, attempts, mine, got, errors>>

Look(t) ==
    /\ At(t, "look")
    /\ IF cell # 0 THEN Answer(t, cell) ELSE Go(t, "lock") /\ UNCHANGED <<got, errors>>
    /\ UNCHANGED <<cell, holder, poisoned, attempts, mine>>

Lock(t) ==
    /\ At(t, "lock") /\ holder = Nobody
    /\ IF poisoned THEN Fail(t, "poisoned") /\ UNCHANGED holder
                   ELSE Go(t, "look_again") /\ holder' = t /\ UNCHANGED <<got, errors>>
    /\ UNCHANGED <<cell, poisoned, attempts, mine>>

\* Mutant: whoever gets the lock builds.
BuildAnyway(t) ==
    /\ At(t, "look_again")
    /\ Go(t, "build")
    /\ UNCHANGED <<cell, holder, poisoned, attempts, mine, got, errors>>

\* The second look, with the lock.
LookAgain(t) ==
    /\ At(t, "look_again")
    /\ IF cell # 0 THEN Answer(t, cell) /\ holder' = Nobody
                   ELSE Go(t, "build") /\ UNCHANGED <<holder, got, errors>>
    /\ UNCHANGED <<cell, poisoned, attempts, mine>>

\* build_production succeeds, fails, or panics; the guard is dropped with the
\* last two.
Build(t) ==
    /\ At(t, "build") /\ attempts < MaxAttempts
    /\ attempts' = attempts + 1
    /\ \/ Go(t, "set") /\ mine' = [mine EXCEPT ![t] = attempts + 1]
          /\ UNCHANGED <<holder, poisoned, got, errors>>
       \/ Fail(t, "failed") /\ holder' = Nobody /\ UNCHANGED <<poisoned, mine>>
       \/ Go(t, "panicked") /\ holder' = Nobody /\ poisoned' = TRUE
          /\ UNCHANGED <<mine, got, errors>>
    /\ UNCHANGED cell

Set(t) ==
    /\ At(t, "set")
    /\ IF cell = 0 THEN cell' = mine[t] /\ Answer(t, mine[t])
                   ELSE Fail(t, "concurrently") /\ UNCHANGED cell
    /\ holder' = Nobody
    /\ UNCHANGED <<poisoned, attempts, mine>>

RuntimeNext ==
    \E t \in Threads : Call(t) \/ Look(t) \/ Lock(t) \/ LookAgain(t) \/ Build(t) \/ Set(t)

-----------------------------------------------------------------------------
\* However the calls interleave, whatever failed before: every caller that got
\* a runtime got the same one, no other was ever built, and nobody is told that
\* somebody else was faster.
OneRuntime ==
    /\ \A t \in Threads : got[t] \subseteq ({cell} \ {0})
    /\ cell # 0 => \A t \in Threads : mine[t] \in {0, cell}
    /\ \A t \in Threads : "concurrently" \notin errors[t]

\* What the proof adds: the holder of the lock is the one that looks again,
\* builds and sets, it has found the cell empty, and what was built is set or
\* about to be.
RuntimeInv ==
    /\ DOMAIN tpc = Threads /\ mine \in [Threads -> Nat] /\ cell \in Nat /\ attempts \in Nat
    /\ DOMAIN got = Threads /\ DOMAIN errors = Threads
    /\ \A t \in Threads :
        /\ tpc[t] \in {"look_again", "build", "set"} <=> holder = t
        /\ tpc[t] \in {"build", "set"} => cell = 0
        /\ tpc[t] = "set" => mine[t] # 0
        /\ mine[t] # 0 => tpc[t] = "set" \/ cell = mine[t]
    /\ OneRuntime
=============================================================================
