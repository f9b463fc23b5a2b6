------------------------ MODULE FixtureServerProofs ------------------------
(***************************************************************************)
(* Theorems about FixtureServer, for any sets of sessions and of child     *)
(* tasks, whether the worker may panic or not.                             *)
(***************************************************************************)
EXTENDS FixtureServer, TLAPS

\* Where a session's task may be, a child task, and the keeper of its handle.
SessionPoints == {"none", "startup", "serving", "close", "drain", "drain_aborted",
                  "aborting"} \cup Over
TaskStates == {"none", "running", "aborted", "done"}
Keepers == {"nobody", "tracker", "drain", "reaper"}

\* The parts of the type invariant, those of the sessions and of the children.
SessionsOK ==
    /\ sess \in [Sessions -> SessionPoints]
    /\ handler \in [Sessions -> {"none", "alive", "dead"}]
    /\ sres \in [Sessions -> {"ok", "error"}]
    /\ joinSet \subseteq Sessions
    /\ deferred \subseteq Sessions \cup {"worker", "agent"}

LEMMA SessionTypes == TypeOK => SessionsOK
BY Zenon DEF TypeOK, SessionsOK, SessionPoints

ChildrenOK ==
    /\ task \in [Kids -> TaskStates]
    /\ kidOf \in [Kids -> Sessions \cup {Nobody}]
    /\ keeper \in [Kids -> Keepers]

LEMMA ChildTypes == TypeOK => ChildrenOK
BY Zenon DEF TypeOK, ChildrenOK, TaskStates, Keepers

LEMMA ClosedType == TypeOK => closed \in [Sessions -> BOOLEAN]
BY Zenon DEF TypeOK

\* The type of the scalars: the owner, the channels, the worker and the agent.
ScalarsOK ==
    /\ opc \in {"starting", "start_join", "running", "await_completion", "stop_join",
                "agent", "done"}
    /\ primary \in {"none", "ok", "error"} /\ outcome \in {"none", "ok", "error"}
    /\ request \in BOOLEAN
    /\ ready \in {"empty", "ok", "error", "closed"}
    /\ completion \in {"empty", "ok", "error", "closed"}
    /\ wpc \in {"setup", "accept", "drain", "abort", "runtime", "send", "exit",
             "ended", "panicked"}
    /\ sessionError \in BOOLEAN
    /\ agent \in {"up", "stopping", "down"}

LEMMA ScalarTypes == TypeOK => ScalarsOK
BY Zenon DEF TypeOK, ScalarsOK

LEMMA InitType == Init => TypeOK
<1> SUFFICES ASSUME Init PROVE TypeOK
  OBVIOUS
<1>1. /\ sess \in [Sessions -> SessionPoints]
      /\ handler \in [Sessions -> {"none", "alive", "dead"}]
      /\ sres \in [Sessions -> {"ok", "error"}]
  BY DEF Init, SessionPoints
<1>2. /\ task \in [Kids -> TaskStates] /\ kidOf \in [Kids -> Sessions \cup {Nobody}]
      /\ keeper \in [Kids -> Keepers]
  BY DEF Init, TaskStates, Keepers
<1>3. closed \in [Sessions -> BOOLEAN] /\ request \in BOOLEAN /\ sessionError \in BOOLEAN
  BY Zenon DEF Init
<1>4. /\ joinSet \subseteq Sessions /\ deferred \subseteq Sessions \cup {"worker", "agent"}
  BY DEF Init
<1> QED BY <1>1, <1>2, <1>3, <1>4, Zenon
  DEF Init, TypeOK, SessionPoints, TaskStates, Keepers

\* The scalars.
LEMMA StepScalars ==
    ASSUME TypeOK, Next
    PROVE  ScalarsOK'
<1> USE ScalarTypes DEF ScalarsOK, ownerVars, channels, workerVars, sessVars, kidVars
<1>1. CASE StartReady
  BY <1>1 DEF StartReady
<1>2. CASE StartTimeout
  BY <1>2 DEF StartTimeout
<1>3. CASE JoinWorker
  BY <1>3 DEF JoinWorker
<1>4. CASE Stop
  BY <1>4 DEF Stop
<1>5. CASE StopCompletion
  BY <1>5 DEF StopCompletion
<1>6. CASE StopTimeout
  BY <1>6 DEF StopTimeout
<1>7. CASE AgentDown
  BY <1>7 DEF AgentDown
<1>8. CASE StopAgent
  BY <1>8 DEF StopAgent, Finish
<1>9. CASE WorkerSetup
  BY <1>9 DEF WorkerSetup
<1>10. CASE WorkerPanics
  BY <1>10 DEF WorkerPanics
<1>11. CASE AcceptFails
  BY <1>11 DEF AcceptFails
<1>12. CASE ShutdownRequested
  BY <1>12 DEF ShutdownRequested
<1>13. CASE Drained
  BY <1>13 DEF Drained
<1>14. CASE FallbackDeadline
  BY <1>14 DEF FallbackDeadline
<1>15. CASE AbortAll
  BY <1>15 DEF AbortAll
<1>16. CASE RuntimeShutdown
  BY <1>16 DEF RuntimeShutdown
<1>17. CASE SendCompletion
  BY <1>17 DEF SendCompletion
<1>17e. CASE WorkerEnds
  BY <1>17e DEF WorkerEnds
<1>18. ASSUME NEW s \in Sessions, JoinSession(s) PROVE ScalarsOK'
  BY <1>18 DEF JoinSession
<1>19. CASE UNCHANGED <<opc, primary, outcome, request, ready, completion, wpc, sessionError, agent>>
  BY <1>19
<1> QED BY <1>1, <1>2, <1>3, <1>4, <1>5, <1>6, <1>7, <1>8, <1>9, <1>10, <1>11,
   <1>12, <1>13, <1>14, <1>15, <1>16, <1>17, <1>17e, <1>18, <1>19
   DEF Next, OwnerStep, WorkerStep, SessionStep, Accept, SessionStarts,
   SessionStops, HandlerEnds, SessionCompletes, CloseTracker, AbortKids,
   DrainDeadline, SessionEnds, SessionDropped, TrackerDropped, Spawn, KidEnds,
   JoinKid, ReapKid, Spoil

\* The variables of the sessions.
LEMMA StepSessions ==
    ASSUME TypeOK, Next
    PROVE  SessionsOK'
<1> USE SessionTypes DEF SessionsOK, SessionPoints, Over, ownerVars, channels,
        workerVars, sessVars, kidVars
<1>1. CASE StartTimeout
  BY <1>1 DEF StartTimeout
<1>2. CASE JoinWorker
  BY <1>2 DEF JoinWorker
<1>3. CASE StopTimeout
  BY <1>3 DEF StopTimeout
<1>4. CASE StopAgent
  BY <1>4 DEF StopAgent, Finish
<1>5. CASE AcceptFails
  BY <1>5 DEF AcceptFails
<1>6. CASE AbortAll
  BY <1>6 DEF AbortAll
<1>7. CASE FallbackDeadline
  BY <1>7 DEF FallbackDeadline
<1>8. CASE RuntimeShutdown
  BY <1>8 DEF RuntimeShutdown
<1>9. ASSUME NEW s \in Sessions, Accept(s) PROVE SessionsOK'
  BY <1>9 DEF Accept
<1>10. ASSUME NEW s \in Sessions, JoinSession(s) PROVE SessionsOK'
  BY <1>10 DEF JoinSession
<1>11. ASSUME NEW s \in Sessions, SessionStarts(s) PROVE SessionsOK'
  BY <1>11 DEF SessionStarts
<1>12. ASSUME NEW s \in Sessions, SessionStops(s) PROVE SessionsOK'
  BY <1>12 DEF SessionStops, Spoil
<1>13. ASSUME NEW s \in Sessions, HandlerEnds(s) PROVE SessionsOK'
  BY <1>13 DEF HandlerEnds
<1>14. ASSUME NEW s \in Sessions, SessionCompletes(s) PROVE SessionsOK'
  BY <1>14 DEF SessionCompletes
<1>15. ASSUME NEW s \in Sessions, CloseTracker(s) PROVE SessionsOK'
  BY <1>15 DEF CloseTracker
<1>16. ASSUME NEW s \in Sessions, AbortKids(s) PROVE SessionsOK'
  BY <1>16 DEF AbortKids
<1>17. ASSUME NEW s \in Sessions, DrainDeadline(s) PROVE SessionsOK'
  BY <1>17 DEF DrainDeadline, Spoil
<1>18. ASSUME NEW s \in Sessions, SessionEnds(s) PROVE SessionsOK'
  BY <1>18 DEF SessionEnds, Spoil
<1>19. ASSUME NEW s \in Sessions, SessionDropped(s) PROVE SessionsOK'
  BY <1>19 DEF SessionDropped
<1>20. CASE UNCHANGED <<sess, handler, sres, joinSet, deferred>>
  BY <1>20
<1> QED BY <1>1, <1>2, <1>3, <1>4, <1>5, <1>6, <1>7, <1>8, <1>9, <1>10, <1>11,
   <1>12, <1>13, <1>14, <1>15, <1>16, <1>17, <1>18, <1>19, <1>20
   DEF Next, OwnerStep, WorkerStep, SessionStep, StartReady, Stop,
   StopCompletion, AgentDown, WorkerSetup, WorkerPanics, ShutdownRequested,
   Drained, SendCompletion, WorkerEnds, TrackerDropped, Spawn, KidEnds, JoinKid, ReapKid

\* The variables of the children.
LEMMA StepChildren ==
    ASSUME TypeOK, Next
    PROVE  ChildrenOK'
<1> USE ChildTypes DEF ChildrenOK, TaskStates, Keepers, Alive, KidsAt, ownerVars,
        channels, workerVars, sessVars, kidVars
<1>1. CASE RuntimeShutdown
  BY <1>1 DEF RuntimeShutdown
<1>2. ASSUME NEW s \in Sessions, CloseTracker(s) PROVE ChildrenOK'
  BY <1>2 DEF CloseTracker
<1>3. ASSUME NEW s \in Sessions, AbortKids(s) PROVE ChildrenOK'
  BY <1>3 DEF AbortKids
<1>4. ASSUME NEW s \in Sessions, DrainDeadline(s) PROVE ChildrenOK'
  BY <1>4 DEF DrainDeadline, Spoil
<1>5. ASSUME NEW s \in Sessions, SessionDropped(s) PROVE ChildrenOK'
  BY <1>5 DEF SessionDropped
<1>6. ASSUME NEW s \in Sessions, TrackerDropped(s) PROVE ChildrenOK'
  BY <1>6 DEF TrackerDropped
<1>7. ASSUME NEW s \in Sessions, NEW k \in Kids, Spawn(s, k) PROVE ChildrenOK'
  BY <1>7 DEF Spawn
<1>8. ASSUME NEW k \in Kids, KidEnds(k) PROVE ChildrenOK'
  BY <1>8 DEF KidEnds
<1>9. ASSUME NEW k \in Kids, JoinKid(k) PROVE ChildrenOK'
  BY <1>9 DEF JoinKid
<1>10. ASSUME NEW k \in Kids, ReapKid(k) PROVE ChildrenOK'
  BY <1>10 DEF ReapKid
<1>11. CASE UNCHANGED <<task, kidOf, keeper>>
  BY <1>11
<1> QED BY <1>1, <1>2, <1>3, <1>4, <1>5, <1>6, <1>7, <1>8, <1>9, <1>10, <1>11
   DEF Next, OwnerStep, WorkerStep, SessionStep, StartReady, StartTimeout,
   JoinWorker, Stop, StopCompletion, StopTimeout, AgentDown, StopAgent,
   WorkerSetup, WorkerPanics, AcceptFails, ShutdownRequested, Drained,
   AbortAll, FallbackDeadline, SendCompletion, WorkerEnds, Accept, JoinSession,
   SessionStarts, SessionStops, HandlerEnds, SessionCompletes, SessionEnds,
   Finish, Spoil

\* Trackers.
LEMMA StepClosed ==
    ASSUME TypeOK, Next
    PROVE  closed' \in [Sessions -> BOOLEAN]
<1> USE DEF ownerVars, channels, workerVars, sessVars, kidVars
<1>1. ASSUME NEW s \in Sessions, CloseTracker(s) PROVE closed' \in [Sessions -> BOOLEAN]
  BY <1>1, ClosedType, Zenon DEF CloseTracker
<1>2. CASE UNCHANGED <<closed>>
  BY <1>2, ClosedType, Zenon
<1> QED BY <1>1, <1>2
   DEF Next, OwnerStep, WorkerStep, SessionStep, StartReady, StartTimeout,
   JoinWorker, Stop, StopCompletion, StopTimeout, AgentDown, StopAgent,
   WorkerSetup, WorkerPanics, AcceptFails, ShutdownRequested, Drained,
   AbortAll, FallbackDeadline, RuntimeShutdown, SendCompletion, WorkerEnds, Accept,
   JoinSession, SessionStarts, SessionStops, HandlerEnds, SessionCompletes,
   AbortKids, DrainDeadline, SessionEnds, SessionDropped, TrackerDropped,
   Spawn, KidEnds, JoinKid, ReapKid, Finish, Spoil

LEMMA StepType == ASSUME TypeOK, Next PROVE TypeOK'
BY StepScalars, StepSessions, StepChildren, StepClosed, Zenon
DEF TypeOK, ScalarsOK, SessionsOK, ChildrenOK, SessionPoints, TaskStates, Keepers

LEMMA StutterType == ASSUME TypeOK, UNCHANGED vars PROVE TypeOK'
<1> USE DEF vars, ownerVars, channels, workerVars, sessVars, kidVars
<1>1. ScalarsOK'
  BY ScalarTypes DEF ScalarsOK
<1>2. SessionsOK' /\ ChildrenOK'
  BY SessionTypes, ChildTypes DEF SessionsOK, ChildrenOK
<1>3. closed' \in [Sessions -> BOOLEAN]
  BY ClosedType, Zenon
<1> QED BY <1>1, <1>2, <1>3, Zenon
        DEF TypeOK, ScalarsOK, SessionsOK, ChildrenOK, SessionPoints, TaskStates, Keepers

-----------------------------------------------------------------------------
(* The invariant.                                                          *)

LEMMA ServerParts ==
    ServerInv => /\ NoTaskForgotten /\ SessionsPlaced /\ ChildrenKept /\ ChildrenOwned
                 /\ JoinsPending /\ CompletionTruthful /\ OwnerTruthful
BY DEF ServerInv

LEMMA InitServer == Init => ServerInv
BY
DEF Init, ServerInv, NoTaskForgotten, SessionsPlaced, ChildrenKept, ChildrenOwned, 
    JoinsPending, CompletionTruthful, OwnerTruthful, Alive

\* A handle is dropped only when its task is done.
LEMMA StepNoTaskForgotten ==
    ASSUME TypeOK, ServerInv, Next
    PROVE  NoTaskForgotten'
<1> USE ServerParts, SessionTypes, ChildTypes DEF ownerVars, channels, workerVars,
        sessVars, kidVars, NoTaskForgotten, Alive, KidsAt, ChildrenOK, TaskStates,
        Keepers
<1>1. CASE RuntimeShutdown
  BY <1>1 DEF RuntimeShutdown
<1>2. ASSUME NEW s \in Sessions, CloseTracker(s) PROVE NoTaskForgotten'
  BY <1>2 DEF CloseTracker
<1>3. ASSUME NEW s \in Sessions, AbortKids(s) PROVE NoTaskForgotten'
  BY <1>3 DEF AbortKids
<1>4. ASSUME NEW s \in Sessions, DrainDeadline(s) PROVE NoTaskForgotten'
  BY <1>4 DEF DrainDeadline, Spoil
<1>5. ASSUME NEW s \in Sessions, SessionDropped(s) PROVE NoTaskForgotten'
  BY <1>5 DEF SessionDropped
<1>6. ASSUME NEW s \in Sessions, TrackerDropped(s) PROVE NoTaskForgotten'
  BY <1>6 DEF TrackerDropped
<1>7. ASSUME NEW s \in Sessions, NEW k \in Kids, Spawn(s, k) PROVE NoTaskForgotten'
  BY <1>7 DEF Spawn
<1>8. ASSUME NEW k \in Kids, KidEnds(k) PROVE NoTaskForgotten'
  BY <1>8 DEF KidEnds
<1>9. ASSUME NEW k \in Kids, JoinKid(k) PROVE NoTaskForgotten'
  BY <1>9 DEF JoinKid
<1>10. ASSUME NEW k \in Kids, ReapKid(k) PROVE NoTaskForgotten'
  BY <1>10 DEF ReapKid
<1>11. CASE UNCHANGED <<task, keeper>>
  BY <1>11
<1> QED BY <1>1, <1>2, <1>3, <1>4, <1>5, <1>6, <1>7, <1>8, <1>9, <1>10, <1>11
   DEF Next, OwnerStep, WorkerStep, SessionStep, StartReady, StartTimeout,
   JoinWorker, Stop, StopCompletion, StopTimeout, AgentDown, StopAgent,
   WorkerSetup, WorkerPanics, AcceptFails, ShutdownRequested, Drained,
   AbortAll, FallbackDeadline, SendCompletion, WorkerEnds, Accept, JoinSession,
   SessionStarts, SessionStops, HandlerEnds, SessionCompletes, SessionEnds,
   Finish, Spoil

\* A session closes its tracker before it drains, and ends well only after its
\* handler.
LEMMA StepSessionsPlaced ==
    ASSUME TypeOK, ServerInv, Next
    PROVE  SessionsPlaced'
<1> USE ServerParts, SessionTypes, ChildTypes DEF ownerVars, channels, workerVars,
        sessVars, kidVars, SessionsPlaced, SessionsOK, SessionPoints, Over
<1>1. CASE AcceptFails
  BY <1>1 DEF AcceptFails
<1>2. CASE AbortAll
  BY <1>2 DEF AbortAll
<1>3. CASE RuntimeShutdown
  BY <1>3 DEF RuntimeShutdown
<1>4. ASSUME NEW s \in Sessions, Accept(s) PROVE SessionsPlaced'
  BY <1>4 DEF Accept
<1>5. ASSUME NEW s \in Sessions, SessionStarts(s) PROVE SessionsPlaced'
  BY <1>5 DEF SessionStarts
<1>6. ASSUME NEW s \in Sessions, SessionStops(s) PROVE SessionsPlaced'
  BY <1>6 DEF SessionStops, Spoil
<1>7. ASSUME NEW s \in Sessions, HandlerEnds(s) PROVE SessionsPlaced'
  BY <1>7 DEF HandlerEnds
<1>8. ASSUME NEW s \in Sessions, SessionCompletes(s) PROVE SessionsPlaced'
  BY <1>8 DEF SessionCompletes
<1>9. ASSUME NEW s \in Sessions, CloseTracker(s) PROVE SessionsPlaced'
  <2>1. \A x \in Sessions : closed'[x] <=> (closed[x] \/ x = s)
    BY <1>9, ClosedType, Zenon DEF CloseTracker
  <2> QED BY <1>9, <2>1 DEF CloseTracker
<1>10. ASSUME NEW s \in Sessions, AbortKids(s) PROVE SessionsPlaced'
  BY <1>10 DEF AbortKids
<1>11. ASSUME NEW s \in Sessions, DrainDeadline(s) PROVE SessionsPlaced'
  BY <1>11 DEF DrainDeadline, Spoil
<1>12. ASSUME NEW s \in Sessions, SessionEnds(s) PROVE SessionsPlaced'
  BY <1>12 DEF SessionEnds, Spoil
<1>13. ASSUME NEW s \in Sessions, SessionDropped(s) PROVE SessionsPlaced'
  BY <1>13 DEF SessionDropped
<1>14. CASE UNCHANGED <<sess, handler, sres, closed>>
  BY <1>14
<1> QED BY <1>1, <1>2, <1>3, <1>4, <1>5, <1>6, <1>7, <1>8, <1>9, <1>10, <1>11,
   <1>12, <1>13, <1>14
   DEF Next, OwnerStep, WorkerStep, SessionStep, StartReady, StartTimeout,
   JoinWorker, Stop, StopCompletion, StopTimeout, AgentDown, StopAgent,
   WorkerSetup, WorkerPanics, ShutdownRequested, Drained, FallbackDeadline,
   SendCompletion, WorkerEnds, JoinSession, TrackerDropped, Spawn, KidEnds, JoinKid,
   ReapKid, Finish

\* A child leaves its tracker for the drain of its session, and the drain only
\* when it is done or its session has failed.
LEMMA StepChildrenKept ==
    ASSUME TypeOK, ServerInv, Next
    PROVE  ChildrenKept'
<1> USE ServerParts, SessionTypes, ChildTypes DEF ownerVars, channels, workerVars,
        sessVars, kidVars, ChildrenKept, SessionsPlaced, Alive, KidsAt, SessionsOK,
        ChildrenOK, SessionPoints, Over, TaskStates, Keepers
<1>1. CASE AcceptFails
  BY <1>1 DEF AcceptFails
<1>2. CASE AbortAll
  BY <1>2 DEF AbortAll
<1>3. CASE RuntimeShutdown
  BY <1>3 DEF RuntimeShutdown
<1>4. ASSUME NEW s \in Sessions, Accept(s) PROVE ChildrenKept'
  BY <1>4 DEF Accept
<1>5. ASSUME NEW s \in Sessions, SessionStarts(s) PROVE ChildrenKept'
  BY <1>5 DEF SessionStarts
<1>6. ASSUME NEW s \in Sessions, SessionStops(s) PROVE ChildrenKept'
  BY <1>6 DEF SessionStops, Spoil
<1>7. ASSUME NEW s \in Sessions, SessionCompletes(s) PROVE ChildrenKept'
  BY <1>7 DEF SessionCompletes
<1>8. ASSUME NEW s \in Sessions, CloseTracker(s) PROVE ChildrenKept'
  BY <1>8 DEF CloseTracker
<1>9. ASSUME NEW s \in Sessions, AbortKids(s) PROVE ChildrenKept'
  BY <1>9 DEF AbortKids
<1>10. ASSUME NEW s \in Sessions, DrainDeadline(s) PROVE ChildrenKept'
  BY <1>10 DEF DrainDeadline, Spoil
<1>11. ASSUME NEW s \in Sessions, SessionEnds(s) PROVE ChildrenKept'
  BY <1>11 DEF SessionEnds, Spoil
<1>12. ASSUME NEW s \in Sessions, SessionDropped(s) PROVE ChildrenKept'
  BY <1>12 DEF SessionDropped
<1>13. ASSUME NEW s \in Sessions, NEW k \in Kids, Spawn(s, k) PROVE ChildrenKept'
  BY <1>13 DEF Spawn
<1>14. ASSUME NEW k \in Kids, KidEnds(k) PROVE ChildrenKept'
  BY <1>14 DEF KidEnds
<1>15. ASSUME NEW s \in Sessions, TrackerDropped(s) PROVE ChildrenKept'
  BY <1>15 DEF TrackerDropped
<1>16. ASSUME NEW k \in Kids, JoinKid(k) PROVE ChildrenKept'
  BY <1>16 DEF JoinKid
<1>17. ASSUME NEW k \in Kids, ReapKid(k) PROVE ChildrenKept'
  BY <1>17 DEF ReapKid
<1>18. CASE UNCHANGED <<sess, sres, task, kidOf, keeper>>
  BY <1>18
<1> QED BY <1>1, <1>2, <1>3, <1>4, <1>5, <1>6, <1>7, <1>8, <1>9, <1>10, <1>11,
   <1>12, <1>13, <1>14, <1>15, <1>16, <1>17, <1>18
   DEF Next, OwnerStep, WorkerStep, SessionStep, StartReady, StartTimeout,
   JoinWorker, Stop, StopCompletion, StopTimeout, AgentDown, StopAgent,
   WorkerSetup, WorkerPanics, ShutdownRequested, Drained, FallbackDeadline,
   SendCompletion, WorkerEnds, JoinSession, HandlerEnds, Finish

\* Only sessions spawn children.
LEMMA StepChildrenOwned ==
    ASSUME TypeOK, ServerInv, Next
    PROVE  ChildrenOwned'
<1> USE ServerParts, SessionTypes, ChildTypes DEF ownerVars, channels, workerVars,
        sessVars, kidVars, ChildrenOwned, Alive, ChildrenOK, TaskStates
<1>1. CASE RuntimeShutdown
  BY <1>1 DEF RuntimeShutdown
<1>2. ASSUME NEW s \in Sessions, AbortKids(s) PROVE ChildrenOwned'
  BY <1>2 DEF AbortKids
<1>3. ASSUME NEW s \in Sessions, NEW k \in Kids, Spawn(s, k) PROVE ChildrenOwned'
  BY <1>3 DEF Spawn
<1>4. ASSUME NEW k \in Kids, KidEnds(k) PROVE ChildrenOwned'
  BY <1>4 DEF KidEnds
<1>5. CASE UNCHANGED <<task, kidOf>>
  BY <1>5
<1> QED BY <1>1, <1>2, <1>3, <1>4, <1>5
   DEF Next, OwnerStep, WorkerStep, SessionStep, StartReady, StartTimeout,
   JoinWorker, Stop, StopCompletion, StopTimeout, AgentDown, StopAgent,
   WorkerSetup, WorkerPanics, AcceptFails, ShutdownRequested, Drained,
   AbortAll, FallbackDeadline, SendCompletion, WorkerEnds, Accept, JoinSession,
   SessionStarts, SessionStops, HandlerEnds, SessionCompletes, CloseTracker,
   DrainDeadline, SessionEnds, SessionDropped, TrackerDropped, JoinKid,
   ReapKid, Finish, Spoil

\* No session ends badly, or is deferred, without an error being recorded when it
\* is joined.
LEMMA StepJoinsPending ==
    ASSUME TypeOK, ServerInv, Next
    PROVE  JoinsPending'
<1> USE ServerParts, SessionTypes, ChildTypes DEF ownerVars, channels, workerVars,
        sessVars, kidVars, JoinsPending, SessionsOK, ChildrenOK, SessionPoints, Over,
        TaskStates, Keepers
<1>1. CASE AcceptFails
  BY <1>1, SessionsAssumption DEF AcceptFails
<1>2. CASE AbortAll
  BY <1>2, SessionsAssumption DEF AbortAll
<1>3. CASE RuntimeShutdown
  BY <1>3, SessionsAssumption DEF RuntimeShutdown
<1>4. ASSUME NEW s \in Sessions, Accept(s) PROVE JoinsPending'
  BY <1>4, SessionsAssumption DEF Accept
<1>5. ASSUME NEW s \in Sessions, SessionStarts(s) PROVE JoinsPending'
  BY <1>5, SessionsAssumption DEF SessionStarts
<1>6. ASSUME NEW s \in Sessions, SessionStops(s) PROVE JoinsPending'
  BY <1>6, SessionsAssumption DEF SessionStops, Spoil
<1>7. ASSUME NEW s \in Sessions, SessionCompletes(s) PROVE JoinsPending'
  BY <1>7, SessionsAssumption DEF SessionCompletes
<1>8. ASSUME NEW s \in Sessions, CloseTracker(s) PROVE JoinsPending'
  BY <1>8, SessionsAssumption DEF CloseTracker
<1>9. ASSUME NEW s \in Sessions, AbortKids(s) PROVE JoinsPending'
  BY <1>9, SessionsAssumption DEF AbortKids
<1>10. ASSUME NEW s \in Sessions, DrainDeadline(s) PROVE JoinsPending'
  BY <1>10, SessionsAssumption DEF DrainDeadline, Spoil
<1>11. ASSUME NEW s \in Sessions, SessionEnds(s) PROVE JoinsPending'
  BY <1>11, SessionsAssumption DEF SessionEnds, Spoil
<1>12. ASSUME NEW s \in Sessions, SessionDropped(s) PROVE JoinsPending'
  BY <1>12, SessionsAssumption DEF SessionDropped
<1>13. CASE StartTimeout
  BY <1>13, SessionsAssumption DEF StartTimeout
<1>14. CASE JoinWorker
  BY <1>14, SessionsAssumption DEF JoinWorker
<1>15. CASE StopTimeout
  BY <1>15, SessionsAssumption DEF StopTimeout
<1>16. CASE StopAgent
  BY <1>16, SessionsAssumption DEF StopAgent, Finish
<1>17. CASE WorkerSetup
  BY <1>17, SessionsAssumption DEF WorkerSetup
<1>18. CASE WorkerPanics
  BY <1>18, SessionsAssumption DEF WorkerPanics
<1>19. CASE ShutdownRequested
  BY <1>19, SessionsAssumption DEF ShutdownRequested
<1>20. CASE Drained
  BY <1>20, SessionsAssumption DEF Drained
<1>21. CASE FallbackDeadline
  BY <1>21, SessionsAssumption DEF FallbackDeadline
<1>22. CASE SendCompletion
  BY <1>22, SessionsAssumption DEF SendCompletion
<1>22e. CASE WorkerEnds
  BY <1>22e DEF WorkerEnds
<1>23. ASSUME NEW s \in Sessions, JoinSession(s) PROVE JoinsPending'
  BY <1>23, SessionsAssumption DEF JoinSession
<1>24. CASE UNCHANGED <<wpc, joinSet, sessionError, sess, sres, deferred>>
  BY <1>24
<1> QED BY <1>1, <1>2, <1>3, <1>4, <1>5, <1>6, <1>7, <1>8, <1>9, <1>10, <1>11,
   <1>12, <1>13, <1>14, <1>15, <1>16, <1>17, <1>18, <1>19, <1>20, <1>21,
   <1>22, <1>22e, <1>23, <1>24
   DEF Next, OwnerStep, WorkerStep, SessionStep, StartReady, Stop,
   StopCompletion, AgentDown, HandlerEnds, TrackerDropped, Spawn, KidEnds,
   JoinKid, ReapKid

\* The worker's report is its last step.
LEMMA StepCompletionTruthful ==
    ASSUME TypeOK, ServerInv, Next
    PROVE  CompletionTruthful'
<1> USE ServerParts, SessionTypes, ChildTypes DEF ownerVars, channels, workerVars,
        sessVars, kidVars, CompletionTruthful
<1>1. CASE WorkerSetup
  BY <1>1 DEF WorkerSetup
<1>2. CASE WorkerPanics
  BY <1>2 DEF WorkerPanics
<1>3. CASE AcceptFails
  BY <1>3 DEF AcceptFails
<1>4. CASE ShutdownRequested
  BY <1>4 DEF ShutdownRequested
<1>5. CASE Drained
  BY <1>5 DEF Drained
<1>6. CASE AbortAll
  BY <1>6 DEF AbortAll
<1>7. CASE FallbackDeadline
  BY <1>7 DEF FallbackDeadline
<1>8. CASE RuntimeShutdown
  BY <1>8 DEF RuntimeShutdown
<1>9. CASE SendCompletion
  BY <1>9 DEF SendCompletion
<1>9e. CASE WorkerEnds
  BY <1>9e DEF WorkerEnds
<1>10. ASSUME NEW s \in Sessions, JoinSession(s) PROVE CompletionTruthful'
  BY <1>10 DEF JoinSession
<1>11. CASE UNCHANGED <<completion, wpc, sessionError>>
  BY <1>11
<1> QED BY <1>1, <1>2, <1>3, <1>4, <1>5, <1>6, <1>7, <1>8, <1>9, <1>9e, <1>10, <1>11
   DEF Next, OwnerStep, WorkerStep, SessionStep, StartReady, StartTimeout,
   JoinWorker, Stop, StopCompletion, StopTimeout, AgentDown, StopAgent,
   Accept, SessionStarts, SessionStops, HandlerEnds, SessionCompletes,
   CloseTracker, AbortKids, DrainDeadline, SessionEnds, SessionDropped,
   TrackerDropped, Spawn, KidEnds, JoinKid, ReapKid, Finish, Spoil

\* The owner's verdict.
LEMMA StepOwnerTruthful ==
    ASSUME TypeOK, ServerInv, Next
    PROVE  OwnerTruthful'
<1> USE ServerParts, SessionTypes, ChildTypes DEF ownerVars, channels, workerVars,
        sessVars, kidVars, OwnerTruthful, CompletionTruthful, SessionsOK, ScalarsOK
<1>1. CASE StartReady
  BY <1>1, SessionsAssumption, ScalarTypes DEF StartReady
<1>2. CASE StartTimeout
  BY <1>2, SessionsAssumption, ScalarTypes DEF StartTimeout
<1>3. CASE JoinWorker
  BY <1>3, SessionsAssumption, ScalarTypes DEF JoinWorker
<1>4. CASE Stop
  BY <1>4, SessionsAssumption, ScalarTypes DEF Stop
<1>5. CASE StopCompletion
  BY <1>5, SessionsAssumption, ScalarTypes DEF StopCompletion
<1>6. CASE StopTimeout
  BY <1>6, SessionsAssumption, ScalarTypes DEF StopTimeout
<1>7. CASE AgentDown
  BY <1>7, SessionsAssumption, ScalarTypes DEF AgentDown
<1>8. CASE StopAgent
  BY <1>8, SessionsAssumption, ScalarTypes DEF StopAgent, Finish
<1>9. CASE WorkerPanics
  BY <1>9, SessionsAssumption, ScalarTypes DEF WorkerPanics
<1>10. CASE FallbackDeadline
  BY <1>10, SessionsAssumption, ScalarTypes DEF FallbackDeadline
<1>11. CASE SendCompletion
  BY <1>11, SessionsAssumption, ScalarTypes DEF SendCompletion
<1>12. ASSUME NEW s \in Sessions, SessionEnds(s) PROVE OwnerTruthful'
  BY <1>12, SessionsAssumption, ScalarTypes DEF SessionEnds, Spoil
<1>13. ASSUME NEW s \in Sessions, SessionDropped(s) PROVE OwnerTruthful'
  BY <1>13, SessionsAssumption, ScalarTypes DEF SessionDropped
<1>14. CASE /\ UNCHANGED <<opc, primary, outcome, completion, agent, deferred>>
            /\ wpc = "ended" => UNCHANGED wpc
  BY <1>14
<1> QED BY <1>1, <1>2, <1>3, <1>4, <1>5, <1>6, <1>7, <1>8, <1>9, <1>10, <1>11,
   <1>12, <1>13, <1>14
   DEF Next, OwnerStep, WorkerStep, SessionStep, WorkerSetup, AcceptFails,
   ShutdownRequested, Drained, AbortAll, RuntimeShutdown, WorkerEnds, Accept,
   JoinSession, SessionStarts, SessionStops, HandlerEnds, SessionCompletes,
   CloseTracker, AbortKids, DrainDeadline, TrackerDropped, Spawn, KidEnds, JoinKid, ReapKid,
   Spoil

LEMMA StutterServer == ASSUME ServerInv, UNCHANGED vars PROVE ServerInv'
BY
DEF ServerInv, NoTaskForgotten, SessionsPlaced, ChildrenKept, ChildrenOwned,
    JoinsPending, 
    CompletionTruthful, OwnerTruthful, Alive,
    vars, ownerVars, channels, workerVars, sessVars, kidVars

\* The invariant says what a successful stop has seen.
LEMMA ServerDrained == ASSUME TypeOK, ServerInv PROVE StopOkMeansDrained
<1> USE ServerParts, SessionTypes, ChildTypes DEF SessionsOK, ChildrenOK
<1> SUFFICES ASSUME outcome = "ok" PROVE
        /\ \A k \in Kids : ~Alive(k)
        /\ \A s \in Sessions : sess[s] \in {"none", "ended"} /\ handler[s] # "alive"
        /\ wpc = "ended" /\ agent = "down" /\ deferred = {}
  BY DEF StopOkMeansDrained
<1>1. wpc = "ended" /\ agent = "down" /\ ~sessionError /\ joinSet = {}
  BY DEF OwnerTruthful, CompletionTruthful, JoinsPending
<1>2. \A s \in Sessions : sess[s] = "none" \/ (sess[s] = "ended" /\ sres[s] = "ok")
  BY <1>1 DEF JoinsPending
<1>3. \A s \in Sessions : handler[s] # "alive"
  BY <1>2 DEF SessionsPlaced
<1>4. \A k \in Kids : ~Alive(k)
  BY <1>2 DEF ChildrenKept, ChildrenOwned
<1>5. deferred = {}
  BY <1>1, <1>2 DEF JoinsPending, OwnerTruthful
<1> QED BY <1>1, <1>2, <1>3, <1>4, <1>5

\* The types and the invariant of the server hold in every reachable state,
\* whatever expires, panics, is aborted or never answers.
THEOREM ServerInvariant == Spec => [](TypeOK /\ ServerInv)
<1>1. Init => TypeOK /\ ServerInv
  BY InitType, InitServer
<1>2. TypeOK /\ ServerInv /\ [Next]_vars => (TypeOK /\ ServerInv)'
  <2>1. CASE Next
    BY <2>1, StepType, StepNoTaskForgotten, StepSessionsPlaced, StepChildrenKept,
       StepChildrenOwned, StepJoinsPending, StepCompletionTruthful, StepOwnerTruthful
       DEF ServerInv
  <2>2. CASE UNCHANGED vars
    BY <2>2, StutterType, StutterServer
  <2> QED BY <2>1, <2>2
<1> QED BY <1>1, <1>2, PTL DEF Spec

\* A stop that succeeds has left neither a child task nor a session nor a
\* thread running, and nothing to the reaper.
THEOREM ServerStops == Spec => []StopOkMeansDrained
BY ServerInvariant, ServerDrained, PTL

\* No child task loses its last join handle while it runs.
THEOREM ServerForgetsNoTask == Spec => []NoTaskForgotten
<1>1. ServerInv => NoTaskForgotten
  BY DEF ServerInv
<1> QED BY <1>1, ServerInvariant, PTL
=============================================================================
