------------------------ MODULE RemoteForwardProofs ------------------------
(***************************************************************************)
(* Theorems about RemoteForward, for any finite set of channels, any hosts *)
(* and ports, and any number of calls.                                     *)
(***************************************************************************)
EXTENDS RemoteForward, FiniteSetTheorems, TLAPS

LEMMA MaxU16IsNat == MaxU16 \in Nat
BY DEF MaxU16

\* Conversions and resolutions yield ports.
LEMMA PortTypes ==
    /\ \A p \in Nat : ToU16(p) \in 0..MaxU16
    /\ \A p \in Nat : BoundPort(p) \in 0..MaxU16
BY PortsAssumption, MaxU16IsNat DEF ToU16, BoundPort

\* The parts of the type invariant: the counters, the waiters and the tasks, the
\* endpoints, and the flags.
LEMMA CounterTypes == TypeOK => calls \in 0..MaxCalls /\ active \in Nat
BY Zenon DEF TypeOK

LEMMA HandleTypes == TypeOK => handle \in {"none", "some"}
BY Zenon DEF TypeOK

LEMMA WaiterTypes ==
    TypeOK => /\ wpc \in [Waiters -> {"off", "check", "create", "recheck", "await"}]
              /\ ticket \in [Waiters -> Tickets]
BY Zenon DEF TypeOK

LEMMA TaskTypes == TypeOK => task \in [Channels -> TaskSteps]
BY Zenon DEF TypeOK

LEMMA EndpointTypes ==
    TypeOK => endpoint \in [Channels -> [host : Hosts \cup {""}, port : Nat]]
BY Zenon DEF TypeOK

LEMMA FlagTypes == TypeOK => DOMAIN cancelled = Tokens /\ DOMAIN canceller = Tokens
BY Zenon DEF TypeOK

LEMMA InitType == Init => TypeOK
<1> SUFFICES ASSUME Init PROVE TypeOK
  OBVIOUS
<1>1. pc \in OwnerSteps /\ drainTicket \in Tickets
  BY DEF Init, OwnerSteps, Starting, Tickets
<1>2. active \in Nat /\ calls \in 0..MaxCalls
  BY CallsAssumption DEF Init
<1>3. resolvedPort \in 0..MaxU16 /\ bindPort \in 0..MaxU16
  BY PortsAssumption, MaxU16IsNat DEF Init
<1>4. /\ wpc \in [Waiters -> {"off", "check", "create", "recheck", "await"}]
      /\ ticket \in [Waiters -> Tickets]
  BY DEF Init, Tickets
<1>5. task \in [Channels -> TaskSteps]
  BY DEF Init, TaskSteps
<1>6. endpoint \in [Channels -> [host : Hosts \cup {""}, port : Nat]]
  <2>1. NoEndpoint \in [host : Hosts \cup {""}, port : Nat]
    BY DEF NoEndpoint
  <2> QED BY <2>1 DEF Init
<1>7. cancelled \in [Tokens -> BOOLEAN] /\ canceller \in [Tokens -> {"idle", "stored", "done"}]
  BY Zenon DEF Init
<1> QED BY <1>1, <1>2, <1>3, <1>4, <1>5, <1>6, <1>7 DEF Init, TypeOK, Tokens


\* The channels that hold a guard are finitely many, and a channel among them
\* makes the counter positive.
LEMMA SomebodyHolds ==
    ASSUME TypeOK, CounterExact, NEW c \in Channels, Holding(c)
    PROVE  active > 0
<1> DEFINE H == {d \in Channels : Holding(d)}
<1>1. IsFiniteSet(H)
  BY ChannelsAssumption, FS_Subset
<1>2. c \in H
  OBVIOUS
<1>3. Cardinality(H) # 0 /\ Cardinality(H) \in Nat
  BY <1>1, <1>2, FS_EmptySet, FS_CardinalityType
<1> QED BY <1>3 DEF CounterExact

\* Every step keeps the types.
LEMMA StepType ==
    ASSUME TypeOK, CounterExact, Next
    PROVE  TypeOK'
<1> USE DEF callVars, handleVars, portVars, waitVars, taskVars
<1>1. CASE Connected
  <2>1. pc' \in OwnerSteps
    BY <1>1 DEF TypeOK, Connected, OwnerSteps, Starting, DrainSteps
  <2>2. session' \in {"none", "up"} \cup Ends
    BY <1>1 DEF TypeOK, Connected, Ends
  <2> QED BY <1>1, <2>1, <2>2, Zenon DEF TypeOK, Connected
<1>2. CASE Authenticated
  <2>1. pc' \in OwnerSteps
    BY <1>2 DEF TypeOK, Authenticated, OwnerSteps, Starting, DrainSteps
  <2> QED BY <1>2, <2>1, Zenon DEF TypeOK, Authenticated
<1>3. CASE ForwardGranted
  <2>1. pc' \in OwnerSteps
    BY <1>3 DEF TypeOK, ForwardGranted, OwnerSteps, Starting, DrainSteps
  <2>2. wpc' \in [Waiters -> {"off", "check", "create", "recheck", "await"}]
    BY <1>3, WaiterTypes DEF ForwardGranted, Waiters, StopWaiting
  <2>3. ticket' \in [Waiters -> Tickets]
    BY <1>3, WaiterTypes DEF ForwardGranted, Waiters, Tickets, StopWaiting
  <2>4. resolvedPort' \in 0..MaxU16 /\ bindPort' \in 0..MaxU16
    BY <1>3, PortTypes, PortsAssumption DEF ForwardGranted
  <2> QED BY <1>3, <2>1, <2>2, <2>3, <2>4, Zenon DEF TypeOK, ForwardGranted
<1>4. CASE OpeningFails
  <2>1. pc' \in OwnerSteps
    BY <1>4 DEF TypeOK, OpeningFails, OwnerSteps, Starting, DrainSteps
  <2>2. wpc' \in [Waiters -> {"off", "check", "create", "recheck", "await"}]
    BY <1>4, WaiterTypes DEF OpeningFails, Waiters, StopWaiting
  <2>3. ticket' \in [Waiters -> Tickets]
    BY <1>4, WaiterTypes DEF OpeningFails, Waiters, Tickets, StopWaiting
  <2> QED BY <1>4, <2>1, <2>2, <2>3, Zenon DEF TypeOK, OpeningFails
<1>5. CASE WaitCall
  <2>1. pc' \in OwnerSteps
    BY <1>5 DEF TypeOK, WaitCall, OwnerSteps, Starting, DrainSteps, Begin
  <2>2. calls' \in 0..MaxCalls
    BY <1>5, CallsAssumption, CounterTypes DEF WaitCall, MayCall
  <2> QED BY <1>5, <2>1, <2>2, Zenon DEF TypeOK, WaitCall, Begin
<1>6. CASE ShutdownCall
  <2>1. pc' \in OwnerSteps
    BY <1>6 DEF TypeOK, ShutdownCall, OwnerSteps, Starting, DrainSteps, Begin
  <2>2. calls' \in 0..MaxCalls
    BY <1>6, CallsAssumption, CounterTypes DEF ShutdownCall, MayCall
  <2> QED BY <1>6, <2>1, <2>2, Zenon DEF TypeOK, ShutdownCall, Begin
<1>7. CASE DropCall
  <2>1. pc' \in OwnerSteps
    BY <1>7 DEF TypeOK, DropCall, OwnerSteps, Starting, DrainSteps, Begin
  <2> QED BY <1>7, <2>1, Zenon DEF TypeOK, DropCall, Begin
<1>8. ASSUME NEW t \in Tokens, WaitUntilCancelledCall(t) PROVE TypeOK'
  <2>1. pc' \in OwnerSteps
    BY <1>8
    DEF TypeOK, WaitUntilCancelledCall, OwnerSteps, Starting, DrainSteps, Begin
  <2>2. calls' \in 0..MaxCalls
    BY <1>8, CallsAssumption, CounterTypes DEF WaitUntilCancelledCall, MayCall
  <2>3. wpc' \in [Waiters -> {"off", "check", "create", "recheck", "await"}]
    BY <1>8, WaiterTypes DEF WaitUntilCancelledCall, Waiters
  <2> QED BY <1>8, <2>1, <2>2, <2>3, Zenon DEF TypeOK, WaitUntilCancelledCall, Begin
<1>9. CASE StoreOwn
  <2>1. pc' \in OwnerSteps
    BY <1>9 DEF TypeOK, StoreOwn, OwnerSteps, Starting, DrainSteps
  <2>2. cancelled' \in [Tokens -> BOOLEAN]
    BY <1>9, Zenon DEF TypeOK, StoreOwn, Tokens
  <2> QED BY <1>9, <2>1, <2>2, Zenon DEF TypeOK, StoreOwn
<1>10. CASE NotifyOwn
  <2>1. pc' \in OwnerSteps
    BY <1>10 DEF TypeOK, NotifyOwn, OwnerSteps, Starting, DrainSteps
  <2>2. ticket' \in [Waiters -> Tickets]
    BY <1>10, WaiterTypes DEF NotifyOwn, Waiters, Tickets, Wake
  <2> QED BY <1>10, <2>1, <2>2, Zenon DEF TypeOK, NotifyOwn
<1>11. CASE Disconnect
  <2>1. pc' \in OwnerSteps
    BY <1>11 DEF TypeOK, Disconnect, OwnerSteps, Starting, DrainSteps
  <2> QED BY <1>11, <2>1, Zenon DEF TypeOK, Disconnect, And
<1>12. CASE JoinSession
  <2>1. pc' \in OwnerSteps
    BY <1>12 DEF TypeOK, JoinSession, OwnerSteps, Starting, DrainSteps
  <2> QED BY <1>12, <2>1, Zenon DEF TypeOK, JoinSession, And
<1>13. CASE SessionOver
  <2>1. pc' \in OwnerSteps
    BY <1>13 DEF TypeOK, SessionOver, OwnerSteps, Starting, DrainSteps
  <2>2. wpc' \in [Waiters -> {"off", "check", "create", "recheck", "await"}]
    BY <1>13, WaiterTypes DEF SessionOver, Waiters, StopWaiting
  <2>3. ticket' \in [Waiters -> Tickets]
    BY <1>13, WaiterTypes DEF SessionOver, Waiters, Tickets, StopWaiting
  <2> QED BY <1>13, <2>1, <2>2, <2>3, Zenon DEF TypeOK, SessionOver, And
<1>14. CASE DrainCheck
  <2>1. pc' \in OwnerSteps
    BY <1>14
    DEF TypeOK, DrainCheck, OwnerSteps, Starting, DrainSteps, DrainLook, Return
  <2> QED BY <1>14, <2>1, Zenon
  DEF TypeOK, DrainCheck, DrainLook, Return, ForgetJoined, Tickets
<1>15. CASE DrainCreate
  <2>1. pc' \in OwnerSteps
    BY <1>15 DEF TypeOK, DrainCreate, OwnerSteps, Starting, DrainSteps
  <2> QED BY <1>15, <2>1, Zenon DEF TypeOK, DrainCreate, Tickets
<1>16. CASE DrainRecheck
  <2>1. pc' \in OwnerSteps
    BY <1>16
    DEF TypeOK, DrainRecheck, OwnerSteps, Starting, DrainSteps, DrainLook, Return
  <2> QED BY <1>16, <2>1, Zenon
  DEF TypeOK, DrainRecheck, DrainLook, Return, ForgetJoined, Tickets
<1>17. CASE DrainNotified
  <2>1. pc' \in OwnerSteps
    BY <1>17 DEF TypeOK, DrainNotified, OwnerSteps, Starting, DrainSteps
  <2> QED BY <1>17, <2>1, Zenon DEF TypeOK, DrainNotified, Tickets
<1>18. CASE TornDown
  <2>1. pc' \in OwnerSteps
    BY <1>18 DEF TypeOK, TornDown, OwnerSteps, Starting, DrainSteps
  <2>2. session' \in {"none", "up"} \cup Ends
    BY <1>18 DEF TypeOK, TornDown, Ends
  <2> QED BY <1>18, <2>1, <2>2, Zenon DEF TypeOK, TornDown
<1>19. CASE CancelForward
  <2>1. pc' \in OwnerSteps
    BY <1>19 DEF TypeOK, CancelForward, OwnerSteps, Starting, DrainSteps
  <2> QED BY <1>19, <2>1, Zenon DEF TypeOK, CancelForward, And
<1>20. CASE Deadline
  <2>1. pc' \in OwnerSteps
    BY <1>20 DEF TypeOK, Deadline, OwnerSteps, Starting, DrainSteps, Return
  <2> QED BY <1>20, <2>1, Zenon DEF TypeOK, Deadline, Return, ForgetJoined, Tickets
<1>21. CASE SessionEnds
  <2>1. session' \in {"none", "up"} \cup Ends
    BY <1>21 DEF TypeOK, SessionEnds, Ends
  <2> QED BY <1>21, <2>1, Zenon DEF TypeOK, SessionEnds
<1>22. ASSUME NEW t \in Tokens, CancelStore(t) PROVE TypeOK'
  BY <1>22, Zenon DEF TypeOK, CancelStore
<1>23. ASSUME NEW t \in Tokens, CancelNotify(t) PROVE TypeOK'
  <2>1. ticket' \in [Waiters -> Tickets]
    BY <1>23, WaiterTypes DEF CancelNotify, Waiters, Tickets, Wake
  <2> QED BY <1>23, <2>1, Zenon DEF TypeOK, CancelNotify
<1>24. ASSUME NEW w \in Waiters, LookAtFlag(w) PROVE TypeOK'
  <2>1. pc' \in OwnerSteps
    BY <1>24 DEF TypeOK, LookAtFlag, OwnerSteps, Starting, DrainSteps, Interrupted
  <2>2. wpc' \in [Waiters -> {"off", "check", "create", "recheck", "await"}]
    BY <1>24, WaiterTypes DEF LookAtFlag, Waiters
  <2>3. task' \in [Channels -> TaskSteps]
    BY <1>24, TaskTypes DEF LookAtFlag, TaskSteps, Interrupted, Waiters
  <2> QED BY <1>24, <2>1, <2>2, <2>3, Zenon DEF TypeOK, LookAtFlag, Interrupted
<1>25. ASSUME NEW w \in Waiters, CreateNotified(w) PROVE TypeOK'
  <2>1. wpc' \in [Waiters -> {"off", "check", "create", "recheck", "await"}]
    BY <1>25, WaiterTypes DEF CreateNotified, Waiters
  <2>2. ticket' \in [Waiters -> Tickets]
    BY <1>25, WaiterTypes DEF CreateNotified, Waiters, Tickets
  <2> QED BY <1>25, <2>1, <2>2, Zenon DEF TypeOK, CreateNotified
<1>26. ASSUME NEW w \in Waiters, LookAgain(w) PROVE TypeOK'
  <2>1. pc' \in OwnerSteps
    BY <1>26 DEF TypeOK, LookAgain, OwnerSteps, Starting, DrainSteps, Interrupted
  <2>2. wpc' \in [Waiters -> {"off", "check", "create", "recheck", "await"}]
    BY <1>26, WaiterTypes DEF LookAgain, Waiters
  <2>3. ticket' \in [Waiters -> Tickets]
    BY <1>26, WaiterTypes DEF LookAgain, Waiters, Tickets
  <2>4. task' \in [Channels -> TaskSteps]
    BY <1>26, TaskTypes DEF LookAgain, TaskSteps, Interrupted, Waiters
  <2> QED BY <1>26, <2>1, <2>2, <2>3, <2>4, Zenon DEF TypeOK, LookAgain, Interrupted
<1>27. ASSUME NEW w \in Waiters, Notified(w) PROVE TypeOK'
  <2>1. wpc' \in [Waiters -> {"off", "check", "create", "recheck", "await"}]
    BY <1>27, WaiterTypes DEF Notified, Waiters
  <2>2. ticket' \in [Waiters -> Tickets]
    BY <1>27, WaiterTypes DEF Notified, Waiters, Tickets
  <2> QED BY <1>27, <2>1, <2>2, Zenon DEF TypeOK, Notified
<1>28. ASSUME NEW c \in Channels, OpenForwarded(c) PROVE TypeOK'
  <2>1. wpc' \in [Waiters -> {"off", "check", "create", "recheck", "await"}]
    BY <1>28, WaiterTypes DEF OpenForwarded, Waiters
  <2>2. task' \in [Channels -> TaskSteps]
    BY <1>28, TaskTypes DEF OpenForwarded, TaskSteps
  <2>3. endpoint' \in [Channels -> [host : Hosts \cup {""}, port : Nat]]
    <3> DEFINE E == [host : Hosts \cup {""}, port : Nat]
    <3>1. \A host \in Hosts, port \in ClaimedPorts : [host |-> host, port |-> port] \in E
      BY PortsAssumption
    <3>2. UNCHANGED endpoint \/ \E e \in E : endpoint' = [endpoint EXCEPT ![c] = e]
      BY <1>28, <3>1 DEF OpenForwarded
    <3>3. endpoint \in [Channels -> E]
      BY EndpointTypes
    <3> HIDE DEF E
    <3>4. endpoint' \in [Channels -> E]
      BY <3>2, <3>3
    <3> QED BY <3>4 DEF E
  <2>4. active' \in Nat
    BY <1>28, CounterTypes DEF OpenForwarded, Register
  <2> QED BY <1>28, <2>1, <2>2, <2>3, <2>4, Zenon DEF TypeOK, OpenForwarded
<1>29. ASSUME NEW c \in Channels, TargetConnected(c) PROVE TypeOK'
  <2>1. wpc' \in [Waiters -> {"off", "check", "create", "recheck", "await"}]
    BY <1>29, WaiterTypes DEF TargetConnected, Waiters
  <2>2. ticket' \in [Waiters -> Tickets]
    BY <1>29, WaiterTypes DEF TargetConnected, Waiters, Tickets
  <2>3. task' \in [Channels -> TaskSteps]
    BY <1>29, TaskTypes DEF TargetConnected, TaskSteps
  <2> QED BY <1>29, <2>1, <2>2, <2>3, Zenon DEF TypeOK, TargetConnected
<1>30. ASSUME NEW c \in Channels, TargetFailsOrCopyEnds(c) PROVE TypeOK'
  <2>1. wpc' \in [Waiters -> {"off", "check", "create", "recheck", "await"}]
    BY <1>30, WaiterTypes DEF TargetFailsOrCopyEnds, Waiters, StopWaiting
  <2>2. ticket' \in [Waiters -> Tickets]
    BY <1>30, WaiterTypes DEF TargetFailsOrCopyEnds, Waiters, Tickets, StopWaiting
  <2>3. task' \in [Channels -> TaskSteps]
    BY <1>30, TaskTypes DEF TargetFailsOrCopyEnds, TaskSteps
  <2> QED BY <1>30, <2>1, <2>2, <2>3, Zenon DEF TypeOK, TargetFailsOrCopyEnds
<1>31. ASSUME NEW c \in Channels, ChannelShutdown(c) PROVE TypeOK'
  <2>1. task' \in [Channels -> TaskSteps]
    BY <1>31, TaskTypes DEF ChannelShutdown, TaskSteps
  <2> QED BY <1>31, <2>1, Zenon DEF TypeOK, ChannelShutdown
<1>32. ASSUME NEW c \in Channels, DropGuard(c) PROVE TypeOK'
  <2>1. task' \in [Channels -> TaskSteps]
    BY <1>32, TaskTypes DEF DropGuard, TaskSteps
  <2>2. active' \in Nat
    BY <1>32, SomebodyHolds, CounterTypes DEF DropGuard, Holding
  <2> QED BY <1>32, <2>1, <2>2, Zenon DEF TypeOK, DropGuard
<1>33. ASSUME NEW c \in Channels, NotifyEmpty(c) PROVE TypeOK'
  <2>1. task' \in [Channels -> TaskSteps]
    BY <1>33, TaskTypes DEF NotifyEmpty, TaskSteps
  <2> QED BY <1>33, <2>1, Zenon DEF TypeOK, NotifyEmpty, Tickets
<1>34. ASSUME NEW c \in Channels, KillTask(c) PROVE TypeOK'
  <2>1. wpc' \in [Waiters -> {"off", "check", "create", "recheck", "await"}]
    BY <1>34, WaiterTypes DEF KillTask, Waiters, StopWaiting
  <2>2. ticket' \in [Waiters -> Tickets]
    BY <1>34, WaiterTypes DEF KillTask, Waiters, Tickets, StopWaiting
  <2>3. task' \in [Channels -> TaskSteps]
    BY <1>34, TaskTypes DEF KillTask, TaskSteps
  <2> QED BY <1>34, <2>1, <2>2, <2>3, Zenon DEF TypeOK, KillTask
<1> QED BY <1>1, <1>2, <1>3, <1>4, <1>5, <1>6, <1>7, <1>8, <1>9, <1>10, <1>11,
   <1>12, <1>13, <1>14, <1>15, <1>16, <1>17, <1>18, <1>19, <1>20, <1>21,
   <1>22, <1>23, <1>24, <1>25, <1>26, <1>27, <1>28, <1>29, <1>30, <1>31,
   <1>32, <1>33, <1>34
   DEF Next, Opening, Calls, OwnerStep, WaiterStep, TaskStep

LEMMA ForwardParts ==
    ForwardInv => /\ CounterExact /\ WaitersPlaced /\ OwnerKnows /\ PortResolved
                  /\ TerminalMeansDrained /\ HandleMeansUnjoined
                  /\ AcceptedOnlyBound /\ NoLostWakeup
BY DEF ForwardInv

\* When the counter is zero, no task holds a guard.
LEMMA NobodyHolds ==
    ASSUME TypeOK, CounterExact, active = 0
    PROVE  \A c \in Channels : ~Holding(c)
BY SomebodyHolds, CounterTypes

\* A step that neither counts nor uncounts a task keeps the counter exact.
LEMMA SameHolders ==
    ASSUME CounterExact, active' = active,
           \A c \in Channels : Holding(c)' <=> Holding(c)
    PROVE  CounterExact'
<1>1. {c \in Channels : Holding(c)}' = {c \in Channels : Holding(c)}
  OBVIOUS
<1> QED BY <1>1 DEF CounterExact

LEMMA InitForward == Init => ForwardInv
<1> SUFFICES ASSUME Init PROVE ForwardInv
  OBVIOUS
<1>1. CounterExact
  <2>1. {c \in Channels : Holding(c)} = {}
    BY DEF Init, Holding
  <2> QED BY <2>1, FS_EmptySet DEF Init, CounterExact
<1>2. WaitersPlaced
  BY ChannelsAssumption DEF Init, WaitersPlaced, Starting, Waiters
<1>3. OwnerKnows
  BY DEF Init, OwnerKnows, Starting, DrainSteps
<1>4. TerminalMeansDrained /\ HandleMeansUnjoined
  BY DEF Init, TerminalMeansDrained, HandleMeansUnjoined
<1>5. AcceptedOnlyBound
  BY DEF Init, AcceptedOnlyBound
<1>6. NoLostWakeup
  BY DEF Init, NoLostWakeup
<1> QED BY <1>1, <1>2, <1>3, <1>4, <1>5, <1>6 DEF Init, PortResolved, ForwardInv

\* A task is counted when it gets its guard and uncounted when it drops it.
LEMMA StepCounterExact ==
    ASSUME TypeOK, ForwardInv, Next
    PROVE  CounterExact'
<1> USE ForwardParts DEF callVars, handleVars, portVars, waitVars, taskVars
<1>1. ASSUME NEW w \in Waiters, LookAtFlag(w) PROVE CounterExact'
  <2>1. w # "owner" => task[w] \in {"startup", "copy"}
    BY <1>1, ChannelsAssumption DEF LookAtFlag, WaitersPlaced, Waiters
  <2>2. active' = active
    BY <1>1 DEF LookAtFlag
  <2>3. \A c \in Channels : Holding(c)' <=> Holding(c)
    BY <1>1, <2>1, TaskTypes, ChannelsAssumption
    DEF LookAtFlag, Interrupted, Holding
  <2> QED BY <2>2, <2>3, SameHolders
<1>2. ASSUME NEW w \in Waiters, LookAgain(w) PROVE CounterExact'
  <2>1. w # "owner" => task[w] \in {"startup", "copy"}
    BY <1>2, ChannelsAssumption DEF LookAgain, WaitersPlaced, Waiters
  <2>2. active' = active
    BY <1>2 DEF LookAgain
  <2>3. \A c \in Channels : Holding(c)' <=> Holding(c)
    BY <1>2, <2>1, TaskTypes, ChannelsAssumption DEF LookAgain, Interrupted, Holding
  <2> QED BY <2>2, <2>3, SameHolders
<1>3. ASSUME NEW c \in Channels, OpenForwarded(c) PROVE CounterExact'
  <2> DEFINE H == {d \in Channels : Holding(d)}
  <2>1. CASE UNCHANGED active
    <3>1. task' = [task EXCEPT ![c] = "closed"]
      BY <1>3, <2>1, CounterTypes DEF OpenForwarded, Register
    <3> QED BY <1>3, <2>1, <3>1, TaskTypes, SameHolders DEF OpenForwarded, Holding
  <2>2. CASE active' = active + 1 /\ task' = [task EXCEPT ![c] = "startup"]
    <3>1. H' = H \cup {c} /\ c \notin H
      BY <1>3, <2>2, TaskTypes DEF OpenForwarded, Holding
    <3>2. IsFiniteSet(H)
      BY ChannelsAssumption, FS_Subset
    <3>3. Cardinality(H') = Cardinality(H) + 1
      BY <3>1, <3>2, FS_AddElement
    <3> QED BY <2>2, <3>3 DEF CounterExact
  <2> QED BY <1>3, <2>1, <2>2 DEF OpenForwarded, Register
<1>4. ASSUME NEW c \in Channels, TargetConnected(c) PROVE CounterExact'
  BY <1>4, TaskTypes, SameHolders DEF TargetConnected, Holding
<1>5. ASSUME NEW c \in Channels, TargetFailsOrCopyEnds(c) PROVE CounterExact'
  BY <1>5, TaskTypes, SameHolders DEF TargetFailsOrCopyEnds, Holding
<1>6. ASSUME NEW c \in Channels, ChannelShutdown(c) PROVE CounterExact'
  BY <1>6, TaskTypes, SameHolders DEF ChannelShutdown, Holding
<1>7. ASSUME NEW c \in Channels, DropGuard(c) PROVE CounterExact'
  <2> DEFINE H == {d \in Channels : Holding(d)}
  <2>1. H' = H \ {c} /\ c \in H
    BY <1>7, TaskTypes DEF DropGuard, Holding
  <2>2. IsFiniteSet(H)
    BY ChannelsAssumption, FS_Subset
  <2>3. Cardinality(H') = Cardinality(H) - 1
    BY <2>1, <2>2, FS_RemoveElement
  <2> QED BY <1>7, <2>3 DEF DropGuard, CounterExact
<1>8. ASSUME NEW c \in Channels, NotifyEmpty(c) PROVE CounterExact'
  BY <1>8, TaskTypes, SameHolders DEF NotifyEmpty, Holding
<1>9. ASSUME NEW c \in Channels, KillTask(c) PROVE CounterExact'
  BY <1>9, TaskTypes, SameHolders DEF KillTask, Holding
<1>10. CASE UNCHANGED <<task, active>>
  BY <1>10, SameHolders DEF Holding
<1> QED BY <1>1, <1>2, <1>3, <1>4, <1>5, <1>6, <1>7, <1>8, <1>9, <1>10
   DEF Next, Opening, Calls, OwnerStep, WaiterStep, TaskStep, Connected,
   Authenticated, ForwardGranted, OpeningFails, WaitCall, ShutdownCall,
   DropCall, WaitUntilCancelledCall, StoreOwn, NotifyOwn, Disconnect,
   JoinSession, SessionOver, DrainCheck, DrainCreate, DrainRecheck,
   DrainNotified, TornDown, CancelForward, Deadline, SessionEnds, CancelStore,
   CancelNotify, CreateNotified, Notified, DrainLook

\* Only those who wait for a cancellation have a cancelled() future.
LEMMA StepWaitersPlaced ==
    ASSUME TypeOK, ForwardInv, Next
    PROVE  WaitersPlaced'
<1> USE ForwardParts DEF callVars, handleVars, portVars, waitVars, taskVars,
           WaitersPlaced, Starting, Waiters
<1>1. CASE Connected
  BY <1>1, WaiterTypes, TaskTypes, ChannelsAssumption DEF Connected
<1>2. CASE Authenticated
  BY <1>2, WaiterTypes, TaskTypes, ChannelsAssumption DEF Authenticated
<1>3. CASE ForwardGranted
  BY <1>3, WaiterTypes, TaskTypes, ChannelsAssumption
  DEF ForwardGranted, StopWaiting
<1>4. CASE OpeningFails
  BY <1>4, WaiterTypes, TaskTypes, ChannelsAssumption DEF OpeningFails, StopWaiting
<1>5. CASE WaitCall
  BY <1>5, WaiterTypes, TaskTypes, ChannelsAssumption DEF WaitCall, MayCall, Begin
<1>6. CASE ShutdownCall
  BY <1>6, WaiterTypes, TaskTypes, ChannelsAssumption
  DEF ShutdownCall, MayCall, Begin
<1>7. CASE DropCall
  BY <1>7, WaiterTypes, TaskTypes, ChannelsAssumption DEF DropCall, Begin
<1>8. ASSUME NEW t \in Tokens, WaitUntilCancelledCall(t) PROVE WaitersPlaced'
  BY <1>8, WaiterTypes, TaskTypes, ChannelsAssumption
  DEF WaitUntilCancelledCall, MayCall, Begin
<1>9. CASE StoreOwn
  BY <1>9, WaiterTypes, TaskTypes, ChannelsAssumption DEF StoreOwn
<1>10. CASE NotifyOwn
  BY <1>10, WaiterTypes, TaskTypes, ChannelsAssumption DEF NotifyOwn, Wake
<1>11. CASE Disconnect
  BY <1>11, WaiterTypes, TaskTypes, ChannelsAssumption DEF Disconnect, And
<1>12. CASE JoinSession
  BY <1>12, WaiterTypes, TaskTypes, ChannelsAssumption DEF JoinSession, And
<1>13. CASE SessionOver
  BY <1>13, WaiterTypes, TaskTypes, ChannelsAssumption
  DEF SessionOver, And, StopWaiting
<1>14. CASE DrainCheck
  BY <1>14, WaiterTypes, TaskTypes, ChannelsAssumption
  DEF DrainCheck, DrainLook, Return, ForgetJoined
<1>15. CASE DrainCreate
  BY <1>15, WaiterTypes, TaskTypes, ChannelsAssumption DEF DrainCreate
<1>16. CASE DrainRecheck
  BY <1>16, WaiterTypes, TaskTypes, ChannelsAssumption
  DEF DrainRecheck, DrainLook, Return, ForgetJoined
<1>17. CASE DrainNotified
  BY <1>17, WaiterTypes, TaskTypes, ChannelsAssumption DEF DrainNotified
<1>18. CASE TornDown
  BY <1>18, WaiterTypes, TaskTypes, ChannelsAssumption DEF TornDown
<1>19. CASE CancelForward
  BY <1>19, WaiterTypes, TaskTypes, ChannelsAssumption DEF CancelForward, And
<1>20. CASE Deadline
  BY <1>20, WaiterTypes, TaskTypes, ChannelsAssumption
  DEF Deadline, Return, ForgetJoined
<1>21. CASE SessionEnds
  BY <1>21, WaiterTypes, TaskTypes, ChannelsAssumption DEF SessionEnds
<1>22. ASSUME NEW t \in Tokens, CancelStore(t) PROVE WaitersPlaced'
  BY <1>22, WaiterTypes, TaskTypes, ChannelsAssumption DEF CancelStore
<1>23. ASSUME NEW t \in Tokens, CancelNotify(t) PROVE WaitersPlaced'
  BY <1>23, WaiterTypes, TaskTypes, ChannelsAssumption DEF CancelNotify, Wake
<1>24. ASSUME NEW w \in Waiters, LookAtFlag(w) PROVE WaitersPlaced'
  BY <1>24, WaiterTypes, TaskTypes, ChannelsAssumption DEF LookAtFlag, Interrupted
<1>25. ASSUME NEW w \in Waiters, CreateNotified(w) PROVE WaitersPlaced'
  BY <1>25, WaiterTypes, TaskTypes, ChannelsAssumption DEF CreateNotified
<1>26. ASSUME NEW w \in Waiters, LookAgain(w) PROVE WaitersPlaced'
  BY <1>26, WaiterTypes, TaskTypes, ChannelsAssumption DEF LookAgain, Interrupted
<1>27. ASSUME NEW w \in Waiters, Notified(w) PROVE WaitersPlaced'
  BY <1>27, WaiterTypes, TaskTypes, ChannelsAssumption DEF Notified
<1>28. ASSUME NEW c \in Channels, OpenForwarded(c) PROVE WaitersPlaced'
  BY <1>28, WaiterTypes, TaskTypes, ChannelsAssumption DEF OpenForwarded, Register
<1>29. ASSUME NEW c \in Channels, TargetConnected(c) PROVE WaitersPlaced'
  BY <1>29, WaiterTypes, TaskTypes, ChannelsAssumption DEF TargetConnected
<1>30. ASSUME NEW c \in Channels, TargetFailsOrCopyEnds(c) PROVE WaitersPlaced'
  BY <1>30, WaiterTypes, TaskTypes, ChannelsAssumption
  DEF TargetFailsOrCopyEnds, StopWaiting
<1>31. ASSUME NEW c \in Channels, ChannelShutdown(c) PROVE WaitersPlaced'
  BY <1>31, WaiterTypes, TaskTypes, ChannelsAssumption DEF ChannelShutdown
<1>32. ASSUME NEW c \in Channels, DropGuard(c) PROVE WaitersPlaced'
  BY <1>32, WaiterTypes, TaskTypes, ChannelsAssumption DEF DropGuard
<1>33. ASSUME NEW c \in Channels, NotifyEmpty(c) PROVE WaitersPlaced'
  BY <1>33, WaiterTypes, TaskTypes, ChannelsAssumption DEF NotifyEmpty
<1>34. ASSUME NEW c \in Channels, KillTask(c) PROVE WaitersPlaced'
  BY <1>34, WaiterTypes, TaskTypes, ChannelsAssumption DEF KillTask, StopWaiting
<1> QED BY <1>1, <1>2, <1>3, <1>4, <1>5, <1>6, <1>7, <1>8, <1>9, <1>10, <1>11,
   <1>12, <1>13, <1>14, <1>15, <1>16, <1>17, <1>18, <1>19, <1>20, <1>21,
   <1>22, <1>23, <1>24, <1>25, <1>26, <1>27, <1>28, <1>29, <1>30, <1>31,
   <1>32, <1>33, <1>34
   DEF Next, Opening, Calls, OwnerStep, WaiterStep, TaskStep

\* What the owner knows at each point of its calls stays true.
LEMMA StepOwnerKnows ==
    ASSUME TypeOK, ForwardInv, Next
    PROVE  OwnerKnows'
<1> USE ForwardParts DEF callVars, handleVars, portVars, waitVars, taskVars,
           OwnerKnows, Starting, DrainSteps
<1>1. CASE Connected
  BY <1>1 DEF Connected, Ends
<1>2. CASE Authenticated
  BY <1>2 DEF Authenticated
<1>3. CASE ForwardGranted
  BY <1>3 DEF ForwardGranted, StopWaiting
<1>4. CASE OpeningFails
  BY <1>4 DEF OpeningFails, StopWaiting
<1>5. CASE WaitCall
  BY <1>5, HandleTypes DEF WaitCall, MayCall, Begin, HandleMeansUnjoined
<1>6. CASE ShutdownCall
  BY <1>6 DEF ShutdownCall, MayCall, Begin
<1>7. CASE DropCall
  BY <1>7 DEF DropCall, Begin
<1>8. ASSUME NEW t \in Tokens, WaitUntilCancelledCall(t) PROVE OwnerKnows'
  BY <1>8, HandleTypes
  DEF WaitUntilCancelledCall, MayCall, Begin, HandleMeansUnjoined
<1>9. CASE StoreOwn
  BY <1>9 DEF StoreOwn
<1>10. CASE NotifyOwn
  BY <1>10 DEF NotifyOwn, HandleMeansUnjoined
<1>11. CASE Disconnect
  BY <1>11 DEF Disconnect, And
<1>12. CASE JoinSession
  BY <1>12 DEF JoinSession, And
<1>13. CASE SessionOver
  BY <1>13 DEF SessionOver, And, StopWaiting
<1>14. CASE DrainCheck
  BY <1>14 DEF DrainCheck, DrainLook, Return, ForgetJoined
<1>15. CASE DrainCreate
  BY <1>15 DEF DrainCreate
<1>16. CASE DrainRecheck
  BY <1>16 DEF DrainRecheck, DrainLook, Return, ForgetJoined
<1>17. CASE DrainNotified
  BY <1>17 DEF DrainNotified
<1>18. CASE TornDown
  BY <1>18 DEF TornDown, Ends
<1>19. CASE CancelForward
  BY <1>19 DEF CancelForward, And
<1>20. CASE Deadline
  BY <1>20 DEF Deadline, Return, ForgetJoined
<1>21. CASE SessionEnds
  BY <1>21 DEF SessionEnds
<1>22. ASSUME NEW w \in Waiters, LookAtFlag(w) PROVE OwnerKnows'
  BY <1>22 DEF LookAtFlag, Interrupted, WaitersPlaced
<1>23. ASSUME NEW w \in Waiters, LookAgain(w) PROVE OwnerKnows'
  BY <1>23 DEF LookAgain, Interrupted, WaitersPlaced
<1>24. CASE UNCHANGED <<pc, bindPort, handle, joined, terminal, flow, session>>
  BY <1>24
<1> QED BY <1>1, <1>2, <1>3, <1>4, <1>5, <1>6, <1>7, <1>8, <1>9, <1>10, <1>11,
   <1>12, <1>13, <1>14, <1>15, <1>16, <1>17, <1>18, <1>19, <1>20, <1>21,
   <1>22, <1>23, <1>24
   DEF Next, Opening, Calls, OwnerStep, WaiterStep, TaskStep, CancelStore,
   CancelNotify, CreateNotified, Notified, OpenForwarded, TargetConnected,
   TargetFailsOrCopyEnds, ChannelShutdown, DropGuard, NotifyEmpty, KillTask

\* The port compared with is resolved together with the one reported.
LEMMA StepPortResolved ==
    ASSUME TypeOK, ForwardInv, Next
    PROVE  PortResolved'
<1> USE ForwardParts DEF callVars, handleVars, portVars, waitVars, taskVars, PortResolved
<1>1. CASE ForwardGranted
  BY <1>1 DEF ForwardGranted, StopWaiting
<1>2. CASE UNCHANGED <<resolvedPort, bindPort>>
  BY <1>2
<1> QED BY <1>1, <1>2
   DEF Next, Opening, Calls, OwnerStep, WaiterStep, TaskStep, Connected,
   Authenticated, OpeningFails, WaitCall, ShutdownCall, DropCall,
   WaitUntilCancelledCall, StoreOwn, NotifyOwn, Disconnect, JoinSession,
   SessionOver, DrainCheck, DrainCreate, DrainRecheck, DrainNotified,
   TornDown, CancelForward, Deadline, SessionEnds, CancelStore, CancelNotify,
   LookAtFlag, CreateNotified, LookAgain, Notified, OpenForwarded,
   TargetConnected, TargetFailsOrCopyEnds, ChannelShutdown, DropGuard,
   NotifyEmpty, KillTask, DrainLook

\* A drained and joined forward gets no new task.
LEMMA StepTerminalMeansDrained ==
    ASSUME TypeOK, ForwardInv, Next
    PROVE  TerminalMeansDrained'
<1> USE ForwardParts DEF callVars, handleVars, portVars, waitVars, taskVars, TerminalMeansDrained
<1>1. CASE WaitCall
  BY <1>1 DEF WaitCall, MayCall, Begin
<1>2. CASE ShutdownCall
  BY <1>2 DEF ShutdownCall, MayCall, Begin
<1>3. CASE DropCall
  BY <1>3 DEF DropCall, Begin
<1>4. ASSUME NEW t \in Tokens, WaitUntilCancelledCall(t) PROVE TerminalMeansDrained'
  BY <1>4 DEF WaitUntilCancelledCall, MayCall, Begin
<1>5. CASE JoinSession
  BY <1>5 DEF JoinSession, Holding
<1>6. CASE SessionOver
  BY <1>6 DEF SessionOver, Holding
<1>7. CASE DrainCheck
  BY <1>7, NobodyHolds
  DEF DrainCheck, DrainLook, Return, OwnerKnows, DrainSteps, Holding
<1>8. CASE DrainRecheck
  BY <1>8, NobodyHolds
  DEF DrainRecheck, DrainLook, Return, OwnerKnows, DrainSteps, Holding
<1>9. CASE Deadline
  BY <1>9 DEF Deadline, Return, ForgetJoined
<1>10. ASSUME NEW w \in Waiters, LookAtFlag(w) PROVE TerminalMeansDrained'
  BY <1>10, TaskTypes, ChannelsAssumption
  DEF LookAtFlag, Interrupted, WaitersPlaced, Waiters, Holding
<1>11. ASSUME NEW w \in Waiters, LookAgain(w) PROVE TerminalMeansDrained'
  BY <1>11, TaskTypes, ChannelsAssumption
  DEF LookAgain, Interrupted, WaitersPlaced, Waiters, Holding
<1>12. ASSUME NEW c \in Channels, OpenForwarded(c) PROVE TerminalMeansDrained'
  <2>1. ~terminal
    BY <1>12 DEF OpenForwarded, OwnerKnows, Ends
  <2> QED BY <1>12, <2>1 DEF OpenForwarded
<1>13. ASSUME NEW c \in Channels, TargetConnected(c) PROVE TerminalMeansDrained'
  BY <1>13, TaskTypes DEF TargetConnected, Holding
<1>14. ASSUME NEW c \in Channels, TargetFailsOrCopyEnds(c) PROVE TerminalMeansDrained'
  BY <1>14, TaskTypes DEF TargetFailsOrCopyEnds, Holding
<1>15. ASSUME NEW c \in Channels, ChannelShutdown(c) PROVE TerminalMeansDrained'
  BY <1>15, TaskTypes DEF ChannelShutdown, Holding
<1>16. ASSUME NEW c \in Channels, DropGuard(c) PROVE TerminalMeansDrained'
  BY <1>16, TaskTypes DEF DropGuard, Holding
<1>17. ASSUME NEW c \in Channels, NotifyEmpty(c) PROVE TerminalMeansDrained'
  BY <1>17, TaskTypes DEF NotifyEmpty, Holding
<1>18. ASSUME NEW c \in Channels, KillTask(c) PROVE TerminalMeansDrained'
  BY <1>18, TaskTypes DEF KillTask, Holding
<1>19. CASE UNCHANGED <<terminal, joined, active, task>>
  BY <1>19 DEF Holding
<1> QED BY <1>1, <1>2, <1>3, <1>4, <1>5, <1>6, <1>7, <1>8, <1>9, <1>10, <1>11,
   <1>12, <1>13, <1>14, <1>15, <1>16, <1>17, <1>18, <1>19
   DEF Next, Opening, Calls, OwnerStep, WaiterStep, TaskStep, Connected,
   Authenticated, ForwardGranted, OpeningFails, StoreOwn, NotifyOwn,
   Disconnect, DrainCreate, DrainNotified, TornDown, CancelForward,
   SessionEnds, CancelStore, CancelNotify, CreateNotified, Notified

\* The handle is given up when and only when the session has been joined.
LEMMA StepHandleMeansUnjoined ==
    ASSUME TypeOK, ForwardInv, Next
    PROVE  HandleMeansUnjoined'
<1> USE ForwardParts DEF callVars, handleVars, portVars, waitVars, taskVars,
           HandleMeansUnjoined, OwnerKnows, DrainSteps
<1>1. CASE Connected
  BY <1>1 DEF Connected
<1>2. CASE Authenticated
  BY <1>2 DEF Authenticated
<1>3. CASE ForwardGranted
  BY <1>3 DEF ForwardGranted, Starting
<1>4. CASE OpeningFails
  BY <1>4 DEF OpeningFails, StopWaiting
<1>5. CASE WaitCall
  BY <1>5 DEF WaitCall, MayCall, Begin
<1>6. CASE ShutdownCall
  BY <1>6 DEF ShutdownCall, MayCall, Begin
<1>7. CASE DropCall
  BY <1>7 DEF DropCall, Begin
<1>8. ASSUME NEW t \in Tokens, WaitUntilCancelledCall(t) PROVE HandleMeansUnjoined'
  BY <1>8 DEF WaitUntilCancelledCall, MayCall, Begin
<1>9. CASE StoreOwn
  BY <1>9 DEF StoreOwn
<1>10. CASE NotifyOwn
  BY <1>10 DEF NotifyOwn, Wake
<1>11. CASE Disconnect
  BY <1>11 DEF Disconnect, And
<1>12. CASE JoinSession
  BY <1>12 DEF JoinSession, And
<1>13. CASE SessionOver
  BY <1>13 DEF SessionOver, And, StopWaiting
<1>14. CASE DrainCheck
  BY <1>14 DEF DrainCheck, DrainLook, Return, ForgetJoined
<1>15. CASE DrainCreate
  BY <1>15 DEF DrainCreate
<1>16. CASE DrainRecheck
  BY <1>16 DEF DrainRecheck, DrainLook, Return, ForgetJoined
<1>17. CASE DrainNotified
  BY <1>17 DEF DrainNotified
<1>18. CASE TornDown
  BY <1>18 DEF TornDown
<1>19. CASE CancelForward
  BY <1>19 DEF CancelForward, And
<1>20. CASE Deadline
  BY <1>20 DEF Deadline, Return, ForgetJoined
<1>21. ASSUME NEW w \in Waiters, LookAtFlag(w) PROVE HandleMeansUnjoined'
  BY <1>21 DEF LookAtFlag, Interrupted, WaitersPlaced, Starting
<1>22. ASSUME NEW w \in Waiters, LookAgain(w) PROVE HandleMeansUnjoined'
  BY <1>22 DEF LookAgain, Interrupted, WaitersPlaced, Starting
<1>23. CASE UNCHANGED <<bindPort, handle, joined, pc>>
  BY <1>23
<1> QED BY <1>1, <1>2, <1>3, <1>4, <1>5, <1>6, <1>7, <1>8, <1>9, <1>10, <1>11,
   <1>12, <1>13, <1>14, <1>15, <1>16, <1>17, <1>18, <1>19, <1>20, <1>21,
   <1>22, <1>23
   DEF Next, Opening, Calls, OwnerStep, WaiterStep, TaskStep, SessionEnds,
   CancelStore, CancelNotify, CreateNotified, Notified, OpenForwarded,
   TargetConnected, TargetFailsOrCopyEnds, ChannelShutdown, DropGuard,
   NotifyEmpty, KillTask

\* Endpoints are compared with the bound port; binding one keeps those accepted before.
LEMMA StepAcceptedOnlyBound ==
    ASSUME TypeOK, ForwardInv, Next
    PROVE  AcceptedOnlyBound'
<1> USE ForwardParts DEF callVars, handleVars, portVars, waitVars, taskVars, AcceptedOnlyBound
<1>1. CASE ForwardGranted
  <2>1. bindPort = 0 /\ UNCHANGED endpoint
    BY <1>1 DEF ForwardGranted, OwnerKnows, Starting
  <2> QED BY <1>1, <2>1 DEF ForwardGranted
<1>2. ASSUME NEW c \in Channels, OpenForwarded(c) PROVE AcceptedOnlyBound'
  <2>1. CASE UNCHANGED endpoint
    BY <1>2, <2>1 DEF OpenForwarded
  <2>2. CASE ~UNCHANGED endpoint
    <3>1. PICK host \in Hosts, port \in ClaimedPorts :
             /\ MatchesConnectedEndpoint(host, port)
             /\ endpoint' = [endpoint EXCEPT ![c] = [host |-> host, port |-> port]]
      BY <1>2, <2>2 DEF OpenForwarded
    <3>2. port \in {RequestedPort, bindPort} \ {0}
      BY <3>1 DEF MatchesConnectedEndpoint, ToU16, PortResolved
    <3>3. BindHost \in {host, "0.0.0.0", "::"}
      BY <3>1 DEF MatchesConnectedEndpoint
    <3>4. /\ endpoint'[c] = [host |-> host, port |-> port]
          /\ \A d \in Channels : d # c => endpoint'[d] = endpoint[d]
      BY <3>1, EndpointTypes
    <3> QED BY <1>2, <3>2, <3>3, <3>4 DEF OpenForwarded
  <2> QED BY <2>1, <2>2
<1>3. CASE UNCHANGED <<endpoint, bindPort>>
  BY <1>3
<1> QED BY <1>1, <1>2, <1>3
   DEF Next, Opening, Calls, OwnerStep, WaiterStep, TaskStep, Connected,
   Authenticated, OpeningFails, WaitCall, ShutdownCall, DropCall,
   WaitUntilCancelledCall, StoreOwn, NotifyOwn, Disconnect, JoinSession,
   SessionOver, DrainCheck, DrainCreate, DrainRecheck, DrainNotified,
   TornDown, CancelForward, Deadline, SessionEnds, CancelStore, CancelNotify,
   LookAtFlag, CreateNotified, LookAgain, Notified, TargetConnected,
   TargetFailsOrCopyEnds, ChannelShutdown, DropGuard, NotifyEmpty, KillTask,
   DrainLook

\* Whoever goes to sleep has looked at the flag or the counter after its Notified
\* was created; whoever cancels or ends notifies after the store.
LEMMA StepNoLostWakeup ==
    ASSUME TypeOK, ForwardInv, Next
    PROVE  NoLostWakeup'
<1> USE ForwardParts DEF callVars, handleVars, portVars, waitVars, taskVars,
           NoLostWakeup, Watches, Waiters
<1>1. CASE Connected
  BY <1>1, WaiterTypes, FlagTypes, ChannelsAssumption DEF Connected
<1>2. CASE Authenticated
  BY <1>2, WaiterTypes, FlagTypes, ChannelsAssumption DEF Authenticated
<1>3. CASE ForwardGranted
  BY <1>3, WaiterTypes, FlagTypes, ChannelsAssumption
  DEF ForwardGranted, StopWaiting
<1>4. CASE OpeningFails
  BY <1>4, WaiterTypes, FlagTypes, ChannelsAssumption
  DEF OpeningFails, StopWaiting, Starting
<1>5. CASE WaitCall
  BY <1>5, WaiterTypes, FlagTypes, ChannelsAssumption DEF WaitCall, MayCall, Begin
<1>6. CASE ShutdownCall
  BY <1>6, WaiterTypes, FlagTypes, ChannelsAssumption
  DEF ShutdownCall, MayCall, Begin
<1>7. CASE DropCall
  BY <1>7, WaiterTypes, FlagTypes, ChannelsAssumption DEF DropCall, Begin
<1>8. ASSUME NEW t \in Tokens, WaitUntilCancelledCall(t) PROVE NoLostWakeup'
  BY <1>8, WaiterTypes, FlagTypes, ChannelsAssumption
  DEF WaitUntilCancelledCall, MayCall, Begin
<1>9. CASE StoreOwn
  BY <1>9, WaiterTypes, FlagTypes, ChannelsAssumption DEF StoreOwn
<1>10. CASE NotifyOwn
  BY <1>10, WaiterTypes, FlagTypes, ChannelsAssumption DEF NotifyOwn, Wake
<1>11. CASE Disconnect
  BY <1>11, WaiterTypes, FlagTypes, ChannelsAssumption DEF Disconnect, And
<1>12. CASE JoinSession
  BY <1>12, WaiterTypes, FlagTypes, ChannelsAssumption DEF JoinSession, And
<1>13. CASE SessionOver
  BY <1>13, WaiterTypes, FlagTypes, ChannelsAssumption
  DEF SessionOver, And, StopWaiting
<1>14. CASE DrainCheck
  BY <1>14, WaiterTypes, FlagTypes, ChannelsAssumption
  DEF DrainCheck, DrainLook, Return, ForgetJoined
<1>15. CASE DrainCreate
  BY <1>15, WaiterTypes, FlagTypes, ChannelsAssumption DEF DrainCreate
<1>16. CASE DrainRecheck
  BY <1>16, CounterTypes, WaiterTypes, FlagTypes, ChannelsAssumption
  DEF DrainRecheck, DrainLook, Return
<1>17. CASE DrainNotified
  BY <1>17, WaiterTypes, FlagTypes, ChannelsAssumption DEF DrainNotified
<1>18. CASE TornDown
  BY <1>18, WaiterTypes, FlagTypes, ChannelsAssumption DEF TornDown
<1>19. CASE CancelForward
  BY <1>19, WaiterTypes, FlagTypes, ChannelsAssumption DEF CancelForward, And
<1>20. CASE Deadline
  BY <1>20, WaiterTypes, FlagTypes, ChannelsAssumption
  DEF Deadline, Return, ForgetJoined
<1>21. CASE SessionEnds
  BY <1>21, WaiterTypes, FlagTypes, ChannelsAssumption DEF SessionEnds
<1>22. ASSUME NEW t \in Tokens, CancelStore(t) PROVE NoLostWakeup'
  BY <1>22, WaiterTypes, FlagTypes, ChannelsAssumption DEF CancelStore
<1>23. ASSUME NEW t \in Tokens, CancelNotify(t) PROVE NoLostWakeup'
  BY <1>23, WaiterTypes, FlagTypes, ChannelsAssumption DEF CancelNotify, Wake
<1>24. ASSUME NEW w \in Waiters, LookAtFlag(w) PROVE NoLostWakeup'
  BY <1>24, TaskTypes, WaiterTypes, FlagTypes, ChannelsAssumption
  DEF LookAtFlag, Interrupted, WaitersPlaced, Starting
<1>25. ASSUME NEW w \in Waiters, CreateNotified(w) PROVE NoLostWakeup'
  BY <1>25, WaiterTypes, FlagTypes, ChannelsAssumption DEF CreateNotified
<1>26. ASSUME NEW w \in Waiters, LookAgain(w) PROVE NoLostWakeup'
  BY <1>26, TaskTypes, WaiterTypes, FlagTypes, ChannelsAssumption
  DEF LookAgain, Interrupted, WaitersPlaced, Starting
<1>27. ASSUME NEW w \in Waiters, Notified(w) PROVE NoLostWakeup'
  BY <1>27, WaiterTypes, FlagTypes, ChannelsAssumption DEF Notified
<1>28. ASSUME NEW c \in Channels, OpenForwarded(c) PROVE NoLostWakeup'
  BY <1>28, TaskTypes, CounterTypes, WaiterTypes, FlagTypes, ChannelsAssumption
  DEF OpenForwarded, Register
<1>29. ASSUME NEW c \in Channels, TargetConnected(c) PROVE NoLostWakeup'
  BY <1>29, WaiterTypes, FlagTypes, ChannelsAssumption DEF TargetConnected
<1>30. ASSUME NEW c \in Channels, TargetFailsOrCopyEnds(c) PROVE NoLostWakeup'
  BY <1>30, WaiterTypes, FlagTypes, ChannelsAssumption
  DEF TargetFailsOrCopyEnds, StopWaiting
<1>31. ASSUME NEW c \in Channels, ChannelShutdown(c) PROVE NoLostWakeup'
  BY <1>31, WaiterTypes, FlagTypes, ChannelsAssumption DEF ChannelShutdown
<1>32. ASSUME NEW c \in Channels, DropGuard(c) PROVE NoLostWakeup'
  BY <1>32, TaskTypes, CounterTypes, WaiterTypes, FlagTypes, ChannelsAssumption
  DEF DropGuard
<1>33. ASSUME NEW c \in Channels, NotifyEmpty(c) PROVE NoLostWakeup'
  BY <1>33, WaiterTypes, FlagTypes, ChannelsAssumption DEF NotifyEmpty
<1>34. ASSUME NEW c \in Channels, KillTask(c) PROVE NoLostWakeup'
  BY <1>34, WaiterTypes, FlagTypes, ChannelsAssumption DEF KillTask, StopWaiting
<1> QED BY <1>1, <1>2, <1>3, <1>4, <1>5, <1>6, <1>7, <1>8, <1>9, <1>10, <1>11,
   <1>12, <1>13, <1>14, <1>15, <1>16, <1>17, <1>18, <1>19, <1>20, <1>21,
   <1>22, <1>23, <1>24, <1>25, <1>26, <1>27, <1>28, <1>29, <1>30, <1>31,
   <1>32, <1>33, <1>34
   DEF Next, Opening, Calls, OwnerStep, WaiterStep, TaskStep

\* A stuttering step changes nothing the invariants speak of.
LEMMA StutterForward ==
    ASSUME TypeOK, ForwardInv, UNCHANGED vars
    PROVE  TypeOK' /\ ForwardInv'
<1> USE DEF vars, callVars, handleVars, portVars, waitVars, taskVars
<1>1. TypeOK'
  BY Zenon DEF TypeOK
<1>2. CounterExact'
  BY ForwardParts, SameHolders DEF Holding
<1>3. WaitersPlaced' /\ OwnerKnows' /\ PortResolved' /\ HandleMeansUnjoined'
  BY ForwardParts DEF WaitersPlaced, OwnerKnows, PortResolved, HandleMeansUnjoined
<1>4. TerminalMeansDrained' /\ AcceptedOnlyBound'
  BY ForwardParts DEF TerminalMeansDrained, AcceptedOnlyBound, Holding
<1>5. NoLostWakeup'
  BY ForwardParts DEF NoLostWakeup, Watches
<1> QED BY <1>1, <1>2, <1>3, <1>4, <1>5 DEF ForwardInv

\* The types and the invariant hold in every reachable state, for any finite
\* number of channels and any number of calls.
THEOREM ForwardInvariant == Spec => [](TypeOK /\ ForwardInv)
<1>1. Init => TypeOK /\ ForwardInv
  BY InitType, InitForward
<1>2. TypeOK /\ ForwardInv /\ [Next]_vars => (TypeOK /\ ForwardInv)'
  <2>1. ASSUME TypeOK, ForwardInv, Next PROVE TypeOK' /\ ForwardInv'
    BY <2>1, ForwardParts, StepType, StepCounterExact, StepWaitersPlaced, StepOwnerKnows,
       StepPortResolved, StepTerminalMeansDrained, StepHandleMeansUnjoined,
       StepAcceptedOnlyBound, StepNoLostWakeup
    DEF ForwardInv
  <2> QED BY <2>1, StutterForward
<1> QED BY <1>1, <1>2, PTL DEF Spec

\* A call that reports itself terminal has joined the session and drained every
\* task, and nothing is started afterwards.
THEOREM ForwardDrained == Spec => []TerminalMeansDrained
<1>1. ForwardInv => TerminalMeansDrained
  BY DEF ForwardInv
<1> QED BY <1>1, ForwardInvariant, PTL

\* The session handle is kept until the session has been joined and is given up
\* once it has, whichever call timed out in between.
THEOREM ForwardHandle == Spec => []HandleMeansUnjoined
<1>1. ForwardInv => HandleMeansUnjoined
  BY DEF ForwardInv
<1> QED BY <1>1, ForwardInvariant, PTL

\* Every accepted channel is for the port the forward asked for or was given.
THEOREM ForwardAccepts == Spec => []AcceptedOnlyBound
<1>1. ForwardInv => AcceptedOnlyBound
  BY DEF ForwardInv
<1> QED BY <1>1, ForwardInvariant, PTL

\* Neither a cancel() nor the end of the last task is missed by a sleeper.
THEOREM ForwardWakeups == Spec => []NoLostWakeup
<1>1. ForwardInv => NoLostWakeup
  BY DEF ForwardInv
<1> QED BY <1>1, ForwardInvariant, PTL
=============================================================================
