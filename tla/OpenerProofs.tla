--------------------------- MODULE OpenerProofs ---------------------------
(***************************************************************************)
(* Theorems about Opener, for any number of identities.                    *)
(***************************************************************************)
EXTENDS Opener, SequenceTheorems, TLAPS

Phases == {Milestones[i] : i \in 1..4}
Requests == {"RequestPty", "RequestShell", "Exec"}

LEMMA MilestoneTypes ==
    /\ Milestones \in Seq(Phases) /\ Len(Milestones) = 4
    /\ \A i \in 1..4 : Milestones[i] \in Phases
    /\ {"Connecting", "Authenticating", "Opening", "Connected"} \subseteq Phases
<1>1. \A i \in 1..4 : Milestones[i] \in Phases
  BY DEF Phases
<1>2. /\ Milestones[1] = "Connecting" /\ Milestones[2] = "Authenticating"
      /\ Milestones[3] = "Opening" /\ Milestones[4] = "Connected"
  BY DEF Milestones
<1> QED BY <1>1, <1>2 DEF Milestones

\* The plan is a sequence of requests.
LEMMA PlanType ==
    ASSUME TypeOK
    PROVE  StartupPlan \in Seq(Requests)
<1> DEFINE p == IF call.pty THEN <<"RequestPty">> ELSE <<>>
           q == CASE call.startup = "Shell" -> <<"RequestShell">>
                  [] call.startup = "Command" -> <<"Exec">>
                  [] call.startup = "NoShell" -> <<>>
<1>1. p \in Seq(Requests)
  <2>1. <<"RequestPty">> \in Seq(Requests) /\ <<>> \in Seq(Requests)
    BY EmptySeq DEF Requests
  <2> QED BY <2>1
<1>2. call.startup \in {"Shell", "Command", "NoShell"}
  BY Zenon DEF TypeOK, Calls
<1>3. q \in Seq(Requests)
  <2>1. <<"RequestShell">> \in Seq(Requests) /\ <<"Exec">> \in Seq(Requests)
    BY DEF Requests
  <2>2. <<>> \in Seq(Requests)
    BY EmptySeq
  <2> QED BY <1>2, <2>1, <2>2
<1>4. StartupPlan = p \o q
  BY DEF StartupPlan
<1> HIDE DEF p, q
<1> QED BY <1>1, <1>3, <1>4, ConcatProperties

\* Where the call and its cancelled() may be, and what the call may return.
Points == {"idle", "ready", "copying", "done"} \cup Establishing \cup Cleanup
Waits == {"off", "check", "create", "recheck", "await"}
Returned == {"none"} \cup Results

LEMMA ControlTypes == TypeOK => pc \in Points /\ wpc \in Waits /\ result \in Returned
BY Zenon DEF TypeOK, Points, Waits, Returned

LEMMA OpenerTypes ==
    TypeOK => /\ phases \in Seq(Phases) /\ requests \in Seq(Requests)
              /\ cleanup \in Seq({"ok", "error", "timeout"})
              /\ identities \in 0..MaxIdentities /\ epoch \in Nat /\ seen \in Nat
BY Zenon DEF TypeOK, Phases, Requests

LEMMA OfferTypes == TypeOK => offers \in Seq(BOOLEAN)
BY Zenon DEF TypeOK

\* A milestone is added at the end, and so is a request.
LEMMA ReportType ==
    ASSUME TypeOK, NEW m \in {"Connecting", "Authenticating", "Opening", "Connected"}
    PROVE  /\ Append(phases, m) \in Seq(Phases)
           /\ Len(Append(phases, m)) = Len(phases) + 1
<1>1. m \in Phases
  BY MilestoneTypes
<1> QED BY <1>1, OpenerTypes, AppendProperties

LEMMA RequestType ==
    ASSUME TypeOK, Len(requests) < Len(StartupPlan)
    PROVE  LET more == Append(requests, StartupPlan[Len(requests) + 1])
           IN  /\ more \in Seq(Requests)
               /\ Len(more) = Len(requests) + 1
               /\ \A i \in 1..Len(requests) : more[i] = requests[i]
               /\ more[Len(requests) + 1] = StartupPlan[Len(requests) + 1]
<1>1. requests \in Seq(Requests) /\ Len(requests) \in Nat /\ Len(StartupPlan) \in Nat
  BY OpenerTypes, PlanType, LenProperties
<1>2. StartupPlan[Len(requests) + 1] \in Requests
  BY <1>1, PlanType, ElementOfSeq
<1> QED BY <1>1, <1>2, AppendProperties

LEMMA OfferSteps ==
    ASSUME TypeOK, NEW b \in BOOLEAN
    PROVE  /\ Len(offers) \in Nat /\ Len(Append(offers, b)) = Len(offers) + 1
           /\ \A i \in 1..Len(offers) : Append(offers, b)[i] = offers[i]
           /\ Append(offers, b)[Len(offers) + 1] = b
BY OfferTypes, AppendProperties, LenProperties

LEMMA CleanupSteps ==
    ASSUME TypeOK, NEW r \in {"ok", "error", "timeout"}
    PROVE  /\ Len(cleanup) \in Nat /\ Len(Append(cleanup, r)) = Len(cleanup) + 1
           /\ Append(cleanup, r) # <<>> /\ Append(cleanup, r)[Len(cleanup) + 1] = r
BY OpenerTypes, AppendProperties, LenProperties

LEMMA TransferTypes == TypeOK => primary \in {"none", "ok", "error"}
BY Zenon DEF TypeOK

\* Result::and returns the first error of its results, if there is one: of a
\* transfer and the three cleanup steps ...
LEMMA AndOfFour ==
    ASSUME NEW rs \in Seq({"ok", "error", "timeout"}), Len(rs) = 4
    PROVE  /\ And(rs) \in {"ok", "error", "timeout"}
           /\ And(rs) = "ok" <=> \A i \in 1..4 : rs[i] = "ok"
           /\ rs[1] # "ok" => And(rs) = rs[1]
<1> DEFINE First(i) == rs[i] # "ok" /\ \A j \in 1..(i - 1) : rs[j] = "ok"
<1>1. CASE \A i \in 1..4 : rs[i] = "ok"
  BY <1>1 DEF And
<1>2. CASE \E i \in 1..4 : rs[i] # "ok"
  <2>1. \E i \in 1..4 : First(i)
    <3>1. CASE rs[1] # "ok"
      BY <3>1
    <3>2. CASE rs[1] = "ok" /\ rs[2] # "ok"
      BY <3>2
    <3>3. CASE rs[1] = "ok" /\ rs[2] = "ok" /\ rs[3] # "ok"
      BY <3>3
    <3>4. CASE rs[1] = "ok" /\ rs[2] = "ok" /\ rs[3] = "ok" /\ rs[4] # "ok"
      BY <3>4
    <3> QED BY <1>2, <3>1, <3>2, <3>3, <3>4
  <2> DEFINE k == CHOOSE i \in 1..4 : First(i)
  <2>2. k \in 1..4 /\ First(k)
    BY <2>1
  <2>3. And(rs) = rs[k]
    BY <1>2 DEF And
  <2> HIDE DEF k
  <2>4. rs[1] # "ok" => k = 1
    BY <2>2
  <2>5. rs[k] \in {"ok", "error", "timeout"} /\ rs[k] # "ok"
    BY <2>2, ElementOfSeq
  <2> QED BY <1>2, <2>3, <2>4, <2>5
<1> QED BY <1>1, <1>2

\* ... or of a transfer and the deadline that ended its cleanup.
LEMMA AndOfTimeout ==
    ASSUME NEW r \in {"ok", "error"}
    PROVE  And(<<r, "timeout">>) = IF r = "ok" THEN "timeout" ELSE r
<1> DEFINE rs == <<r, "timeout">>
           First(i) == rs[i] # "ok" /\ \A j \in 1..(i - 1) : rs[j] = "ok"
<1>1. Len(rs) = 2 /\ rs[1] = r /\ rs[2] = "timeout"
  OBVIOUS
<1> DEFINE k == CHOOSE i \in 1..Len(rs) : First(i)
<1>2. And(rs) = rs[k]
  BY <1>1 DEF And
<1>3. \E i \in 1..Len(rs) : First(i)
  <2>1. CASE r # "ok"
    BY <1>1, <2>1
  <2>2. CASE r = "ok"
    BY <1>1, <2>2
  <2> QED BY <2>1, <2>2
<1>4. k \in 1..2 /\ First(k)
  BY <1>1, <1>3
<1> HIDE DEF k, rs
<1>5. k = IF r = "ok" THEN 2 ELSE 1
  BY <1>1, <1>4
<1> QED BY <1>1, <1>2, <1>5 DEF rs

\* What a forward whose cleanup steps have all been tried returns.
LEMMA CleanupAnswer ==
    ASSUME TypeOK, CleanupFollows, pc = "join", NEW r \in {"ok", "error"}
    PROVE  LET rs == <<primary>> \o Append(cleanup, r)
           IN  /\ And(rs) \in {"ok", "error", "timeout"}
               /\ And(rs) = "ok" <=> /\ primary = "ok"
                                    /\ \A i \in 1..3 : Append(cleanup, r)[i] = "ok"
               /\ primary # "ok" => And(rs) = primary
<1> DEFINE S == {"ok", "error", "timeout"}
           one == <<primary>>
           all == Append(cleanup, r)
           rs == one \o all
<1>1. cleanup \in Seq(S) /\ r \in S
  BY OpenerTypes, SeqMonotonic
<1>2. one \in Seq(S) /\ Len(one) = 1 /\ one[1] = primary
  <2>1. primary \in S
    BY TransferTypes DEF CleanupFollows, Cleanup
  <2> QED BY <2>1
<1>3. Len(cleanup) = 2
  BY DEF CleanupFollows
<1> HIDE DEF S, one
<1>4. all \in Seq(S) /\ Len(all) = 3
  <2>1. Append(cleanup, r) \in Seq(S) /\ Len(Append(cleanup, r)) = Len(cleanup) + 1
    BY <1>1, AppendProperties
  <2> QED BY <1>3, <2>1
<1> HIDE DEF all
<1>5. rs \in Seq(S) /\ Len(rs) = 4 /\ rs[1] = primary
      /\ \A i \in 2..4 : rs[i] = all[i - 1]
  <2>1. /\ rs \in Seq(S) /\ Len(rs) = Len(one) + Len(all)
        /\ \A i \in 1..(Len(one) + Len(all)) :
              rs[i] = IF i <= Len(one) THEN one[i] ELSE all[i - Len(one)]
    BY <1>2, <1>4, ConcatProperties
  <2> QED BY <1>2, <1>4, <2>1
<1> HIDE DEF rs
<1>6. (\A i \in 1..4 : rs[i] = "ok") <=> primary = "ok" /\ \A i \in 1..3 : all[i] = "ok"
  BY <1>5
<1> QED BY <1>5, <1>6, AndOfFour DEF S, all, one, rs

LEMMA InitType == Init => TypeOK
<1> SUFFICES ASSUME Init PROVE TypeOK
  OBVIOUS
<1>1. phases \in Seq(Phases) /\ requests \in Seq(Requests)
      /\ cleanup \in Seq({"ok", "error", "timeout"})
  BY EmptySeq DEF Init
<1>2. offers \in Seq(BOOLEAN)
  BY EmptySeq, Zenon DEF Init
<1>3. identities \in 0..MaxIdentities /\ epoch \in Nat /\ seen \in Nat
  BY IdentitiesAssumption DEF Init
<1> QED BY <1>1, <1>2, <1>3, Zenon DEF Init, TypeOK, Phases, Requests

\* Every step keeps the types.
LEMMA StepType ==
    ASSUME TypeOK, CleanupFollows, Next
    PROVE  TypeOK'
<1> USE DEF callVars, forwardVars, flagVars, waitVars
<1>1. CASE Call
  <2>1. pc' \in Points /\ wpc' \in Waits /\ result' \in Returned
    BY <1>1, ControlTypes
    DEF Call, Points, Waits, Returned, Results, Establishing, Cleanup
  <2> QED BY <1>1, <2>1, Zenon
  DEF TypeOK, Phases, Requests, Call, Points, Waits, Returned
<1>2. CASE CancelStore
  <2> QED BY <1>2, Zenon
  DEF TypeOK, Phases, Requests, CancelStore, Points, Waits, Returned
<1>3. CASE CancelNotify
  <2>1. epoch' \in Nat
    BY <1>3, OpenerTypes DEF CancelNotify
  <2> QED BY <1>3, <2>1, Zenon
  DEF TypeOK, Phases, Requests, CancelNotify, Points, Waits, Returned
<1>4. CASE LookAtFlag("check", "create")
  <2>1. pc' \in Points /\ wpc' \in Waits /\ result' \in Returned
    BY <1>4, ControlTypes
    DEF LookAtFlag, SeeCancelled, Points, Waits, Returned, Results, Establishing,
        Cleanup
  <2> QED BY <1>4, <2>1, Zenon
  DEF TypeOK, Phases, Requests, LookAtFlag, Points, Waits, Returned, SeeCancelled
<1>5. CASE LookAtFlag("recheck", "await")
  <2>1. pc' \in Points /\ wpc' \in Waits /\ result' \in Returned
    BY <1>5, ControlTypes
    DEF LookAtFlag, SeeCancelled, Points, Waits, Returned, Results, Establishing,
        Cleanup
  <2> QED BY <1>5, <2>1, Zenon
  DEF TypeOK, Phases, Requests, LookAtFlag, Points, Waits, Returned, SeeCancelled
<1>6. CASE CreateNotified
  <2>1. pc' \in Points /\ wpc' \in Waits /\ result' \in Returned
    BY <1>6, ControlTypes
    DEF CreateNotified, Points, Waits, Returned, Results, Establishing, Cleanup
  <2> QED BY <1>6, <2>1, Zenon
  DEF TypeOK, Phases, Requests, CreateNotified, Points, Waits, Returned
<1>7. CASE Notified
  <2>1. pc' \in Points /\ wpc' \in Waits /\ result' \in Returned
    BY <1>7, ControlTypes
    DEF Notified, Points, Waits, Returned, Results, Establishing, Cleanup
  <2> QED BY <1>7, <2>1, Zenon
  DEF TypeOK, Phases, Requests, Notified, Points, Waits, Returned
<1>8. CASE Connect
  <2>1. pc' \in Points /\ wpc' \in Waits /\ result' \in Returned
    BY <1>8, ControlTypes
    DEF Connect, Report, Goto, Points, Waits, Returned, Results, Establishing,
        Cleanup
  <2>2. phases' \in Seq(Phases)
    BY <1>8, OpenerTypes, ReportType DEF Connect, Report, Goto
  <2> QED BY <1>8, <2>1, <2>2, Zenon
  DEF TypeOK, Phases, Requests, Connect, Points, Waits, Returned
<1>9. CASE Connected
  <2>1. pc' \in Points /\ wpc' \in Waits /\ result' \in Returned
    BY <1>9, ControlTypes
    DEF Connected, Report, Return, BeginAuthentication, Goto, Points, Waits,
        Returned, Results, Establishing, Cleanup
  <2>2. phases' \in Seq(Phases)
    BY <1>9, OpenerTypes, ReportType
    DEF Connected, Report, Return, BeginAuthentication, Goto
  <2> QED BY <1>9, <2>1, <2>2, Zenon
  DEF TypeOK, Phases, Requests, Connected, Points, Waits, Returned
<1>10. CASE Prompted
  <2>1. pc' \in Points /\ wpc' \in Waits /\ result' \in Returned
    BY <1>10, ControlTypes
    DEF Prompted, Goto, Return, Points, Waits, Returned, Results, Establishing,
        Cleanup
  <2> QED BY <1>10, <2>1, Zenon
  DEF TypeOK, Phases, Requests, Prompted, Points, Waits, Returned
<1>11. CASE Authenticated
  <2>1. pc' \in Points /\ wpc' \in Waits /\ result' \in Returned
    BY <1>11, ControlTypes
    DEF Authenticated, BeginOpening, Goto, Report, Return, Points, Waits, Returned,
        Results, Establishing, Cleanup
  <2>2. phases' \in Seq(Phases)
    BY <1>11, OpenerTypes, ReportType
    DEF Authenticated, BeginOpening, Goto, Report, Return
  <2> QED BY <1>11, <2>1, <2>2, Zenon
  DEF TypeOK, Phases, Requests, Authenticated, Points, Waits, Returned
<1>12. CASE ListIdentities
  <2>1. pc' \in Points /\ wpc' \in Waits /\ result' \in Returned
    BY <1>12, ControlTypes
    DEF ListIdentities, Goto, Return, Points, Waits, Returned, Results,
        Establishing, Cleanup
  <2>2. identities' \in 0..MaxIdentities
    BY <1>12, OpenerTypes, IdentitiesAssumption DEF ListIdentities
  <2> QED BY <1>12, <2>1, <2>2, Zenon
  DEF TypeOK, Phases, Requests, ListIdentities, Points, Waits, Returned
<1>13. CASE OfferIdentity
  <2>1. pc' \in Points /\ wpc' \in Waits /\ result' \in Returned
    BY <1>13, ControlTypes
    DEF OfferIdentity, BeginOpening, Goto, Report, Return, Points, Waits, Returned,
        Results, Establishing, Cleanup
  <2>2. phases' \in Seq(Phases)
    BY <1>13, OpenerTypes, ReportType
    DEF OfferIdentity, BeginOpening, Goto, Report, Return
  <2>3. offers' \in Seq(BOOLEAN)
    <3>1. offers' \in {offers, Append(offers, TRUE), Append(offers, FALSE)}
      BY <1>13 DEF OfferIdentity
    <3>2. TRUE \in BOOLEAN /\ FALSE \in BOOLEAN
      OBVIOUS
    <3>3. Append(offers, TRUE) \in Seq(BOOLEAN) /\ Append(offers, FALSE) \in Seq(BOOLEAN)
      BY <3>2, OfferTypes, AppendProperties, Zenon
    <3> QED BY <3>1, <3>3, OfferTypes, Zenon
  <2> QED BY <1>13, <2>1, <2>2, <2>3, Zenon
  DEF TypeOK, Phases, Requests, OfferIdentity, Points, Waits, Returned
<1>14. CASE Opened
  <2>1. pc' \in Points /\ wpc' \in Waits /\ result' \in Returned
    BY <1>14, ControlTypes
    DEF Opened, Goto, Return, Points, Waits, Returned, Results, Establishing,
        Cleanup
  <2> QED BY <1>14, <2>1, Zenon
  DEF TypeOK, Phases, Requests, Opened, Points, Waits, Returned
<1>15. CASE StartRequest
  <2>1. pc' \in Points /\ wpc' \in Waits /\ result' \in Returned
    BY <1>15, ControlTypes
    DEF StartRequest, Goto, Return, Points, Waits, Returned, Results, Establishing,
        Cleanup
  <2>2. requests' \in Seq(Requests)
    BY <1>15, OpenerTypes, RequestType DEF StartRequest
  <2> QED BY <1>15, <2>1, <2>2, Zenon
  DEF TypeOK, Phases, Requests, StartRequest, Points, Waits, Returned
<1>16. CASE Started
  <2>1. pc' \in Points /\ wpc' \in Waits /\ result' \in Returned
    BY <1>16, ControlTypes
    DEF Started, Report, Return, Points, Waits, Returned, Results, Establishing,
        Cleanup
  <2>2. phases' \in Seq(Phases)
    BY <1>16, OpenerTypes, ReportType DEF Started, Report, Return
  <2> QED BY <1>16, <2>1, <2>2, Zenon
  DEF TypeOK, Phases, Requests, Started, Points, Waits, Returned
<1>17. CASE Deadline
  <2>1. pc' \in Points /\ wpc' \in Waits /\ result' \in Returned
    BY <1>17, ControlTypes
    DEF Deadline, Return, Points, Waits, Returned, Results, Establishing, Cleanup
  <2> QED BY <1>17, <2>1, Zenon
  DEF TypeOK, Phases, Requests, Deadline, Points, Waits, Returned
<1>18. CASE Ready
  <2>1. pc' \in Points /\ wpc' \in Waits /\ result' \in Returned
    BY <1>18, ControlTypes
    DEF Ready, Points, Waits, Returned, Results, Establishing, Cleanup
  <2> QED BY <1>18, <2>1, Zenon
  DEF TypeOK, Phases, Requests, Ready, Points, Waits, Returned
<1>19. CASE CopyEnds
  <2>1. pc' \in Points /\ wpc' \in Waits /\ result' \in Returned
    BY <1>19, ControlTypes
    DEF CopyEnds, Points, Waits, Returned, Results, Establishing, Cleanup
  <2> QED BY <1>19, <2>1, Zenon
  DEF TypeOK, Phases, Requests, CopyEnds, Points, Waits, Returned
<1>20. CASE CleanupStep
  <2>1. result' \in Returned
    <3>1. CASE pc = "join"
      <4>1. PICK r \in {"ok", "error"} :
               cleanup' = Append(cleanup, r) /\ result' = And(<<primary>> \o Append(cleanup, r))
        BY <1>20, <3>1 DEF CleanupStep, Return
      <4> QED BY <1>20, <3>1, <4>1, CleanupAnswer DEF Returned, Results
    <3>2. CASE pc # "join"
      BY <1>20, <3>2, ControlTypes DEF CleanupStep, Goto
    <3> QED BY <3>1, <3>2
  <2>2. pc' \in Points /\ wpc' \in Waits
    BY <1>20, ControlTypes DEF CleanupStep, Goto, Return, Points, Waits, Cleanup
  <2>3. cleanup' \in Seq({"ok", "error", "timeout"})
    BY <1>20, OpenerTypes, AppendProperties DEF CleanupStep
  <2> QED BY <1>20, <2>1, <2>2, <2>3, Zenon
  DEF TypeOK, Phases, Requests, CleanupStep, Points, Waits, Returned
<1>21. CASE ShutdownDeadline
  <2>1. result' \in Returned
    BY <1>21, AndOfTimeout, TransferTypes
    DEF ShutdownDeadline, Return, Returned, Results, CleanupFollows
  <2>2. pc' \in Points /\ wpc' \in Waits
    BY <1>21, ControlTypes DEF ShutdownDeadline, Return, Points, Waits, Cleanup
  <2>3. cleanup' \in Seq({"ok", "error", "timeout"})
    BY <1>21, OpenerTypes, AppendProperties DEF ShutdownDeadline
  <2> QED BY <1>21, <2>1, <2>2, <2>3, Zenon
  DEF TypeOK, Phases, Requests, ShutdownDeadline, Points, Waits, Returned
<1> QED BY <1>1, <1>2, <1>3, <1>4, <1>5, <1>6, <1>7, <1>8, <1>9, <1>10, <1>11,
   <1>12, <1>13, <1>14, <1>15, <1>16, <1>17, <1>18, <1>19, <1>20, <1>21
   DEF Next, WaiterStep, Answer

LEMMA OpenerParts ==
    OpenerInv => /\ EarlySeen /\ ResultWhenDone /\ PhasesFollow /\ RequestsFollow
                 /\ OffersFollow /\ CleanupFollows
                 /\ PhasesTruthful /\ CancelledBeforeCall /\ ForwardCleanedUp
BY DEF OpenerInv

\* Reporting the milestone that comes next keeps the reports a prefix.
LEMMA NextMilestone ==
    ASSUME TypeOK, phases = SubSeq(Milestones, 1, Len(phases)), Len(phases) < 4,
           NEW m, m = Milestones[Len(phases) + 1]
    PROVE  /\ Append(phases, m) = SubSeq(Milestones, 1, Len(phases) + 1)
           /\ Len(Append(phases, m)) = Len(phases) + 1
<1> DEFINE n == Len(phases) + 1
<1>1. n \in 1..4 /\ phases \in Seq(Phases)
  BY OpenerTypes, LenProperties
<1>2. m \in Phases
  BY <1>1, MilestoneTypes
<1>3. Append(phases, m) = phases \o <<m>> /\ Len(Append(phases, m)) = Len(phases) + 1
  BY <1>1, <1>2, AppendIsConcat, AppendProperties
<1>4. SubSeq(Milestones, 1, n) = SubSeq(Milestones, 1, n - 1) \o <<Milestones[n]>>
  BY <1>1, MilestoneTypes, SubSeqRecursiveSecond
<1>5. n - 1 = Len(phases)
  BY <1>1
<1> QED BY <1>3, <1>4, <1>5

LEMMA MilestoneNames ==
    /\ Milestones[1] = "Connecting" /\ Milestones[2] = "Authenticating"
    /\ Milestones[3] = "Opening" /\ Milestones[4] = "Connected"
BY DEF Milestones

LEMMA InitOpener == Init => OpenerInv
<1> SUFFICES ASSUME Init PROVE OpenerInv
  OBVIOUS
<1>0. TypeOK /\ Len(phases) = 0 /\ Len(requests) = 0 /\ Len(offers) = 0
  BY InitType DEF Init
<1>1. EarlySeen /\ ResultWhenDone
  BY DEF Init, EarlySeen, ResultWhenDone
<1>2. PhasesFollow /\ CleanupFollows /\ OffersFollow
  BY <1>0 DEF Init, PhasesFollow, CleanupFollows, Cleanup, OffersFollow
<1>3. RequestsFollow
  <2>1. Len(StartupPlan) \in Nat
    BY <1>0, PlanType, LenProperties
  <2> QED BY <1>0, <2>1 DEF RequestsFollow
<1>4. PhasesTruthful
  <2>1. SubSeq(Milestones, 1, 0) = <<>>
    BY SubSeqEmpty
  <2>2. AgentTriesAll
    BY <1>0 DEF Init, AgentTriesAll
  <2> QED BY <1>0, <2>1, <2>2 DEF Init, PhasesTruthful
<1>5. CancelledBeforeCall /\ ForwardCleanedUp
  BY DEF Init, CancelledBeforeCall, ForwardCleanedUp
<1> QED BY <1>1, <1>2, <1>3, <1>4, <1>5 DEF OpenerInv

\* Nothing but the flag is looked at by a call that begins cancelled.
LEMMA StepEarlySeen ==
    ASSUME TypeOK, OpenerInv, Next
    PROVE  EarlySeen'
<1> USE OpenerParts DEF callVars, forwardVars, flagVars, waitVars, EarlySeen,
        Cancellable, OtherBranch, ResultWhenDone, Establishing, Cleanup
<1>1. CASE Call
  <2>1. phases = <<>>
    BY <1>1, OpenerTypes, EmptySeq DEF Call, PhasesFollow
  <2> QED BY <1>1, <2>1 DEF Call
<1>2. CASE CancelStore
  BY <1>2 DEF CancelStore
<1>3. CASE CancelNotify
  BY <1>3 DEF CancelNotify
<1>4. CASE LookAtFlag("check", "create")
  BY <1>4 DEF LookAtFlag, SeeCancelled
<1>5. CASE LookAtFlag("recheck", "await")
  BY <1>5 DEF LookAtFlag, SeeCancelled
<1>6. CASE CreateNotified
  BY <1>6 DEF CreateNotified
<1>7. CASE Notified
  BY <1>7 DEF Notified
<1>8. CASE Connect
  BY <1>8 DEF Connect, Report, Goto
<1>9. CASE Connected
  BY <1>9 DEF Connected, Report, Return, BeginAuthentication, Goto
<1>10. CASE Prompted
  BY <1>10 DEF Prompted, Goto, Return
<1>11. CASE Authenticated
  BY <1>11 DEF Authenticated, BeginOpening, Goto, Report, Return
<1>12. CASE ListIdentities
  BY <1>12 DEF ListIdentities, Goto, Return
<1>13. CASE OfferIdentity
  BY <1>13 DEF OfferIdentity, BeginOpening, Goto, Report, Return
<1>14. CASE Opened
  BY <1>14 DEF Opened, Goto, Return
<1>15. CASE StartRequest
  BY <1>15 DEF StartRequest, Goto, Return
<1>16. CASE Started
  BY <1>16 DEF Started, Report, Return
<1>17. CASE Deadline
  BY <1>17 DEF Deadline, Return
<1>18. CASE Ready
  BY <1>18 DEF Ready
<1>19. CASE CopyEnds
  BY <1>19 DEF CopyEnds
<1>20. CASE CleanupStep
  BY <1>20 DEF CleanupStep, Goto, Return
<1>21. CASE ShutdownDeadline
  BY <1>21 DEF ShutdownDeadline, Return
<1> QED BY <1>1, <1>2, <1>3, <1>4, <1>5, <1>6, <1>7, <1>8, <1>9, <1>10, <1>11,
   <1>12, <1>13, <1>14, <1>15, <1>16, <1>17, <1>18, <1>19, <1>20, <1>21
   DEF Next, WaiterStep, Answer

\* A result is set exactly by the step that ends the call.
LEMMA StepResultWhenDone ==
    ASSUME TypeOK, OpenerInv, Next
    PROVE  ResultWhenDone'
<1> USE OpenerParts DEF callVars, forwardVars, flagVars, waitVars, ResultWhenDone,
        Establishing, Cleanup
<1>1. CASE LookAtFlag("check", "create")
  BY <1>1 DEF LookAtFlag, SeeCancelled
<1>2. CASE LookAtFlag("recheck", "await")
  BY <1>2 DEF LookAtFlag, SeeCancelled
<1>3. CASE Call
  BY <1>3 DEF Call
<1>4. CASE Connect
  BY <1>4 DEF Connect, Report, Goto
<1>5. CASE Connected
  BY <1>5 DEF Connected, Report, Return, BeginAuthentication, Goto
<1>6. CASE Prompted
  BY <1>6 DEF Prompted, Goto, Return
<1>7. CASE Authenticated
  BY <1>7 DEF Authenticated, BeginOpening, Goto, Report, Return
<1>8. CASE ListIdentities
  BY <1>8 DEF ListIdentities, Goto, Return
<1>9. CASE OfferIdentity
  BY <1>9 DEF OfferIdentity, BeginOpening, Goto, Report, Return
<1>10. CASE Opened
  BY <1>10 DEF Opened, Goto, Return
<1>11. CASE StartRequest
  BY <1>11 DEF StartRequest, Goto, Return
<1>12. CASE Started
  BY <1>12 DEF Started, Report, Return
<1>13. CASE Deadline
  BY <1>13 DEF Deadline, Return
<1>14. CASE Ready
  BY <1>14 DEF Ready
<1>15. CASE CopyEnds
  BY <1>15 DEF CopyEnds
<1>16. CASE CleanupStep
  <2>1. CASE pc = "join"
    <3>1. PICK r \in {"ok", "error"} :
             /\ cleanup' = Append(cleanup, r) /\ pc' = "done"
             /\ result' = And(<<primary>> \o Append(cleanup, r))
      BY <1>16, <2>1 DEF CleanupStep, Return
    <3> QED BY <1>16, <2>1, <3>1, CleanupAnswer
  <2>2. CASE pc # "join"
    BY <1>16, <2>2 DEF CleanupStep, Goto
  <2> QED BY <2>1, <2>2
<1>17. CASE ShutdownDeadline
  BY <1>17, AndOfTimeout, TransferTypes DEF ShutdownDeadline, Return, CleanupFollows
<1>18. CASE UNCHANGED <<pc, result>>
  BY <1>18
<1> QED BY <1>1, <1>2, <1>3, <1>4, <1>5, <1>6, <1>7, <1>8, <1>9, <1>10, <1>11,
   <1>12, <1>13, <1>14, <1>15, <1>16, <1>17, <1>18
   DEF Next, WaiterStep, Answer, CancelStore, CancelNotify, CreateNotified,
   Notified

\* Each point of the call has its number of milestones.
LEMMA StepPhasesFollow ==
    ASSUME TypeOK, OpenerInv, Next
    PROVE  PhasesFollow'
<1> USE OpenerParts DEF callVars, forwardVars, flagVars, waitVars, PhasesFollow,
        Establishing, Cleanup
<1>1. CASE LookAtFlag("check", "create")
  BY <1>1 DEF LookAtFlag, SeeCancelled
<1>2. CASE LookAtFlag("recheck", "await")
  BY <1>2 DEF LookAtFlag, SeeCancelled
<1>3. CASE Call
  BY <1>3 DEF Call
<1>4. CASE Connect
  BY <1>4, OpenerTypes, ReportType DEF Connect, Report, Goto
<1>5. CASE Connected
  <2>1. Len(phases) = 1
    BY <1>5 DEF Connected
  <2>2. Len(Append(phases, "Authenticating")) = 2
    <3>1. Len(Append(phases, "Authenticating")) = Len(phases) + 1
      BY ReportType
    <3> QED BY <2>1, <3>1
  <2>3. UNCHANGED call
    BY <1>5 DEF Connected
  <2>4. \/ UNCHANGED phases /\ pc' = "done"
        \/ /\ phases' = Append(phases, "Authenticating")
           /\ pc' \in {"authenticating", "agent", "prompt", "done"}
    BY <1>5 DEF Connected, Report, Return, BeginAuthentication, Goto
  <2>5. \/ Len(phases') = 1 /\ pc' = "done"
        \/ Len(phases') = 2 /\ pc' \in {"authenticating", "agent", "prompt", "done"}
    BY <2>1, <2>2, <2>4
  <2> QED BY <2>3, <2>5
<1>6. CASE Prompted
  BY <1>6 DEF Prompted, Goto, Return
<1>7. CASE Authenticated
  <2>1. Len(phases) = 2
    BY <1>7 DEF Authenticated
  <2>2. Len(Append(phases, "Opening")) = 3
    <3>1. Len(Append(phases, "Opening")) = Len(phases) + 1
      BY ReportType
    <3> QED BY <2>1, <3>1
  <2>3. UNCHANGED call
    BY <1>7 DEF Authenticated
  <2>4. \/ UNCHANGED phases /\ pc' \in {"done", "offering"}
        \/ UNCHANGED phases /\ pc' = "opening" /\ call.kind # "session"
        \/ /\ phases' = Append(phases, "Opening")
           /\ pc' = "opening" /\ call.kind = "session"
    BY <1>7 DEF Authenticated, BeginOpening, Goto, Report, Return
  <2>5. \/ Len(phases') = 2 /\ pc' \in {"done", "offering"}
        \/ Len(phases') = 2 /\ pc' = "opening" /\ call.kind # "session"
        \/ Len(phases') = 3 /\ pc' = "opening" /\ call.kind = "session"
    BY <2>1, <2>2, <2>4
  <2> QED BY <2>3, <2>5
<1>8. CASE ListIdentities
  BY <1>8 DEF ListIdentities, Goto, Return
<1>9. CASE OfferIdentity
  <2>1. Len(phases) = 2
    BY <1>9 DEF OfferIdentity
  <2>2. Len(Append(phases, "Opening")) = 3
    <3>1. Len(Append(phases, "Opening")) = Len(phases) + 1
      BY ReportType
    <3> QED BY <2>1, <3>1
  <2>3. UNCHANGED call
    BY <1>9 DEF OfferIdentity
  <2>4. \/ UNCHANGED phases /\ pc' \in {"done", "offering"}
        \/ UNCHANGED phases /\ pc' = "opening" /\ call.kind # "session"
        \/ /\ phases' = Append(phases, "Opening")
           /\ pc' = "opening" /\ call.kind = "session"
    BY <1>9 DEF OfferIdentity, BeginOpening, Goto, Report, Return
  <2>5. \/ Len(phases') = 2 /\ pc' \in {"done", "offering"}
        \/ Len(phases') = 2 /\ pc' = "opening" /\ call.kind # "session"
        \/ Len(phases') = 3 /\ pc' = "opening" /\ call.kind = "session"
    BY <2>1, <2>2, <2>4
  <2> QED BY <2>3, <2>5
<1>10. CASE Opened
  BY <1>10 DEF Opened, Goto, Return
<1>11. CASE StartRequest
  BY <1>11 DEF StartRequest, Goto, Return
<1>12. CASE Started
  <2>1. Len(phases) = 3
    BY <1>12 DEF Started
  <2>2. Len(Append(phases, "Connected")) = 4
    <3>1. Len(Append(phases, "Connected")) = Len(phases) + 1
      BY ReportType
    <3> QED BY <2>1, <3>1
  <2>3. UNCHANGED call
    BY <1>12 DEF Started
  <2>4. phases' = Append(phases, "Connected") /\ pc' = "done"
    BY <1>12 DEF Started, Report, Return
  <2>5. Len(phases') = 4 /\ pc' = "done"
    BY <2>1, <2>2, <2>4
  <2> QED BY <2>3, <2>5
<1>13. CASE Deadline
  BY <1>13 DEF Deadline, Return
<1>14. CASE Ready
  BY <1>14 DEF Ready
<1>15. CASE CopyEnds
  BY <1>15 DEF CopyEnds
<1>16. CASE CleanupStep
  BY <1>16 DEF CleanupStep, Goto, Return
<1>17. CASE ShutdownDeadline
  BY <1>17 DEF ShutdownDeadline, Return
<1>18. CASE UNCHANGED <<pc, phases, call>>
  BY <1>18
<1> QED BY <1>1, <1>2, <1>3, <1>4, <1>5, <1>6, <1>7, <1>8, <1>9, <1>10, <1>11,
   <1>12, <1>13, <1>14, <1>15, <1>16, <1>17, <1>18
   DEF Next, WaiterStep, Answer, CancelStore, CancelNotify, CreateNotified,
   Notified

\* Each request sent is the next one of the plan.
LEMMA StepRequestsFollow ==
    ASSUME TypeOK, OpenerInv, Next
    PROVE  RequestsFollow'
<1> USE OpenerParts DEF callVars, forwardVars, flagVars, waitVars, RequestsFollow,
        StartupPlan
<1>1. CASE StartRequest
  <2>1. UNCHANGED StartupPlan
    BY <1>1 DEF StartRequest
  <2>2. requests \in Seq(Requests) /\ Len(requests) \in Nat /\ Len(StartupPlan) \in Nat
    BY OpenerTypes, PlanType, LenProperties
  <2> HIDE DEF StartupPlan
  <2>3. CASE UNCHANGED requests
    BY <2>1, <2>3
  <2>4. CASE requests' = Append(requests, StartupPlan[Len(requests) + 1])
    BY <1>1, <2>1, <2>2, <2>4, RequestType DEF StartRequest
  <2> QED BY <1>1, <2>3, <2>4 DEF StartRequest
<1>2. CASE UNCHANGED <<requests, call>>
  BY <1>2
<1> QED BY <1>1, <1>2
   DEF Next, WaiterStep, Answer, Call, CancelStore, CancelNotify, LookAtFlag,
   CreateNotified, Notified, Connect, Connected, Prompted, Authenticated,
   ListIdentities, OfferIdentity, Opened, Started, Deadline, Ready, CopyEnds,
   CleanupStep, ShutdownDeadline, SeeCancelled, Report, Goto, Return,
   BeginAuthentication, BeginOpening

\* Offers are made one by one, until one is accepted.
LEMMA StepOffersFollow ==
    ASSUME TypeOK, OpenerInv, Next
    PROVE  OffersFollow'
<1> USE OpenerParts DEF callVars, forwardVars, flagVars, waitVars, OffersFollow,
        Establishing, Cleanup
<1>1. CASE LookAtFlag("check", "create")
  BY <1>1 DEF LookAtFlag, SeeCancelled
<1>2. CASE LookAtFlag("recheck", "await")
  BY <1>2 DEF LookAtFlag, SeeCancelled
<1>3. CASE Call
  BY <1>3 DEF Call
<1>4. CASE Connect
  BY <1>4 DEF Connect, Report, Goto
<1>5. CASE Connected
  BY <1>5 DEF Connected, Report, Return, BeginAuthentication, Goto
<1>6. CASE Prompted
  BY <1>6 DEF Prompted, Goto, Return
<1>7. CASE Authenticated
  BY <1>7 DEF Authenticated, BeginOpening, Goto, Report, Return
<1>8. CASE ListIdentities
  BY <1>8 DEF ListIdentities, Goto, Return
<1>9. CASE OfferIdentity
  <2>1. TRUE \in BOOLEAN /\ FALSE \in BOOLEAN
    OBVIOUS
  <2>2. CASE offers' = Append(offers, TRUE) /\ pc' = "opening" /\ result' = result
    BY <1>9, <2>1, <2>2, OfferSteps DEF OfferIdentity
  <2>3. CASE offers' = Append(offers, FALSE)
    <3>1. /\ Len(offers) \in Nat /\ Len(offers') = Len(offers) + 1
          /\ \A i \in 1..Len(offers) : offers'[i] = offers[i]
          /\ offers'[Len(offers) + 1] = FALSE
      BY <2>1, <2>3, OfferSteps
    <3>2. identities \in Nat /\ identities' = identities /\ call' = call
      BY <1>9, OpenerTypes, IdentitiesAssumption DEF OfferIdentity
    <3>3. CASE call.auth = "agent"
      <4>1. \A i \in 1..Len(offers') : ~offers'[i]
        BY <1>9, <3>1, <3>3 DEF OfferIdentity
      <4>2. Append(offers, TRUE) # Append(offers, FALSE) /\ offers # Append(offers, FALSE)
        <5>1. /\ Append(offers, TRUE)[Len(offers) + 1] = TRUE
              /\ Append(offers, FALSE)[Len(offers) + 1] = FALSE
              /\ Len(Append(offers, FALSE)) = Len(offers) + 1
          BY <2>1, OfferSteps, Zenon
        <5>2. Append(offers, TRUE) # Append(offers, FALSE)
          BY <5>1, Zenon
        <5>3. offers # Append(offers, FALSE)
          <6>1. Len(offers) # Len(offers) + 1
            BY <3>1, OfferTypes
          <6> QED BY <5>1, <6>1, Zenon
        <5> QED BY <5>2, <5>3
      <4>3. IF Len(offers) + 1 < identities THEN Goto("offering") ELSE Return("auth_failed")
        BY <1>9, <2>3, <4>2 DEF OfferIdentity
      <4>4. \/ pc' = "offering" /\ Len(offers') < identities /\ result' = result
            \/ pc' = "done" /\ ~(Len(offers') < identities) /\ result' = "auth_failed"
        BY <3>1, <4>3 DEF Goto, Return
      <4>5. Len(offers) < identities /\ result = "none"
        BY <1>9, <3>3 DEF OfferIdentity, ResultWhenDone
      <4> QED BY <3>1, <3>2, <4>1, <4>4, <4>5
    <3> QED BY <3>2, <3>3
  <2>4. CASE offers' = offers /\ pc' = "done" /\ result' = "error"
    BY <1>9, <2>4 DEF OfferIdentity
  <2> QED BY <1>9, <2>2, <2>3, <2>4 DEF OfferIdentity, BeginOpening, Goto, Return
<1>10. CASE Opened
  BY <1>10 DEF Opened, Goto, Return
<1>11. CASE StartRequest
  BY <1>11 DEF StartRequest, Goto, Return
<1>12. CASE Started
  BY <1>12 DEF Started, Report, Return
<1>13. CASE Deadline
  BY <1>13 DEF Deadline, Return
<1>14. CASE Ready
  BY <1>14 DEF Ready
<1>15. CASE CopyEnds
  BY <1>15 DEF CopyEnds
<1>16. CASE CleanupStep
  BY <1>16 DEF CleanupStep, Goto, Return
<1>17. CASE ShutdownDeadline
  BY <1>17 DEF ShutdownDeadline, Return
<1>18. CASE UNCHANGED <<pc, offers, identities, call>>
  BY <1>18
<1> QED BY <1>1, <1>2, <1>3, <1>4, <1>5, <1>6, <1>7, <1>8, <1>9, <1>10, <1>11,
   <1>12, <1>13, <1>14, <1>15, <1>16, <1>17, <1>18
   DEF Next, WaiterStep, Answer, CancelStore, CancelNotify, CreateNotified,
   Notified

\* Cleanup begins with the end of the transfer and takes its steps in turn.
LEMMA StepCleanupFollows ==
    ASSUME TypeOK, OpenerInv, Next
    PROVE  CleanupFollows'
<1> USE OpenerParts DEF callVars, forwardVars, flagVars, waitVars, CleanupFollows,
        Establishing, Cleanup
<1>1. CASE LookAtFlag("check", "create")
  BY <1>1 DEF LookAtFlag, SeeCancelled
<1>2. CASE LookAtFlag("recheck", "await")
  BY <1>2 DEF LookAtFlag, SeeCancelled
<1>3. CASE Call
  BY <1>3 DEF Call
<1>4. CASE Connect
  BY <1>4 DEF Connect, Report, Goto
<1>5. CASE Connected
  BY <1>5 DEF Connected, Report, Return, BeginAuthentication, Goto
<1>6. CASE Prompted
  BY <1>6 DEF Prompted, Goto, Return
<1>7. CASE Authenticated
  BY <1>7 DEF Authenticated, BeginOpening, Goto, Report, Return
<1>8. CASE ListIdentities
  BY <1>8 DEF ListIdentities, Goto, Return
<1>9. CASE OfferIdentity
  BY <1>9 DEF OfferIdentity, BeginOpening, Goto, Report, Return
<1>10. CASE Opened
  BY <1>10 DEF Opened, Goto, Return
<1>11. CASE StartRequest
  BY <1>11 DEF StartRequest, Goto, Return
<1>12. CASE Started
  BY <1>12 DEF Started, Report, Return
<1>13. CASE Deadline
  BY <1>13 DEF Deadline, Return
<1>14. CASE Ready
  BY <1>14 DEF Ready
<1>15. CASE CopyEnds
  BY <1>15 DEF CopyEnds
<1>16. CASE CleanupStep
  BY <1>16, CleanupSteps DEF CleanupStep, Goto, Return
<1>17. CASE ShutdownDeadline
  BY <1>17 DEF ShutdownDeadline, Return
<1>18. CASE UNCHANGED <<pc, primary, cleanup>>
  BY <1>18
<1> QED BY <1>1, <1>2, <1>3, <1>4, <1>5, <1>6, <1>7, <1>8, <1>9, <1>10, <1>11,
   <1>12, <1>13, <1>14, <1>15, <1>16, <1>17, <1>18
   DEF Next, WaiterStep, Answer, CancelStore, CancelNotify, CreateNotified,
   Notified

\* Every identity is offered before the authentication fails.
LEMMA StepAgentTriesAll ==
    ASSUME TypeOK, OpenerInv, Next
    PROVE  AgentTriesAll'
<1> USE OpenerParts DEF callVars, forwardVars, flagVars, waitVars, AgentTriesAll,
        OffersFollow, PhasesTruthful, ResultWhenDone, Establishing, Cleanup
<1>1. CASE LookAtFlag("check", "create")
  BY <1>1 DEF LookAtFlag, SeeCancelled
<1>2. CASE LookAtFlag("recheck", "await")
  BY <1>2 DEF LookAtFlag, SeeCancelled
<1>3. CASE Call
  BY <1>3 DEF Call
<1>4. CASE Connect
  BY <1>4 DEF Connect, Report, Goto
<1>5. CASE Connected
  BY <1>5 DEF Connected, Report, Return, BeginAuthentication, Goto
<1>6. CASE Prompted
  BY <1>6 DEF Prompted, Goto, Return
<1>7. CASE Authenticated
  BY <1>7 DEF Authenticated, BeginOpening, Goto, Report, Return
<1>8. CASE ListIdentities
  BY <1>8 DEF ListIdentities, Goto, Return
<1>9. CASE OfferIdentity
  <2>1. TRUE \in BOOLEAN /\ FALSE \in BOOLEAN
    OBVIOUS
  <2>2. CASE offers' = Append(offers, TRUE) /\ pc' = "opening" /\ result' = result
    BY <1>9, <2>1, <2>2, OfferSteps DEF OfferIdentity
  <2>3. CASE offers' = Append(offers, FALSE)
    <3>1. /\ Len(offers) \in Nat /\ Len(offers') = Len(offers) + 1
          /\ \A i \in 1..Len(offers) : offers'[i] = offers[i]
          /\ offers'[Len(offers) + 1] = FALSE
      BY <2>1, <2>3, OfferSteps
    <3>2. identities \in Nat /\ identities' = identities /\ call' = call
      BY <1>9, OpenerTypes, IdentitiesAssumption DEF OfferIdentity
    <3>3. CASE call.auth = "agent"
      <4>1. \A i \in 1..Len(offers') : ~offers'[i]
        BY <1>9, <3>1, <3>3 DEF OfferIdentity
      <4>2. Append(offers, TRUE) # Append(offers, FALSE) /\ offers # Append(offers, FALSE)
        <5>1. /\ Append(offers, TRUE)[Len(offers) + 1] = TRUE
              /\ Append(offers, FALSE)[Len(offers) + 1] = FALSE
              /\ Len(Append(offers, FALSE)) = Len(offers) + 1
          BY <2>1, OfferSteps, Zenon
        <5>2. Append(offers, TRUE) # Append(offers, FALSE)
          BY <5>1, Zenon
        <5>3. offers # Append(offers, FALSE)
          <6>1. Len(offers) # Len(offers) + 1
            BY <3>1, OfferTypes
          <6> QED BY <5>1, <6>1, Zenon
        <5> QED BY <5>2, <5>3
      <4>3. IF Len(offers) + 1 < identities THEN Goto("offering") ELSE Return("auth_failed")
        BY <1>9, <2>3, <4>2 DEF OfferIdentity
      <4>4. \/ pc' = "offering" /\ Len(offers') < identities /\ result' = result
            \/ pc' = "done" /\ ~(Len(offers') < identities) /\ result' = "auth_failed"
        BY <3>1, <4>3 DEF Goto, Return
      <4>5. Len(offers) < identities /\ result = "none"
        BY <1>9, <3>3 DEF OfferIdentity, ResultWhenDone
      <4> QED BY <3>1, <3>2, <4>1, <4>4, <4>5
    <3> QED BY <3>2, <3>3
  <2>4. CASE offers' = offers /\ pc' = "done" /\ result' = "error"
    BY <1>9, <2>4 DEF OfferIdentity
  <2> QED BY <1>9, <2>2, <2>3, <2>4 DEF OfferIdentity, BeginOpening, Goto, Return
<1>10. CASE Opened
  BY <1>10 DEF Opened, Goto, Return
<1>11. CASE StartRequest
  BY <1>11 DEF StartRequest, Goto, Return
<1>12. CASE Started
  BY <1>12 DEF Started, Report, Return
<1>13. CASE Deadline
  BY <1>13 DEF Deadline, Return
<1>14. CASE Ready
  BY <1>14 DEF Ready
<1>15. CASE CopyEnds
  BY <1>15 DEF CopyEnds
<1>16. CASE CleanupStep
  <2>1. CASE pc = "join"
    <3>1. PICK r \in {"ok", "error"} :
             /\ cleanup' = Append(cleanup, r) /\ pc' = "done"
             /\ result' = And(<<primary>> \o Append(cleanup, r))
      BY <1>16, <2>1 DEF CleanupStep, Return
    <3>2. UNCHANGED <<offers, identities, call>>
      BY <1>16 DEF CleanupStep
    <3>3. result' \in {"ok", "error", "timeout"}
      BY <1>16, <2>1, <3>1, CleanupAnswer
    <3> QED BY <2>1, <3>2, <3>3
  <2>2. CASE pc # "join"
    BY <1>16, <2>2 DEF CleanupStep, Goto
  <2> QED BY <2>1, <2>2
<1>17. CASE ShutdownDeadline
  BY <1>17, AndOfTimeout, TransferTypes DEF ShutdownDeadline, Return, CleanupFollows
<1>18. CASE UNCHANGED <<offers, identities, call, result>>
  BY <1>18
<1> QED BY <1>1, <1>2, <1>3, <1>4, <1>5, <1>6, <1>7, <1>8, <1>9, <1>10, <1>11,
   <1>12, <1>13, <1>14, <1>15, <1>16, <1>17, <1>18
   DEF Next, WaiterStep, Answer, CancelStore, CancelNotify, CreateNotified,
   Notified

\* What PhasesTruthful says of the milestones and the requests.
Reported ==
    /\ phases = SubSeq(Milestones, 1, Len(phases))
    /\ Len(phases) = 4 <=> result = "ok" /\ call.kind = "session"
    /\ Len(phases) = 4 => requests = StartupPlan

LEMMA ReportedParts == PhasesTruthful <=> Reported /\ AgentTriesAll
BY DEF PhasesTruthful, Reported

\* A step before the last milestone that reports nothing and does not return a
\* session keeps the reports truthful; so does one that reports the next one.
LEMMA NothingReported ==
    ASSUME Reported, UNCHANGED <<phases, call>>, Len(phases) # 4,
           ~(result' = "ok" /\ call.kind = "session")
    PROVE  Reported'
BY DEF Reported

LEMMA NextReported ==
    ASSUME TypeOK, Reported, UNCHANGED call, NEW n \in 0..2, Len(phases) = n,
           phases' = Append(phases, Milestones[n + 1]),
           ~(result' = "ok" /\ call.kind = "session")
    PROVE  Reported'
<1>1. /\ Append(phases, Milestones[n + 1]) = SubSeq(Milestones, 1, Len(phases) + 1)
      /\ Len(Append(phases, Milestones[n + 1])) = Len(phases) + 1
  BY NextMilestone DEF Reported
<1>2. Len(phases') = n + 1 /\ phases' = SubSeq(Milestones, 1, n + 1)
  BY <1>1
<1>3. Len(phases') # 4
  BY <1>2
<1> QED BY <1>2, <1>3 DEF Reported

\* Milestones come in order, the last one with the result of open_channel.
LEMMA StepReported ==
    ASSUME TypeOK, OpenerInv, Next
    PROVE  Reported'
<1> USE OpenerParts DEF callVars, forwardVars, flagVars, waitVars, PhasesFollow,
        ResultWhenDone, Establishing, Cleanup
<1>1. CASE LookAtFlag("check", "create")
  <2>1. CASE UNCHANGED <<phases, call, result, requests>>
    BY <2>1, ReportedParts DEF Reported, StartupPlan
  <2>2. CASE flag /\ SeeCancelled
    <3>1. UNCHANGED <<phases, call>> /\ Len(phases) # 4
      BY <2>2 DEF SeeCancelled
    <3>2. ~(result' = "ok")
      BY <2>2 DEF SeeCancelled
    <3> QED BY <3>1, <3>2, NothingReported, ReportedParts
  <2> QED BY <1>1, <2>1, <2>2 DEF LookAtFlag
<1>2. CASE LookAtFlag("recheck", "await")
  <2>1. CASE UNCHANGED <<phases, call, result, requests>>
    BY <2>1, ReportedParts DEF Reported, StartupPlan
  <2>2. CASE flag /\ SeeCancelled
    <3>1. UNCHANGED <<phases, call>> /\ Len(phases) # 4
      BY <2>2 DEF SeeCancelled
    <3>2. ~(result' = "ok")
      BY <2>2 DEF SeeCancelled
    <3> QED BY <3>1, <3>2, NothingReported, ReportedParts
  <2> QED BY <1>2, <2>1, <2>2 DEF LookAtFlag
<1>3. CASE Call
  <2>1. Len(phases) # 4
    BY <1>3 DEF Call
  <2>2. UNCHANGED <<phases, call>> /\ ~(result' = "ok" /\ call.kind = "session")
    BY <1>3 DEF Call
  <2> QED BY <2>1, <2>2, NothingReported, ReportedParts
<1>4. CASE Connect
  <2>1. Len(phases) = 0 /\ Len(phases) # 4 /\ 0 \in 0..2
    BY <1>4 DEF Connect
  <2>2. UNCHANGED call /\ ~(result' = "ok" /\ call.kind = "session")
    BY <1>4 DEF Connect, Report, Goto
  <2>3. CASE UNCHANGED phases
    BY <2>1, <2>2, <2>3, NothingReported, ReportedParts
  <2>4. CASE phases' = Append(phases, "Connecting")
    <3>1. phases' = Append(phases, Milestones[0 + 1])
      BY <2>4, MilestoneNames
    <3> QED BY <2>1, <2>2, <3>1, NextReported, ReportedParts
  <2> QED BY <1>4, <2>3, <2>4 DEF Connect, Report, Goto
<1>5. CASE Connected
  <2>1. Len(phases) = 1 /\ Len(phases) # 4 /\ 1 \in 0..2
    BY <1>5 DEF Connected
  <2>2. UNCHANGED call /\ ~(result' = "ok" /\ call.kind = "session")
    BY <1>5 DEF Connected, Report, Return, BeginAuthentication, Goto
  <2>3. CASE UNCHANGED phases
    BY <2>1, <2>2, <2>3, NothingReported, ReportedParts
  <2>4. CASE phases' = Append(phases, "Authenticating")
    <3>1. phases' = Append(phases, Milestones[1 + 1])
      BY <2>4, MilestoneNames
    <3> QED BY <2>1, <2>2, <3>1, NextReported, ReportedParts
  <2> QED BY <1>5, <2>3, <2>4
  DEF Connected, Report, Return, BeginAuthentication, Goto
<1>6. CASE Prompted
  <2>1. Len(phases) # 4
    BY <1>6 DEF Prompted
  <2>2. UNCHANGED <<phases, call>> /\ ~(result' = "ok" /\ call.kind = "session")
    BY <1>6 DEF Prompted, Goto, Return
  <2> QED BY <2>1, <2>2, NothingReported, ReportedParts
<1>7. CASE Authenticated
  <2>1. Len(phases) = 2 /\ Len(phases) # 4 /\ 2 \in 0..2
    BY <1>7 DEF Authenticated
  <2>2. UNCHANGED call /\ ~(result' = "ok" /\ call.kind = "session")
    BY <1>7 DEF Authenticated, BeginOpening, Goto, Report, Return
  <2>3. CASE UNCHANGED phases
    BY <2>1, <2>2, <2>3, NothingReported, ReportedParts
  <2>4. CASE phases' = Append(phases, "Opening")
    <3>1. phases' = Append(phases, Milestones[2 + 1])
      BY <2>4, MilestoneNames
    <3> QED BY <2>1, <2>2, <3>1, NextReported, ReportedParts
  <2> QED BY <1>7, <2>3, <2>4 DEF Authenticated, BeginOpening, Goto, Report, Return
<1>8. CASE ListIdentities
  <2>1. Len(phases) # 4
    BY <1>8 DEF ListIdentities
  <2>2. UNCHANGED <<phases, call>> /\ ~(result' = "ok" /\ call.kind = "session")
    BY <1>8 DEF ListIdentities, Goto, Return
  <2> QED BY <2>1, <2>2, NothingReported, ReportedParts
<1>9. CASE OfferIdentity
  <2>1. Len(phases) = 2 /\ Len(phases) # 4 /\ 2 \in 0..2
    BY <1>9 DEF OfferIdentity
  <2>2. UNCHANGED call /\ ~(result' = "ok" /\ call.kind = "session")
    BY <1>9 DEF OfferIdentity, BeginOpening, Goto, Report, Return
  <2>3. CASE UNCHANGED phases
    BY <2>1, <2>2, <2>3, NothingReported, ReportedParts
  <2>4. CASE phases' = Append(phases, "Opening")
    <3>1. phases' = Append(phases, Milestones[2 + 1])
      BY <2>4, MilestoneNames
    <3> QED BY <2>1, <2>2, <3>1, NextReported, ReportedParts
  <2> QED BY <1>9, <2>3, <2>4 DEF OfferIdentity, BeginOpening, Goto, Report, Return
<1>10. CASE Opened
  <2>1. Len(phases) # 4
    BY <1>10 DEF Opened
  <2>2. UNCHANGED <<phases, call>> /\ ~(result' = "ok" /\ call.kind = "session")
    BY <1>10 DEF Opened, Goto, Return
  <2> QED BY <2>1, <2>2, NothingReported, ReportedParts
<1>11. CASE StartRequest
  <2>1. Len(phases) = 3
    BY <1>11 DEF StartRequest
  <2>2. UNCHANGED <<phases, call>> /\ ~(result' = "ok" /\ call.kind = "session")
    BY <1>11 DEF StartRequest, Goto, Return
  <2> QED BY <2>1, <2>2, NothingReported, ReportedParts
<1>12. CASE Started
  <2>1. Len(phases) = 3 /\ call.kind = "session" /\ UNCHANGED <<call, requests>>
    BY <1>12 DEF Started
  <2>2. phases' = Append(phases, Milestones[3 + 1]) /\ result' = "ok"
    BY <1>12, MilestoneNames DEF Started, Report, Return
  <2>3. Reported
    BY ReportedParts
  <2>4. /\ Append(phases, Milestones[4]) = SubSeq(Milestones, 1, Len(phases) + 1)
        /\ Len(Append(phases, Milestones[4])) = Len(phases) + 1
    BY <2>1, <2>3, NextMilestone DEF Reported
  <2>5. Len(phases') = 4 /\ phases' = SubSeq(Milestones, 1, 4)
    BY <2>1, <2>2, <2>4
  <2>6. requests = StartupPlan
    <3>1. requests \in Seq(Requests) /\ StartupPlan \in Seq(Requests)
      BY OpenerTypes, PlanType
    <3>2. Len(requests) = Len(StartupPlan)
      BY <1>12 DEF Started
    <3>3. \A i \in 1..Len(requests) : requests[i] = StartupPlan[i]
      BY DEF RequestsFollow
    <3> QED BY <3>1, <3>2, <3>3, SeqEqual
  <2>7. requests' = StartupPlan'
    BY <2>1, <2>6 DEF StartupPlan
  <2> QED BY <2>1, <2>2, <2>5, <2>7 DEF Reported
<1>13. CASE Deadline
  <2>1. Len(phases) \in 0..3
    BY <1>13 DEF Deadline
  <2>2. UNCHANGED <<phases, call>> /\ ~(result' = "ok" /\ call.kind = "session")
    BY <1>13 DEF Deadline, Return
  <2> QED BY <2>1, <2>2, NothingReported, ReportedParts
<1>14. CASE Ready
  <2>1. Len(phases) # 4
    BY <1>14 DEF Ready
  <2>2. UNCHANGED <<phases, call>> /\ ~(result' = "ok" /\ call.kind = "session")
    BY <1>14 DEF Ready
  <2> QED BY <2>1, <2>2, NothingReported, ReportedParts
<1>15. CASE CopyEnds
  <2>1. Len(phases) # 4
    BY <1>15 DEF CopyEnds
  <2>2. UNCHANGED <<phases, call>> /\ ~(result' = "ok" /\ call.kind = "session")
    BY <1>15 DEF CopyEnds
  <2> QED BY <2>1, <2>2, NothingReported, ReportedParts
<1>16. CASE CleanupStep
  <2>1. Len(phases) = 2 /\ call.kind = "forward" /\ UNCHANGED <<phases, call>>
    BY <1>16 DEF CleanupStep
  <2> QED BY <2>1, NothingReported, ReportedParts
<1>17. CASE ShutdownDeadline
  <2>1. Len(phases) = 2 /\ call.kind = "forward" /\ UNCHANGED <<phases, call>>
    BY <1>17 DEF ShutdownDeadline
  <2> QED BY <2>1, NothingReported, ReportedParts
<1>18. CASE UNCHANGED <<phases, call, result, requests>>
  BY <1>18, ReportedParts DEF Reported, StartupPlan
<1> QED BY <1>1, <1>2, <1>3, <1>4, <1>5, <1>6, <1>7, <1>8, <1>9, <1>10, <1>11,
   <1>12, <1>13, <1>14, <1>15, <1>16, <1>17, <1>18
   DEF Next, WaiterStep, Answer, CancelStore, CancelNotify, CreateNotified,
   Notified

\* A forward ends only through its cleanup, with the first error as its result.
LEMMA StepForwardCleanedUp ==
    ASSUME TypeOK, OpenerInv, Next
    PROVE  ForwardCleanedUp'
<1> USE OpenerParts DEF callVars, forwardVars, flagVars, waitVars, ForwardCleanedUp,
        CleanupFollows, Establishing, Cleanup
<1>1. CASE LookAtFlag("check", "create")
  BY <1>1 DEF LookAtFlag, SeeCancelled
<1>2. CASE LookAtFlag("recheck", "await")
  BY <1>2 DEF LookAtFlag, SeeCancelled
<1>3. CASE Call
  BY <1>3 DEF Call
<1>4. CASE Connect
  BY <1>4 DEF Connect, Report, Goto
<1>5. CASE Connected
  BY <1>5 DEF Connected, Report, Return, BeginAuthentication, Goto
<1>6. CASE Prompted
  BY <1>6 DEF Prompted, Goto, Return
<1>7. CASE Authenticated
  BY <1>7 DEF Authenticated, BeginOpening, Goto, Report, Return
<1>8. CASE ListIdentities
  BY <1>8 DEF ListIdentities, Goto, Return
<1>9. CASE OfferIdentity
  BY <1>9 DEF OfferIdentity, BeginOpening, Goto, Report, Return
<1>10. CASE Opened
  BY <1>10 DEF Opened, Goto, Return
<1>11. CASE StartRequest
  BY <1>11 DEF StartRequest, Goto, Return
<1>12. CASE Started
  BY <1>12 DEF Started, Report, Return
<1>13. CASE Deadline
  BY <1>13 DEF Deadline, Return
<1>14. CASE Ready
  BY <1>14 DEF Ready
<1>15. CASE CopyEnds
  BY <1>15 DEF CopyEnds
<1>16. CASE CleanupStep
  <2>1. CASE pc = "join"
    <3>1. PICK r \in {"ok", "error"} :
             /\ cleanup' = Append(cleanup, r) /\ primary' = primary
             /\ result' = And(<<primary>> \o Append(cleanup, r))
      BY <1>16, <2>1 DEF CleanupStep, Return
    <3>2. Len(cleanup') = 3
      <4>1. Len(Append(cleanup, r)) = Len(cleanup) + 1 /\ Len(cleanup) = 2
        BY <2>1, CleanupSteps
      <4> QED BY <3>1, <4>1
    <3>3. /\ result' \in {"ok", "error", "timeout"}
          /\ result' = "ok" <=> primary' = "ok" /\ \A i \in 1..3 : cleanup'[i] = "ok"
          /\ primary' # "ok" => result' = primary'
      BY <2>1, <3>1, CleanupAnswer
    <3> QED BY <3>2, <3>3
  <2>2. CASE pc # "join"
    BY <1>16, <2>2 DEF CleanupStep, Goto
  <2> QED BY <2>1, <2>2
<1>17. CASE ShutdownDeadline
  <2>1. primary \in {"ok", "error"}
    BY <1>17, TransferTypes DEF ShutdownDeadline
  <2>2. /\ cleanup' = Append(cleanup, "timeout") /\ primary' = primary
        /\ result' = And(<<primary, "timeout">>)
    BY <1>17 DEF ShutdownDeadline, Return
  <2>3. result' = IF primary = "ok" THEN "timeout" ELSE primary
    BY <2>1, <2>2, AndOfTimeout
  <2>4. /\ cleanup' # <<>> /\ Len(cleanup') \in 1..Len(cleanup')
        /\ cleanup'[Len(cleanup')] = "timeout"
    BY <2>2, CleanupSteps
  <2> QED BY <2>1, <2>2, <2>3, <2>4
<1>18. CASE UNCHANGED <<pc, primary, cleanup, result>>
  BY <1>18
<1> QED BY <1>1, <1>2, <1>3, <1>4, <1>5, <1>6, <1>7, <1>8, <1>9, <1>10, <1>11,
   <1>12, <1>13, <1>14, <1>15, <1>16, <1>17, <1>18
   DEF Next, WaiterStep, Answer, CancelStore, CancelNotify, CreateNotified,
   Notified

\* A stuttering step changes nothing the invariants speak of.
LEMMA StutterOpener ==
    ASSUME TypeOK, OpenerInv, UNCHANGED vars
    PROVE  TypeOK' /\ OpenerInv'
<1> USE DEF vars, callVars, forwardVars, flagVars, waitVars
<1>1. TypeOK'
  BY Zenon DEF TypeOK
<1>2. EarlySeen' /\ ResultWhenDone' /\ PhasesFollow' /\ CleanupFollows'
  BY OpenerParts
  DEF EarlySeen, ResultWhenDone, PhasesFollow, CleanupFollows, Cancellable
<1>3. RequestsFollow' /\ PhasesTruthful'
  BY OpenerParts DEF RequestsFollow, PhasesTruthful, AgentTriesAll, StartupPlan
<1>4. OffersFollow' /\ CancelledBeforeCall' /\ ForwardCleanedUp'
  BY OpenerParts
  DEF OffersFollow, CancelledBeforeCall, ForwardCleanedUp, Cancellable
<1> QED BY <1>1, <1>2, <1>3, <1>4 DEF OpenerInv

\* The types and the invariant hold in every reachable state of a call.
THEOREM OpenerInvariant == Spec => [](TypeOK /\ OpenerInv)
<1>1. Init => TypeOK /\ OpenerInv
  BY InitType, InitOpener
<1>2. TypeOK /\ OpenerInv /\ [Next]_vars => (TypeOK /\ OpenerInv)'
  <2>1. ASSUME TypeOK, OpenerInv, Next PROVE TypeOK' /\ OpenerInv'
    <3>1. TypeOK' /\ EarlySeen' /\ ResultWhenDone' /\ PhasesFollow' /\ RequestsFollow'
      BY <2>1, OpenerParts, StepType, StepEarlySeen, StepResultWhenDone,
         StepPhasesFollow, StepRequestsFollow
    <3>2. OffersFollow' /\ CleanupFollows' /\ ForwardCleanedUp'
      BY <2>1, StepOffersFollow, StepCleanupFollows, StepForwardCleanedUp
    <3>3. PhasesTruthful'
      <4>1. Reported' /\ AgentTriesAll'
        BY <2>1, StepReported, StepAgentTriesAll
      <4> QED BY <4>1 DEF PhasesTruthful, Reported
    <3>4. CancelledBeforeCall'
      BY <3>1 DEF EarlySeen, ResultWhenDone, CancelledBeforeCall
    <3> QED BY <3>1, <3>2, <3>3, <3>4 DEF OpenerInv
  <2> QED BY <2>1, StutterOpener
<1> QED BY <1>1, <1>2, PTL DEF Spec

\* The milestones reported are those that were reached, in their order, and an
\* agent's identities are all tried before the authentication fails.
THEOREM OpenerPhases == Spec => []PhasesTruthful
<1>1. OpenerInv => PhasesTruthful
  BY DEF OpenerInv
<1> QED BY <1>1, OpenerInvariant, PTL

\* A call made with a cancelled handle contacts nobody and says so.
THEOREM OpenerCancelled == Spec => []CancelledBeforeCall
<1>1. OpenerInv => CancelledBeforeCall
  BY DEF OpenerInv
<1> QED BY <1>1, OpenerInvariant, PTL

\* An established forward is cleaned up before it returns, and returns the first
\* error of its transfer and its cleanup.
THEOREM OpenerCleanup == Spec => []ForwardCleanedUp
<1>1. OpenerInv => ForwardCleanedUp
  BY DEF OpenerInv
<1> QED BY <1>1, OpenerInvariant, PTL
=============================================================================
