------------------------------- MODULE Opener -------------------------------
(***************************************************************************)
(* One call of the native opener of rssh-ssh: open_channel,                *)
(* open_direct_tcpip_channel or forward_direct_tcpip_stream_with_ready.    *)
(* Connect, authenticate, open and start run in one task under a deadline; *)
(* open_channel and the forward also race a cancellation, whose cancel()   *)
(* runs on another thread.  A forward then tells its owner that it is      *)
(* ready, copies until EOF or cancellation, and cleans up.                 *)
(*                                                                         *)
(* The server, the secret provider, the agent and the deadline answer when *)
(* they like, or never.  Host-key verification is the module HostKey; here *)
(* it is one of the reasons why connecting may fail.                       *)
(***************************************************************************)
EXTENDS Naturals, Sequences

CONSTANT MaxIdentities      \* bound: identities the agent holds

ASSUME IdentitiesAssumption == MaxIdentities \in Nat

VARIABLES
    call,           \* what is called, with which plan and providers
    pc,             \* where the call is
    phases,         \* the milestones reported
    requests,       \* startup requests sent
    identities,     \* how many identities the agent listed
    offers,         \* the server's answers to the identities offered so far
    primary,        \* transfer_result of an established forward
    cleanup,        \* results of its cleanup steps, in order
    result,         \* what the call returned
    flag,           \* the cancelled flag of the handle
    epoch,          \* notify_waiters calls on the handle
    canceller,      \* where the thread that cancels is
    wpc,            \* where the cancelled() of the current select is
    seen,           \* epoch at which its Notified was created
    early           \* history: cancel() had returned before the call began

callVars == <<phases, requests, identities, offers>>
forwardVars == <<primary, cleanup>>
flagVars == <<flag, epoch, canceller>>
waitVars == <<wpc, seen>>
vars == <<call, pc, callVars, forwardVars, result, flagVars, waitVars, early>>

Calls == [kind : {"session", "direct", "forward"},
          auth : {"password", "password_prompt", "private_key", "agent"},
          pty : BOOLEAN,
          startup : {"Shell", "Command", "NoShell"},
          encrypted : BOOLEAN,      \* the key file needs a passphrase that is not given
          provider : BOOLEAN,       \* a secret provider is installed
          handle : BOOLEAN]         \* a RusshConnectionCancellation is installed

\* What only matters to one kind or method is fixed for the others.
Sensible(c) ==
    /\ c.encrypted => c.auth = "private_key"
    /\ c.provider => c.encrypted \/ c.auth = "password_prompt"
    /\ c.kind # "session" => c.pty /\ c.startup = "Shell" /\ ~c.handle

\* RusshChannelStartupPlan::from_open_plan
StartupPlan ==
    (IF call.pty THEN <<"RequestPty">> ELSE <<>>) \o
    CASE call.startup = "Shell" -> <<"RequestShell">>
      [] call.startup = "Command" -> <<"Exec">>
      [] call.startup = "NoShell" -> <<>>

Establishing == {"called", "connecting", "prompt", "authenticating", "agent",
                 "offering", "opening", "starting"}
Cleanup == {"shutdown", "disconnect", "join"}

Init ==
    /\ call \in {c \in Calls : Sensible(c)}
    /\ pc = "idle" /\ result = "none"
    /\ phases = <<>> /\ requests = <<>> /\ identities = 0 /\ offers = <<>>
    /\ primary = "none" /\ cleanup = <<>>
    /\ flag = FALSE /\ epoch = 0 /\ canceller = "idle"
    /\ wpc = "off" /\ seen = 0 /\ early = FALSE

-----------------------------------------------------------------------------
(* Cancellation: cancel() on one thread, cancelled() in the task.          *)

\* The select of open_channel with a handle, and both of the forward's, which
\* are given a RusshForwardCancellation of their own.
Cancellable == call.kind = "forward" \/ (call.kind = "session" /\ call.handle)

CancelStore ==
    /\ canceller = "idle"
    /\ flag' = TRUE /\ canceller' = "stored"
    /\ UNCHANGED <<call, pc, callVars, forwardVars, result, epoch, waitVars, early>>

CancelNotify ==
    /\ canceller = "stored"
    /\ epoch' = epoch + 1 /\ canceller' = "returned"
    /\ UNCHANGED <<call, pc, callVars, forwardVars, result, flag, waitVars, early>>

\* The flag is seen: the biased select takes this branch, which ends the
\* establishment with an error and a transfer without one.
SeeCancelled ==
    /\ wpc' = "off"
    /\ \/ /\ pc \in Establishing
          /\ pc' = "done" /\ result' = "cancelled"
          /\ UNCHANGED primary
       \/ /\ pc = "copying"
          /\ pc' = "shutdown" /\ primary' = "ok"
          /\ UNCHANGED result
    /\ UNCHANGED <<call, callVars, cleanup, flagVars, seen, early>>

LookAtFlag(here, next) ==
    /\ wpc = here
    /\ \/ flag /\ SeeCancelled
       \/ /\ ~flag /\ wpc' = next
          /\ UNCHANGED <<call, pc, callVars, forwardVars, result, flagVars, seen, early>>

\* Mutant: the flag is not looked at again once the Notified exists.
CreateThenAwait ==
    /\ wpc = "create"
    /\ seen' = epoch /\ wpc' = "await"
    /\ UNCHANGED <<call, pc, callVars, forwardVars, result, flagVars, early>>

\* A Notified sees every notify_waiters since its creation.
CreateNotified ==
    /\ wpc = "create"
    /\ seen' = epoch /\ wpc' = "recheck"
    /\ UNCHANGED <<call, pc, callVars, forwardVars, result, flagVars, early>>

Notified ==
    /\ wpc = "await" /\ epoch # seen
    /\ wpc' = "check"
    /\ UNCHANGED <<call, pc, callVars, forwardVars, result, flagVars, seen, early>>

WaiterStep == LookAtFlag("check", "create") \/ CreateNotified
              \/ LookAtFlag("recheck", "await") \/ Notified

\* Mutant: the select is not biased.
EitherBranch == wpc \in {"off", "check", "create", "recheck", "await"}

\* Every poll of the select comes by the cancellation first.
OtherBranch == wpc = "off" \/ (wpc = "await" /\ epoch = seen)

-----------------------------------------------------------------------------
(* Establishing the connection.                                            *)

Return(answer) == pc' = "done" /\ result' = answer /\ wpc' = "off"
Goto(next) == pc' = next /\ UNCHANGED <<result, wpc>>
Report(phase) == phases' = Append(phases, phase)

Call ==
    /\ pc = "idle"
    /\ pc' = "called"
    /\ wpc' = IF Cancellable THEN "check" ELSE "off"
    /\ early' = (canceller = "returned")
    /\ UNCHANGED <<call, callVars, forwardVars, result, flagVars, seen>>

\* connect_async
Connect ==
    /\ pc = "called" /\ OtherBranch
    /\ Report("Connecting") /\ Goto("connecting")
    /\ UNCHANGED <<call, requests, identities, offers, forwardVars, flagVars, seen, early>>

\* authenticate_async, up to its first await.
BeginAuthentication ==
    CASE call.auth = "password" -> Goto("authenticating")
      [] call.auth = "agent" -> Goto("agent")
      [] call.auth = "private_key" /\ ~call.encrypted ->
            Goto("authenticating") \/ Return("error")
      [] OTHER -> IF call.provider THEN Goto("prompt") ELSE Return("error")

Connected ==
    /\ pc = "connecting" /\ OtherBranch
    /\ \/ Report("Authenticating") /\ BeginAuthentication
       \/ UNCHANGED phases /\ Return("error")
    /\ UNCHANGED <<call, requests, identities, offers, forwardVars, flagVars, seen, early>>

\* The provider gives a secret or none; with it a key may still fail to load.
Prompted ==
    /\ pc = "prompt" /\ OtherBranch
    /\ Goto("authenticating") \/ Return("error")
    /\ UNCHANGED <<call, callVars, forwardVars, flagVars, seen, early>>

\* On to open_session_channel_async, or to the direct-tcpip one, which
\* reports nothing.
BeginOpening ==
    /\ Goto("opening")
    /\ IF call.kind = "session" THEN Report("Opening") ELSE UNCHANGED phases

Authenticated ==
    /\ pc = "authenticating" /\ OtherBranch
    /\ \/ BeginOpening
       \/ \E answer \in {"auth_failed", "error"} : Return(answer) /\ UNCHANGED phases
    /\ UNCHANGED <<call, requests, identities, offers, forwardVars, flagVars, seen, early>>

ListIdentities ==
    /\ pc = "agent" /\ OtherBranch
    /\ \/ \E n \in 1..MaxIdentities : identities' = n /\ Goto("offering")
       \/ UNCHANGED identities /\ Return("error")
    /\ UNCHANGED <<call, phases, requests, offers, forwardVars, flagVars, seen, early>>

\* The answer to the next identity; an error is not an answer.
OfferIdentity ==
    /\ pc = "offering" /\ OtherBranch
    /\ \/ /\ offers' = Append(offers, TRUE) /\ BeginOpening
       \/ /\ offers' = Append(offers, FALSE) /\ UNCHANGED phases
          /\ IF Len(offers) + 1 < identities THEN Goto("offering") ELSE Return("auth_failed")
       \/ Return("error") /\ UNCHANGED <<phases, offers>>
    /\ UNCHANGED <<call, requests, identities, forwardVars, flagVars, seen, early>>

\* The channel is open: the session goes on to its startup requests, the
\* direct channel is returned, the forward has ended its startup.
Opened ==
    /\ pc = "opening" /\ OtherBranch
    /\ \/ call.kind = "session" /\ Goto("starting")
       \/ call.kind = "direct" /\ Return("ok")
       \/ call.kind = "forward" /\ pc' = "ready" /\ wpc' = "off" /\ UNCHANGED result
       \/ Return("error")
    /\ UNCHANGED <<call, callVars, forwardVars, flagVars, seen, early>>

\* start_channel_async: each request is sent in turn; the answers come with
\* the channel's messages.
StartRequest ==
    /\ pc = "starting" /\ OtherBranch /\ Len(requests) < Len(StartupPlan)
    /\ \/ /\ requests' = Append(requests, StartupPlan[Len(requests) + 1])
          /\ Goto("starting")
       \/ UNCHANGED requests /\ Return("error")
    /\ UNCHANGED <<call, phases, identities, offers, forwardVars, flagVars, seen, early>>

\* Mutant: the milestone is reported as soon as the requests may be sent.
ConnectedBeforeStartup ==
    /\ pc = "starting" /\ OtherBranch /\ requests = <<>>
    /\ Report("Connected") /\ Return("ok")
    /\ UNCHANGED <<call, requests, identities, offers, forwardVars, flagVars, seen, early>>

Started ==
    /\ pc = "starting" /\ OtherBranch /\ Len(requests) = Len(StartupPlan)
    /\ Report("Connected") /\ Return("ok")
    /\ UNCHANGED <<call, requests, identities, offers, forwardVars, flagVars, seen, early>>

\* The deadline of the call, or of its current stage, expires.
Deadline ==
    /\ pc \in Establishing \ {"called"} /\ OtherBranch
    /\ Return("deadline")
    /\ UNCHANGED <<call, callVars, forwardVars, flagVars, seen, early>>

Answer == Connected \/ Prompted \/ Authenticated \/ ListIdentities \/ OfferIdentity
          \/ Opened

-----------------------------------------------------------------------------
(* The established forward.                                                *)

\* Mutant: an error of ready returns without cleaning up.
ReadyOrReturn ==
    /\ pc = "ready"
    /\ \/ pc' = "copying" /\ wpc' = "check" /\ UNCHANGED <<primary, result>>
       \/ primary' = "error" /\ Return("error")
    /\ UNCHANGED <<call, callVars, cleanup, flagVars, seen, early>>

\* ready() and from_std, both synchronous.
Ready ==
    /\ pc = "ready"
    /\ \/ pc' = "copying" /\ wpc' = "check" /\ UNCHANGED primary
       \/ pc' = "shutdown" /\ primary' = "error" /\ UNCHANGED wpc
    /\ UNCHANGED <<call, callVars, cleanup, result, flagVars, seen, early>>

\* copy_bidirectional ends.
CopyEnds ==
    /\ pc = "copying" /\ OtherBranch
    /\ primary' \in {"ok", "error"}
    /\ pc' = "shutdown" /\ wpc' = "off"
    /\ UNCHANGED <<call, callVars, cleanup, result, flagVars, seen, early>>

\* Result::and over the transfer and the cleanup.
And(rs) == IF \E i \in 1..Len(rs) : rs[i] # "ok"
           THEN rs[CHOOSE i \in 1..Len(rs) :
                       rs[i] # "ok" /\ \A j \in 1..(i - 1) : rs[j] = "ok"]
           ELSE "ok"

\* Shutting the channel, disconnecting and joining; each is tried whatever the
\* one before it returned.  Joining may report the peer's own disconnect.
CleanupStep ==
    /\ pc \in Cleanup
    /\ \E r \in {"ok", "error"} :
        /\ cleanup' = Append(cleanup, r)
        /\ IF pc = "join" THEN Return(And(<<primary>> \o Append(cleanup, r)))
           ELSE Goto(IF pc = "shutdown" THEN "disconnect" ELSE "join")
    /\ UNCHANGED <<call, callVars, primary, flagVars, seen, early>>

ShutdownDeadline ==
    /\ pc \in Cleanup
    /\ cleanup' = Append(cleanup, "timeout")
    /\ Return(And(<<primary, "timeout">>))
    /\ UNCHANGED <<call, callVars, primary, flagVars, seen, early>>

-----------------------------------------------------------------------------
Next == \/ Call \/ CancelStore \/ CancelNotify \/ WaiterStep
        \/ Connect \/ Answer \/ StartRequest \/ Started \/ Deadline
        \/ Ready \/ CopyEnds \/ CleanupStep \/ ShutdownDeadline

Spec == Init /\ [][Next]_vars

\* The calling thread and the cancelling one are scheduled; nothing is assumed
\* of the server, the provider, the agent, the local peer or the clock.
FairSpec ==
    Spec /\ WF_vars(CancelNotify) /\ WF_vars(WaiterStep) /\ WF_vars(Connect)
         /\ WF_vars(Started) /\ WF_vars(Ready)

-----------------------------------------------------------------------------
(* Properties.                                                             *)

Milestones == <<"Connecting", "Authenticating", "Opening", "Connected">>
Results == {"ok", "error", "timeout", "deadline", "cancelled", "auth_failed"}

\* The type of every variable.
TypeOK ==
    /\ call \in Calls
    /\ pc \in {"idle", "ready", "copying", "done"} \cup Establishing \cup Cleanup
    /\ phases \in Seq({Milestones[i] : i \in 1..4})
    /\ requests \in Seq({"RequestPty", "RequestShell", "Exec"})
    /\ identities \in 0..MaxIdentities /\ offers \in Seq(BOOLEAN)
    /\ primary \in {"none", "ok", "error"}
    /\ cleanup \in Seq({"ok", "error", "timeout"})
    /\ result \in {"none"} \cup Results
    /\ flag \in BOOLEAN /\ epoch \in Nat /\ seen \in Nat
    /\ canceller \in {"idle", "stored", "returned"}
    /\ wpc \in {"off", "check", "create", "recheck", "await"}
    /\ early \in BOOLEAN

\* The agent's identities are offered until one is accepted, and no further:
\* the call only says "authentication failed" when all were refused.
AgentTriesAll ==
    call.auth = "agent" =>
        /\ \A i \in 1..Len(offers) : offers[i] => i = Len(offers)
        /\ result = "auth_failed" =>
              Len(offers) = identities /\ \A i \in 1..identities : ~offers[i]
        /\ result = "ok" => Len(offers) > 0 /\ offers[Len(offers)]

\* Milestones come in order and once each; Connected is reported exactly when
\* open_channel succeeds, and then every startup request has been sent.
PhasesTruthful ==
    /\ phases = SubSeq(Milestones, 1, Len(phases))
    /\ Len(phases) = 4 <=> result = "ok" /\ call.kind = "session"
    /\ Len(phases) = 4 => requests = StartupPlan
    /\ AgentTriesAll

\* A handle that was cancelled before the call keeps it from contacting the
\* server at all, and the call says so.
CancelledBeforeCall ==
    early /\ Cancellable =>
        phases = <<>> /\ result \in {"none", "cancelled"}

\* An established forward is cleaned up before it returns: the channel is shut
\* down, the session disconnected and joined, or their deadline has expired;
\* and its result is the transfer's error, or else the first of the cleanup's.
ForwardCleanedUp ==
    pc = "done" /\ primary # "none" =>
        /\ Len(cleanup) = 3 \/ (cleanup # <<>> /\ cleanup[Len(cleanup)] = "timeout")
        /\ primary = "error" => result = "error"
        /\ result = "ok" <=> primary = "ok" /\ \A i \in 1..Len(cleanup) : cleanup[i] = "ok"

\* Every call ends.  cancel() ends the establishment and the transfer although
\* the server, the provider and the clock never answer: no wake-up is lost.
\* And with the deadlines alone, a silent server, provider or agent keeps no
\* call from being established or returning, nor an ended forward from returning.
CallEnds ==
    /\ (canceller = "returned" /\ Cancellable /\ pc \in Establishing \cup {"copying"})
            ~> (pc \in Cleanup \cup {"done"})
    /\ WF_vars(Deadline) /\ WF_vars(ShutdownDeadline) =>
            /\ (pc \in Establishing) ~> (pc \notin Establishing)
            /\ (pc \in Cleanup) ~> (pc = "done")

-----------------------------------------------------------------------------
(* Strengthenings that make the properties above inductive.                *)

\* The flag is stored before the notification, so a call that begins after a
\* cancel() has nothing left to do but look at it.
EarlySeen ==
    /\ canceller # "idle" => flag
    /\ pc = "idle" => ~early
    /\ early => canceller = "returned"
    /\ early /\ Cancellable =>
          /\ phases = <<>>
          /\ \/ pc = "called" /\ wpc = "check"
             \/ pc = "done" /\ result = "cancelled"

\* A call has a result exactly when it is done.
ResultWhenDone == result # "none" <=> pc = "done"

\* How many milestones have been reported at each point of the call.
PhasesFollow ==
    /\ pc \in {"idle", "called"} => Len(phases) = 0
    /\ pc = "connecting" => Len(phases) = 1
    /\ pc \in {"prompt", "authenticating", "agent", "offering"} => Len(phases) = 2
    /\ pc = "opening" => Len(phases) = IF call.kind = "session" THEN 3 ELSE 2
    /\ pc = "starting" => Len(phases) = 3 /\ call.kind = "session"
    /\ pc \in {"ready", "copying"} \cup Cleanup =>
          Len(phases) = 2 /\ call.kind = "forward"

\* The requests sent are those of the plan, in its order.
RequestsFollow ==
    /\ Len(requests) <= Len(StartupPlan)
    /\ \A i \in 1..Len(requests) : requests[i] = StartupPlan[i]

\* Identities are offered only while offering, and all but the last one were
\* refused.
OffersFollow ==
    call.auth = "agent" =>
        /\ pc \notin {"prompt", "authenticating"}
        /\ pc \in {"idle", "called", "connecting", "agent"} => offers = <<>>
        /\ pc = "offering" =>
              Len(offers) < identities /\ \A i \in 1..Len(offers) : ~offers[i]
        /\ pc \in {"opening", "starting", "ready", "copying"} \cup Cleanup =>
              Len(offers) > 0 /\ offers[Len(offers)]

\* The cleanup steps come in their order, and only after a transfer.
CleanupFollows ==
    /\ pc \notin Cleanup \cup {"done"} => primary = "none" /\ cleanup = <<>>
    /\ pc \in Cleanup => primary # "none"
    /\ pc = "shutdown" => cleanup = <<>>
    /\ pc = "disconnect" => Len(cleanup) = 1
    /\ pc = "join" => Len(cleanup) = 2

OpenerInv ==
    /\ EarlySeen /\ ResultWhenDone /\ PhasesFollow /\ RequestsFollow
    /\ OffersFollow /\ CleanupFollows
    /\ PhasesTruthful /\ CancelledBeforeCall /\ ForwardCleanedUp
=============================================================================
