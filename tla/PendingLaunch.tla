--------------------------- MODULE PendingLaunch ---------------------------
(***************************************************************************)
(* Durable dispatch of one attachment-backed ("deferred") launch turn.     *)
(*                                                                         *)
(* The create handler writes user_message.created and registers a pending  *)
(* row; the browser stages the attachment bytes; the dispatch loop of any  *)
(* replica claims the row under a lease, materializes the bytes in the pod *)
(* and publishes submit_turn through the SDK turn boundary; the stale scan *)
(* of the same loop and the stranded-launch sweep give a terminal to what  *)
(* can no longer be dispatched.                                            *)
(*                                                                         *)
(* Every Postgres statement (or transaction) is one step, and a replica    *)
(* may be paused or may crash between any two of them.  Time is modelled   *)
(* by the events the code compares it for: a lease becoming stale and the  *)
(* row crossing the two age floors.                                        *)
(***************************************************************************)
EXTENDS Naturals

CONSTANTS
    Replica,        \* orchestrator replicas, each running both loops
    Ordinal,        \* the attachments the launch declared (attachment_count)
    AttemptCap,     \* maxLaunchDispatchAttempts
    MaxClaims,      \* bound: ClaimReady has no cap of its own
    MaxFaults       \* bound: injected crashes and failed calls

ASSUME CapAssumption == AttemptCap \in Nat \ {0} /\ MaxClaims \in Nat /\ MaxFaults \in Nat

VARIABLES
    status,     \* session_pending_launch_turns.status, "none" before Register
    attempts,   \* session_pending_launch_turns.attempt_count
    leaseStale, \* locked_at is older than launchDispatchClaimStaleAfter
    blobs,      \* ordinals present in session_launch_attachment_blobs
    age,        \* age of the launch against strandedLaunchMinAge and launchStaleDeadline
    session,    \* the sessions row the claim joins: status / terminating_at
    badTurn,    \* the SDK boundary will reject this turn (4xx) whenever it is asked
    ledger,     \* event types of this turn in session_events (one row per event identity)
    command,    \* submit_turn commands JetStream holds, each the attachments its prompt names
    runner,     \* what the session pod's runner has done with that command
    pc,         \* per replica: where its launch-dispatch loop is
    att,        \* per replica: AttemptCount of the row it claimed
    loaded,     \* per replica: the blobs LoadAttachments returned
    sweep,      \* per replica: where its stranded-launch sweep is
    faults      \* injected faults so far

row     == <<status, attempts, leaseStale, blobs>>
local   == <<pc, att, loaded>>
vars    == <<status, attempts, leaseStale, blobs, age, session, badTurn, ledger,
             command, runner, pc, att, loaded, sweep, faults>>

Live         == {"awaiting_bytes", "ready", "claiming"}
TerminalRow  == {"dispatched", "failed"}
Terminals    == {"command_failed", "completed"}
EventTypes   == {"user_message", "submitted"} \union Terminals
Ages         == {"young", "strandable", "stale"}
Control      == {"idle", "claimed", "skip", "checked", "loaded", "submitted", "published",
                 "publish_failed", "failing", "fail_event"}

TypeOK ==
    /\ status \in {"none"} \union Live \union TerminalRow
    /\ attempts \in 0..MaxClaims
    /\ leaseStale \in BOOLEAN
    /\ blobs \subseteq Ordinal
    /\ age \in Ages
    /\ session \in {"Pending", "Active", "Gone"}
    /\ badTurn \in BOOLEAN
    /\ ledger \subseteq EventTypes
    /\ command \subseteq SUBSET Ordinal
    /\ runner \in {"idle", "running", "done"}
    /\ pc \in [Replica -> Control]
    /\ att \in [Replica -> 0..MaxClaims]
    /\ loaded \in [Replica -> SUBSET Ordinal]
    /\ sweep \in [Replica -> {"idle", "found"}]
    /\ faults \in 0..MaxFaults

Init ==
    /\ status = "none" /\ attempts = 0 /\ leaseStale = FALSE /\ blobs = {}
    /\ age = "young" /\ session = "Pending" /\ badTurn \in BOOLEAN
    /\ ledger = {} /\ command = {} /\ runner = "idle"
    /\ pc = [r \in Replica |-> "idle"]
    /\ att = [r \in Replica |-> 0]
    /\ loaded = [r \in Replica |-> {}]
    /\ sweep = [r \in Replica |-> "idle"]
    /\ faults = 0

----------------------------------------------------------------------------
(* Helpers *)

\* One injected failure: a crash or a call that returns an error.
Fault == faults < MaxFaults /\ faults' = faults + 1

\* session_events.Upsert: a second event of the same identity is dropped.
Persist(event) == ledger' = ledger \union {event}

Terminated == ledger \intersect Terminals # {}

Goto(r, label) == pc' = [pc EXCEPT ![r] = label]

\* processPendingLaunches on an error: permanent errors and exhausted attempts
\* fail the launch, anything else leaves the lease to expire.
AfterError(r, permanent) ==
    Goto(r, IF permanent \/ att[r] >= AttemptCap THEN "failing" ELSE "idle")

----------------------------------------------------------------------------
(* The create boundary and the browser *)

\* handleCreateSession with initial_turn.deferred: the user message is durable
\* before the pending row is.
PersistUserMessage ==
    /\ ledger = {} /\ session = "Pending"
    /\ Persist("user_message")
    /\ UNCHANGED <<row, age, session, badTurn, command, runner, local, sweep, faults>>

\* PendingLaunchStore.Register; a retried create is a no-op on the same key.
\* The request that created the session is over long before the age floors.
Register ==
    /\ "user_message" \in ledger /\ status = "none" /\ session # "Gone" /\ age = "young"
    /\ status' = IF Ordinal = {} THEN "ready" ELSE "awaiting_bytes"
    /\ UNCHANGED <<attempts, leaseStale, blobs, age, session, badTurn, ledger, command,
                   runner, local, sweep, faults>>

\* Register failed: rollbackCreatedSession removes the session, the user
\* message stays in the ledger.
RegisterFails ==
    /\ "user_message" \in ledger /\ status = "none" /\ session # "Gone" /\ age = "young"
    /\ Fault
    /\ session' = "Gone"
    /\ UNCHANGED <<row, age, badTurn, ledger, command, runner, local, sweep>>

\* handleStageLaunchAttachment + PendingLaunchStore.StageAttachment: refuse
\* once claimed or terminal; flip to ready when every slot is filled.
StageAttachment(o) ==
    /\ session # "Gone"
    /\ status \in {"awaiting_bytes", "ready"}
    /\ blobs' = blobs \union {o}
    /\ status' = IF blobs' = Ordinal THEN "ready" ELSE status
    /\ UNCHANGED <<attempts, leaseStale, age, session, badTurn, ledger, command, runner,
                   local, sweep, faults>>

----------------------------------------------------------------------------
(* The launch-dispatch loop of one replica *)

\* Mutant: the claim takes failed rows again.
ClaimReady_Failed(r) ==
    /\ pc[r] = "idle" /\ session = "Active"
    /\ status \in {"ready", "failed"} /\ attempts < MaxClaims
    /\ status' = "claiming" /\ leaseStale' = FALSE /\ attempts' = attempts + 1
    /\ att' = [att EXCEPT ![r] = attempts'] /\ Goto(r, "claimed")
    /\ UNCHANGED <<blobs, age, session, badTurn, ledger, command, runner, loaded, sweep, faults>>

\* ClaimReady: only for an Active, non-terminating session; a claiming row is
\* claimable again once its lock is stale.
ClaimReady(r) ==
    /\ pc[r] = "idle" /\ session = "Active"
    /\ status = "ready" \/ (status = "claiming" /\ leaseStale)
    /\ attempts < MaxClaims
    /\ status' = "claiming" /\ leaseStale' = FALSE /\ attempts' = attempts + 1
    /\ att' = [att EXCEPT ![r] = attempts']
    /\ Goto(r, "claimed")
    /\ UNCHANGED <<blobs, age, session, badTurn, ledger, command, runner, loaded, sweep, faults>>

\* The already-terminal guard reads the ledger before anything else.
CheckTerminal(r) ==
    /\ pc[r] = "claimed"
    /\ Goto(r, IF Terminated THEN "skip" ELSE "checked")
    /\ UNCHANGED <<row, age, session, badTurn, ledger, command, runner, att, loaded, sweep, faults>>

\* MarkFailed / MarkDispatched: unconditional on the current status, and the
\* staged bytes go in the same transaction.
Settle(newStatus) ==
    /\ status' = newStatus
    /\ blobs' = {} /\ leaseStale' = FALSE
    /\ UNCHANGED attempts

\* The guard hit: the row is failed directly, no second terminal is written.
SkipDispatch(r) ==
    /\ pc[r] = "skip"
    /\ Settle("failed")
    /\ Goto(r, "idle")
    /\ UNCHANGED <<age, session, badTurn, ledger, command, runner, att, loaded, sweep, faults>>

\* GetByOwner, then LoadAttachments, then one WriteFile per blob.
LoadAttachments(r) ==
    /\ pc[r] = "checked" /\ session # "Gone"
    /\ loaded' = [loaded EXCEPT ![r] = blobs]
    /\ Goto(r, "loaded")
    /\ UNCHANGED <<row, age, session, badTurn, ledger, command, runner, att, sweep, faults>>

\* GetByOwner fails or the session has no pod.
PodNotReady(r) ==
    /\ pc[r] = "checked" /\ session # "Active"
    /\ AfterError(r, FALSE)
    /\ UNCHANGED <<row, age, session, badTurn, ledger, command, runner, att, loaded, sweep, faults>>

\* enqueueSDKTurn up to its boundary write: the turn is rejected (4xx), or
\* turn.submitted becomes durable.
RejectTurn(r) ==
    /\ pc[r] = "loaded" /\ (badTurn \/ "user_message" \notin ledger)
    /\ AfterError(r, TRUE)
    /\ UNCHANGED <<row, age, session, badTurn, ledger, command, runner, att, loaded, sweep, faults>>

SubmitTurn(r) ==
    /\ pc[r] = "loaded" /\ ~badTurn /\ "user_message" \in ledger
    /\ Persist("submitted")
    /\ Goto(r, "submitted")
    /\ UNCHANGED <<row, age, session, badTurn, command, runner, att, loaded, sweep, faults>>

\* JetStream keeps the first message of a message id; CommandID is "turn:"+nonce.
Deliver(r) == command' = IF command = {} THEN {loaded[r]} ELSE command

PublishCommand(r) ==
    /\ pc[r] = "submitted"
    /\ Deliver(r)
    /\ Goto(r, "published")
    /\ UNCHANGED <<row, age, session, badTurn, ledger, runner, att, loaded, sweep, faults>>

\* Mutant: the publish error is swallowed.
PublishFails_Swallowed(r) ==
    /\ pc[r] = "submitted" /\ Fault
    /\ Goto(r, "published")
    /\ UNCHANGED <<row, age, session, badTurn, ledger, command, runner, att, loaded, sweep>>

\* The publish returned an error; with two legs and an acknowledgement to
\* lose, the command may nevertheless have been delivered.
PublishFails(r) ==
    /\ pc[r] = "submitted"
    /\ Fault
    /\ Deliver(r) \/ UNCHANGED command
    /\ Goto(r, "publish_failed")
    /\ UNCHANGED <<row, age, session, badTurn, ledger, runner, att, loaded, sweep>>

\* enqueueSDKTurn's turn.command_failed marker, then its 500.
MarkPublishFailed(r) ==
    /\ pc[r] = "publish_failed"
    /\ Persist("command_failed")
    /\ AfterError(r, FALSE)
    /\ UNCHANGED <<row, age, session, badTurn, command, runner, att, loaded, sweep, faults>>

MarkDispatched(r) ==
    /\ pc[r] = "published"
    /\ Settle("dispatched")
    /\ Goto(r, "idle")
    /\ UNCHANGED <<age, session, badTurn, ledger, command, runner, att, loaded, sweep, faults>>

\* Any store, pod or bus call of dispatchPendingLaunch returning an error.
DispatchError(r) ==
    /\ pc[r] \in {"claimed", "skip", "checked", "loaded", "publish_failed", "published"}
    /\ Fault
    /\ AfterError(r, FALSE)
    /\ UNCHANGED <<row, age, session, badTurn, ledger, command, runner, att, loaded, sweep>>

\* failPendingLaunch: MarkFailed, then turn.command_failed.
FailMark(r) ==
    /\ pc[r] = "failing"
    /\ Settle("failed")
    /\ Goto(r, "fail_event")
    /\ UNCHANGED <<age, session, badTurn, ledger, command, runner, att, loaded, sweep, faults>>

FailEvent(r) ==
    /\ pc[r] = "fail_event"
    /\ Persist("command_failed")
    /\ Goto(r, "idle")
    /\ UNCHANGED <<row, age, session, badTurn, command, runner, att, loaded, sweep, faults>>

FailError(r) ==
    /\ pc[r] \in {"failing", "fail_event"}
    /\ Fault
    /\ Goto(r, "idle")
    /\ UNCHANGED <<row, age, session, badTurn, ledger, command, runner, att, loaded, sweep>>

\* Mutant: a claiming row is never stale.
FindStale_NotClaiming(r) ==
    /\ pc[r] = "idle" /\ age = "stale" /\ status \in Live \ {"claiming"}
    /\ Goto(r, "failing")
    /\ UNCHANGED <<row, age, session, badTurn, ledger, command, runner, att, loaded, sweep, faults>>

\* processStaleLaunches: FindStale has no status the dispatcher could hold
\* the row against; a claiming row past the deadline is failed too.
FindStale(r) ==
    /\ pc[r] = "idle" /\ age = "stale" /\ status \in Live
    /\ Goto(r, "failing")
    /\ UNCHANGED <<row, age, session, badTurn, ledger, command, runner, att, loaded, sweep, faults>>

----------------------------------------------------------------------------
(* The stranded-launch sweep, a loop of its own on every replica *)

FindStrandedLaunch(r) ==
    /\ sweep[r] = "idle"
    /\ age # "young" /\ ledger = {"user_message"} /\ status \notin Live
    /\ sweep' = [sweep EXCEPT ![r] = "found"]
    /\ UNCHANGED <<row, age, session, badTurn, ledger, command, runner, local, faults>>

FailStrandedLaunch(r) ==
    /\ sweep[r] = "found"
    /\ Persist("command_failed")
    /\ sweep' = [sweep EXCEPT ![r] = "idle"]
    /\ UNCHANGED <<row, age, session, badTurn, command, runner, local, faults>>

\* A replica dies: what it held in memory is gone, its lease is left behind.
Crash(r) ==
    /\ pc[r] # "idle" \/ sweep[r] # "idle"
    /\ Fault
    /\ Goto(r, "idle")
    /\ sweep' = [sweep EXCEPT ![r] = "idle"]
    /\ UNCHANGED <<row, age, session, badTurn, ledger, command, runner, att, loaded>>

----------------------------------------------------------------------------
(* The environment: time, the session's pod, and its runner *)

LeaseExpires ==
    /\ status = "claiming" /\ ~leaseStale
    /\ leaseStale' = TRUE
    /\ UNCHANGED <<status, attempts, blobs, age, session, badTurn, ledger, command, runner,
                   local, sweep, faults>>

GrowOlder ==
    /\ ledger # {} /\ age # "stale"
    /\ age' = IF age = "young" THEN "strandable" ELSE "stale"
    /\ UNCHANGED <<row, session, badTurn, ledger, command, runner, local, sweep, faults>>

\* The registry row follows the pod: ready, not ready again, or terminating.
SessionChanges ==
    /\ session # "Gone" /\ ledger # {}
    /\ session' \in {"Pending", "Active", "Gone"} \ {session}
    /\ UNCHANGED <<row, age, badTurn, ledger, command, runner, local, sweep, faults>>

\* The runner's already-terminal guard (finalizeCommandIfAlreadyTerminal).
RunnerAccepts ==
    /\ command # {} /\ runner = "idle" /\ session # "Gone"
    /\ runner' = IF Terminated THEN "done" ELSE "running"
    /\ UNCHANGED <<row, age, session, badTurn, ledger, command, local, sweep, faults>>

RunnerFinishes ==
    /\ runner = "running" /\ session # "Gone"
    /\ runner' = "done"
    /\ Persist("completed")
    /\ UNCHANGED <<row, age, session, badTurn, command, local, sweep, faults>>

----------------------------------------------------------------------------

DispatchStep(r) ==
    \/ CheckTerminal(r) \/ SkipDispatch(r) \/ LoadAttachments(r) \/ PodNotReady(r)
    \/ RejectTurn(r) \/ SubmitTurn(r) \/ PublishCommand(r) \/ MarkPublishFailed(r)
    \/ MarkDispatched(r) \/ FailMark(r) \/ FailEvent(r)

Errors(r) == PublishFails(r) \/ DispatchError(r) \/ FailError(r) \/ Crash(r)

Environment ==
    \/ PersistUserMessage \/ Register \/ RegisterFails
    \/ \E o \in Ordinal : StageAttachment(o)
    \/ LeaseExpires \/ GrowOlder \/ SessionChanges
    \/ RunnerAccepts \/ RunnerFinishes

Next ==
    \/ Environment
    \/ \E r \in Replica :
         \/ ClaimReady(r) \/ DispatchStep(r) \/ FindStale(r) \/ Errors(r)
         \/ FindStrandedLaunch(r) \/ FailStrandedLaunch(r)

Spec == Init /\ [][Next]_vars

\* Tickers fire and time passes.  A replica that is idle again and again runs
\* its stale scan (both scans are in one loop body), hence SF on FindStale.
Fairness ==
    /\ WF_vars(GrowOlder)
    /\ \A r \in Replica :
         /\ WF_vars(DispatchStep(r)) /\ SF_vars(FindStale(r))
         /\ WF_vars(FindStrandedLaunch(r)) /\ WF_vars(FailStrandedLaunch(r))

FairSpec == Spec /\ Fairness

----------------------------------------------------------------------------
(* Properties *)

\* A launch whose row is dispatched or failed holds no staged bytes: the
\* deletion shares MarkDispatched's / MarkFailed's transaction and no late
\* upload (StageAttachment) can put bytes back.
NoOrphanedBlobs == status \in TerminalRow => blobs = {}

\* A row the dispatcher may act on (ready or claiming) has every declared
\* attachment staged, however claims, lease expiries and crashes interleave.
ClaimableHasAllBytes == status \in {"ready", "claiming"} => blobs = Ordinal

\* The prompt that reaches the runner names every attachment or none, never a
\* part of them, although LoadAttachments runs outside the transaction that
\* deletes the bytes on another replica.
AllOrNothingPayload == command \subseteq {{}, Ordinal}

\* A command reaches the command stream only after turn.submitted is durable
\* (enqueueSDKTurn persists the boundary before PublishCommand).
BoundaryBeforeCommand == command # {} => "submitted" \in ledger

\* A row marked dispatched has a command on the stream: a crash or an error
\* before the publish never leaves a launch recorded as delivered.
DispatchedWasPublished == status = "dispatched" => command # {}

\* dispatched and failed are final: no claim, upload or scan of any replica
\* makes the row live again (the Mark writes themselves are unconditional).
RowStaysTerminal == [][(status \in TerminalRow) => (status' \in TerminalRow)]_vars

\* The stranded-launch sweep and the stale scan never leave a launch pending
\* for ever: a registered row reaches dispatched or failed.
LaunchResolves == (status # "none") ~> (status \in TerminalRow)

\* A recorded launch message is eventually submitted or visibly failed, also
\* when a replica dies between MarkFailed and its turn.command_failed.
LaunchSurfaces == ("user_message" \in ledger) ~> (ledger \intersect {"submitted", "command_failed"} # {})

\* What a launch may never show, in any interleaving of uploads, claims, expired
\* leases, crashes and the sweep: bytes without a live row, a claim or a prompt
\* with a part of them, a command ahead of its turn, a delivery that was not one.
LaunchSafe ==
    /\ TypeOK /\ NoOrphanedBlobs /\ ClaimableHasAllBytes /\ AllOrNothingPayload
    /\ BoundaryBeforeCommand /\ DispatchedWasPublished

\* A launch comes to an end: the row is settled and the message is submitted or
\* visibly failed (the stale scan and the stranded-launch sweep).
LaunchEnds == LaunchResolves /\ LaunchSurfaces
============================================================================
