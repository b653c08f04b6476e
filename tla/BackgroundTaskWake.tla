------------------------- MODULE BackgroundTaskWake -------------------------
(***************************************************************************)
(* The wakes of one finished background task.  Every observation of the    *)
(* task's end is registered; the store turns it into a first wake, a       *)
(* refresh of the pending one, a duplicate, or - once the last wake has    *)
(* fired - the next wake generation.  The fire loop of any replica claims  *)
(* a due generation and submits its turn, deferring while the session is   *)
(* mid-turn or waiting for an answer; the runner cancels the pending wakes *)
(* when the completion reached the model inside an active turn.            *)
(*                                                                         *)
(* A claim returns one snapshot: the session's state and its activity      *)
(* summary.  The task facts it also returns fill the prompt and decide     *)
(* nothing; they are left out.                                             *)
(***************************************************************************)
EXTENDS Naturals, FiniteSets

CONSTANTS
    Replica,        \* orchestrator replicas running runBackgroundTaskWakeLoop
    MaxGeneration,  \* maxBackgroundTaskWakeGenerations
    AttemptCap,     \* MaxBackgroundTaskWakeAttempts
    MaxWakeFaults   \* bound: injected crashes and failed calls

ASSUME TaskWakeAssumption ==
    /\ IsFiniteSet(Replica)
    /\ MaxGeneration \in Nat \ {0} /\ AttemptCap \in Nat \ {0} /\ MaxWakeFaults \in Nat

VARIABLES
    status,     \* per generation: session_background_task_wakes.status
    attempts,   \* per generation: attempt_count
    leaseStale, \* per generation: locked_at is older than the claim lease
    identified, \* per generation: observed_event_id is not empty
    ledger,     \* per generation: event types of its turn in session_events
    sent,       \* per generation: commands with its prompt on the stream
    session,    \* the joined sessions row
    busy,       \* the joined activity summary: mid-turn or needs_input
    pc,         \* per replica: where its fire is
    held,       \* per replica: the generation it claimed
    wakeFaults

wakeRow  == <<status, attempts, leaseStale, identified>>
wakeVars == <<status, attempts, leaseStale, identified, ledger, sent, session, busy, pc, held,
              wakeFaults>>

Generation  == 1..MaxGeneration
Pending     == {"scheduled", "claiming"}
Decided     == {"failed", "cancelled"}
Control     == {"idle", "release", "defer", "failing", "ring", "guard", "enqueue", "publish",
                "mark_fired"}

WakesTypeOK ==
    /\ status \in [Generation -> {"none", "fired"} \union Pending \union Decided]
    /\ attempts \in [Generation -> 0..AttemptCap]
    /\ leaseStale \in [Generation -> BOOLEAN]
    /\ identified \in [Generation -> BOOLEAN]
    /\ ledger \in [Generation -> SUBSET {"submitted", "command_failed"}]
    /\ sent \in [Generation -> Nat]
    /\ session \in {"Active", "Pending", "Dead"}
    /\ busy \in BOOLEAN
    /\ pc \in [Replica -> Control]
    /\ held \in [Replica -> Generation]
    /\ wakeFaults \in 0..MaxWakeFaults

WakesInit ==
    /\ status = [g \in Generation |-> "none"]
    /\ attempts = [g \in Generation |-> 0]
    /\ leaseStale = [g \in Generation |-> FALSE]
    /\ identified = [g \in Generation |-> FALSE]
    /\ ledger = [g \in Generation |-> {}]
    /\ sent = [g \in Generation |-> 0]
    /\ session = "Active" /\ busy = FALSE
    /\ pc = [r \in Replica |-> "idle"]
    /\ held = [r \in Replica |-> 1]
    /\ wakeFaults = 0

----------------------------------------------------------------------------
(* Helpers *)

WakeFault == wakeFaults < MaxWakeFaults /\ wakeFaults' = wakeFaults + 1

Goto(r, label) == pc' = [pc EXCEPT ![r] = label]

\* A fire ends: what it held in memory is gone.
Done(r) ==
    /\ Goto(r, "idle")
    /\ held' = [held EXCEPT ![r] = 1]

Exists(g) == status[g] # "none"

\* The row Register reads FOR UPDATE: the highest generation.
IsLatest(g) == Exists(g) /\ \A h \in Generation : h > g => ~Exists(h)

Persist(g, event) == ledger' = [ledger EXCEPT ![g] = @ \union {event}]

Unheld(g) == status[g] = "scheduled" \/ (status[g] = "claiming" /\ leaseStale[g])

\* UPDATE ... WHERE wake_id = $1: no test of the current status.
Overwrite(g, newStatus) ==
    /\ status' = [status EXCEPT ![g] = newStatus]
    /\ leaseStale' = [leaseStale EXCEPT ![g] = FALSE]
    /\ UNCHANGED identified

\* fireBackgroundTaskWake's ladder over the claim's snapshot.
Ladder ==
    CASE session = "Dead"        -> "failing"
      [] session = "Pending"     -> "release"
      [] busy                    -> "defer"
      [] OTHER                   -> "guard"

----------------------------------------------------------------------------
(* The runner's registrations and cancels, and the user's *)

\* hasId: the observation came with the id of a durable shell_task.exited event.
Arm(g, hasId) ==
    /\ status' = [status EXCEPT ![g] = "scheduled"]
    /\ identified' = [identified EXCEPT ![g] = hasId]
    /\ UNCHANGED <<attempts, leaseStale>>

RegisterFirst(hasId) ==
    /\ \A g \in Generation : ~Exists(g)
    /\ Arm(1, hasId)
    /\ UNCHANGED <<ledger, sent, session, busy, pc, held, wakeFaults>>

\* pending_updated: the facts are replaced, the lifecycle is not touched.  (An
\* observation without an id leaves observed_event_id as it is.)
RegisterRefresh ==
    /\ \E g \in Generation :
         /\ IsLatest(g) /\ status[g] \in Pending
         /\ identified' = [identified EXCEPT ![g] = TRUE]
    /\ UNCHANGED <<status, attempts, leaseStale, ledger, sent, session, busy, pc, held,
                   wakeFaults>>

\* Mutant: a failed or cancelled wake is re-armed as well.
RegisterRearm_AnyTerminal ==
    /\ \E g \in Generation :
         /\ IsLatest(g) /\ status[g] \in {"fired"} \union Decided
         /\ identified[g] /\ g < MaxGeneration
         /\ Arm(g + 1, TRUE)
    /\ UNCHANGED <<ledger, sent, session, busy, pc, held, wakeFaults>>

\* rearmed: only after a fire, only for an observation with an id other than the
\* recorded one, up to the cap.  Every other registration on a fired, failed or
\* cancelled row changes nothing.
RegisterRearm ==
    /\ \E g \in Generation :
         /\ IsLatest(g) /\ status[g] = "fired"
         /\ identified[g] /\ g < MaxGeneration
         /\ Arm(g + 1, TRUE)
    /\ UNCHANGED <<ledger, sent, session, busy, pc, held, wakeFaults>>

\* CancelPendingForTask: the completion was delivered into the active turn.
\* CancelPendingForSession, after an accepted user turn or the cancel control,
\* has the same effect on these rows.
CancelPending ==
    /\ \E g \in Generation : status[g] \in Pending
    /\ status' = [g \in Generation |-> IF status[g] \in Pending THEN "cancelled" ELSE status[g]]
    /\ leaseStale' = [g \in Generation |-> IF status[g] \in Pending THEN FALSE ELSE leaseStale[g]]
    /\ UNCHANGED <<attempts, identified, ledger, sent, session, busy, pc, held, wakeFaults>>

----------------------------------------------------------------------------
(* The fire loop of one replica *)

ClaimDue(r, g) ==
    /\ pc[r] = "idle" /\ Unheld(g) /\ attempts[g] < AttemptCap
    /\ status' = [status EXCEPT ![g] = "claiming"]
    /\ leaseStale' = [leaseStale EXCEPT ![g] = FALSE]
    /\ attempts' = [attempts EXCEPT ![g] = @ + 1]
    /\ held' = [held EXCEPT ![r] = g]
    /\ Goto(r, Ladder)
    /\ UNCHANGED <<identified, ledger, sent, session, busy, wakeFaults>>

\* Mutant: a claiming row is never given up.
FailExceeded_NotClaiming(r, g) ==
    /\ pc[r] = "idle" /\ status[g] = "scheduled" /\ attempts[g] >= AttemptCap
    /\ Overwrite(g, "failed")
    /\ held' = [held EXCEPT ![r] = g]
    /\ Goto(r, "ring")
    /\ UNCHANGED <<attempts, ledger, sent, session, busy, wakeFaults>>

FailExceeded(r, g) ==
    /\ pc[r] = "idle" /\ Unheld(g) /\ attempts[g] >= AttemptCap
    /\ Overwrite(g, "failed")
    /\ held' = [held EXCEPT ![r] = g]
    /\ Goto(r, "ring")
    /\ UNCHANGED <<attempts, ledger, sent, session, busy, wakeFaults>>

\* Session transiently not Active: the attempt is kept.
ReleaseRetainingAttempt(r) ==
    /\ pc[r] = "release"
    /\ Overwrite(held[r], "scheduled")
    /\ Done(r)
    /\ UNCHANGED <<attempts, ledger, sent, session, busy, wakeFaults>>

\* Mid-turn or waiting for an answer: the attempt is refunded, down to zero.
Release(r) ==
    /\ pc[r] = "defer"
    /\ Overwrite(held[r], "scheduled")
    /\ attempts' = [attempts EXCEPT ![held[r]] = IF @ = 0 THEN 0 ELSE @ - 1]
    /\ Done(r)
    /\ UNCHANGED <<ledger, sent, session, busy, wakeFaults>>

\* Any event of the generation's turn counts as "already fired".
LedgerGuard(r) ==
    /\ pc[r] = "guard"
    /\ Goto(r, IF ledger[held[r]] # {} THEN "mark_fired" ELSE "enqueue")
    /\ UNCHANGED <<wakeRow, ledger, sent, session, busy, held, wakeFaults>>

\* EventsForTurnAfter returned an error, which is not looked at: the fire goes on.
LedgerReadFails(r) ==
    /\ pc[r] = "guard" /\ WakeFault
    /\ Goto(r, "enqueue")
    /\ UNCHANGED <<wakeRow, ledger, sent, session, busy, held>>

\* enqueueSDKTurn with OmitUserMessage: refused, or turn.submitted, then publish.
EnqueueRejected(r) ==
    /\ pc[r] = "enqueue" /\ session = "Dead"
    /\ Goto(r, "failing")
    /\ UNCHANGED <<wakeRow, ledger, sent, session, busy, held, wakeFaults>>

PersistSubmitted(r) ==
    /\ pc[r] = "enqueue"
    /\ Persist(held[r], "submitted")
    /\ Goto(r, "publish")
    /\ UNCHANGED <<wakeRow, sent, session, busy, held, wakeFaults>>

\* The stream keeps the first message of a message id ("turn:" + nonce).  The
\* generations modelled here settle inside its 24 h duplicate window; what
\* happens after it is in ScheduledWakeup, which shares the guard.
Deliver(g) == sent' = [sent EXCEPT ![g] = 1]

PublishCommand(r) ==
    /\ pc[r] = "publish"
    /\ Deliver(held[r])
    /\ Goto(r, "mark_fired")
    /\ UNCHANGED <<wakeRow, ledger, session, busy, held, wakeFaults>>

EnqueueFails(r) ==
    /\ pc[r] \in {"enqueue", "publish"} /\ WakeFault
    /\ \/ pc[r] = "publish" /\ Deliver(held[r])
       \/ UNCHANGED sent
    /\ Goto(r, "failing")
    /\ UNCHANGED <<wakeRow, ledger, session, busy, held>>

MarkFired(r) ==
    /\ pc[r] = "mark_fired"
    /\ Overwrite(held[r], "fired")
    /\ Done(r)
    /\ UNCHANGED <<attempts, ledger, sent, session, busy, wakeFaults>>

MarkFailed(r) ==
    /\ pc[r] = "failing"
    /\ Overwrite(held[r], "failed")
    /\ Goto(r, "ring")
    /\ UNCHANGED <<attempts, ledger, sent, session, busy, held, wakeFaults>>

\* resolveFailedWake: the away-tagged turn.command_failed.
Ring(r) ==
    /\ pc[r] = "ring"
    /\ Persist(held[r], "command_failed")
    /\ Done(r)
    /\ UNCHANGED <<wakeRow, sent, session, busy, wakeFaults>>

\* A store error or a crash ends the fire where it is.
Abandon(r) ==
    /\ pc[r] # "idle" /\ WakeFault
    /\ Done(r)
    /\ UNCHANGED <<wakeRow, ledger, sent, session, busy>>

----------------------------------------------------------------------------
(* The environment *)

LeaseExpires(g) ==
    /\ status[g] = "claiming" /\ ~leaseStale[g]
    /\ leaseStale' = [leaseStale EXCEPT ![g] = TRUE]
    /\ UNCHANGED <<status, attempts, identified, ledger, sent, session, busy, pc, held,
                   wakeFaults>>

\* Only an Active session's activity summary is looked at.
SessionChanges ==
    /\ session # "Dead"
    /\ session' \in {"Active", "Pending", "Dead"} \ {session}
    /\ busy' \in (IF session' = "Active" THEN BOOLEAN ELSE {FALSE})
    /\ UNCHANGED <<wakeRow, ledger, sent, pc, held, wakeFaults>>

\* Turns start, ask, are answered and end.
ActivityChanges ==
    /\ session = "Active"
    /\ busy' = ~busy
    /\ UNCHANGED <<wakeRow, ledger, sent, session, pc, held, wakeFaults>>

----------------------------------------------------------------------------

FireStep(r) ==
    \/ ReleaseRetainingAttempt(r) \/ Release(r) \/ LedgerGuard(r) \/ EnqueueRejected(r)
    \/ PersistSubmitted(r) \/ PublishCommand(r) \/ MarkFired(r) \/ MarkFailed(r) \/ Ring(r)

Scan(r) == \E g \in Generation : ClaimDue(r, g) \/ FailExceeded(r, g)

Runner ==
    \/ \E hasId \in BOOLEAN : RegisterFirst(hasId)
    \/ RegisterRefresh \/ RegisterRearm \/ CancelPending

WakesNext ==
    \/ Runner \/ SessionChanges \/ ActivityChanges
    \/ \E g \in Generation : LeaseExpires(g)
    \/ \E r \in Replica :
         \/ Scan(r) \/ FireStep(r)
         \/ LedgerReadFails(r) \/ EnqueueFails(r) \/ Abandon(r)

WakesSpec == WakesInit /\ [][WakesNext]_wakeVars

\* The loops tick, a fire goes on, leases expire.  ClaimDue takes every due row
\* (up to its batch limit), hence fairness for each generation; a replica is back
\* at its scan again and again, hence SF.  Which replica claims is left open.
Fairness ==
    /\ \A g \in Generation : WF_wakeVars(LeaseExpires(g))
    /\ \A r \in Replica : WF_wakeVars(FireStep(r))
    /\ \A g \in Generation : SF_wakeVars(\E r \in Replica : ClaimDue(r, g) \/ FailExceeded(r, g))

FairWakesSpec == WakesSpec /\ Fairness

----------------------------------------------------------------------------
(* Properties *)

\* A generation's command reaches the stream only after its turn.submitted is
\* durable, and with one prompt whichever replica publishes it.
OnePromptPerGeneration ==
    \A g \in Generation : sent[g] <= 1 /\ (sent[g] = 1 => "submitted" \in ledger[g])

\* A generation is armed only after the one before it got a turn (or a ring) of
\* its own: re-arming never skips a generation that was cancelled or is waiting.
RearmAfterTurn ==
    \A g \in Generation : (g > 1 /\ Exists(g)) => ledger[g - 1] # {}

\* Every claim that will be refunded is still counted: however stale holders
\* interleave, the attempts of a generation cover the deferred claims on it, so
\* Release's clamp at zero never hides an attempt that was never made.
RefundsAreBacked ==
    \A g \in Generation :
        Cardinality({r \in Replica : pc[r] = "defer" /\ held[r] = g}) <= attempts[g]

\* Once the session stays Active and idle every registered wake is settled:
\* refunds, stale releases and re-arms cannot keep one pending for ever.
IdleSessionDrains ==
    <>[](session = "Active" /\ ~busy)
        => <>[](\A g \in Generation : status[g] \notin Pending)

\* The generations of a task's wakes, whichever replicas claim, defer and publish
\* them: one prompt each, armed one after the other, no refund that was not due.
WakesSafe == WakesTypeOK /\ OnePromptPerGeneration /\ RearmAfterTurn /\ RefundsAreBacked
=============================================================================
