-------------------------- MODULE ScheduledWakeup --------------------------
(***************************************************************************)
(* One self-scheduled wake: a runner registers it, the wakeup loop of any  *)
(* replica claims it when due and fires it through the SDK turn boundary,  *)
(* the user may cancel it, and the attempt-cap sweep fails what cannot be  *)
(* finished.  A durable failure must ring: it writes the away-tagged       *)
(* turn.command_failed of the wake's own (deterministic) turn.             *)
(*                                                                         *)
(* Every Postgres statement is one step; a replica may stop, lose a call   *)
(* or crash between any two.  The session status a fire decides on is the  *)
(* one its claim joined, however old it is by then.                        *)
(***************************************************************************)
EXTENDS Naturals

CONSTANTS
    Replica,        \* orchestrator replicas running runScheduledWakeupLoop
    AttemptCap,     \* MaxScheduledWakeupAttempts
    MaxFaults       \* bound: injected crashes and failed calls

ASSUME WakeAssumption == AttemptCap \in Nat \ {0} /\ MaxFaults \in Nat

VARIABLES
    status,     \* session_scheduled_wakeups.status, "none" before Register
    attempts,   \* attempt_count
    leaseStale, \* locked_at is older than scheduledWakeupClaimStaleAfter
    due,        \* due_at has passed
    session,    \* the joined sessions row
    ledger,     \* event types of the wake's turn in session_events
    commands,   \* submit_turn commands the stream accepted for this turn
    dedupe,     \* the message id is still inside the stream's Duplicates window
    taken,      \* commands the runner has taken up
    runs,       \* times it ran the turn
    pc,         \* per replica: where its fire is
    att,        \* per replica: AttemptCount of the row it claimed
    readFailed, \* some re-claim could not read the ledger
    faults

row    == <<status, attempts, leaseStale>>
bus    == <<commands, dedupe, taken, runs>>
vars   == <<status, attempts, leaseStale, due, session, ledger, commands, dedupe, taken,
            runs, pc, att, readFailed, faults>>

Pending      == {"scheduled", "claiming"}
TerminalRow  == {"fired", "failed", "cancelled"}
Terminals    == {"command_failed", "completed"}
Sessions     == {"Missing", "Pending", "Active", "Dead"}
Firing       == {"guard", "enqueue", "submit", "publish", "mark_fired"}
Control      == {"idle", "release", "failing", "ring"} \union Firing

TypeOK ==
    /\ status \in {"none"} \union Pending \union TerminalRow
    /\ attempts \in 0..AttemptCap
    /\ leaseStale \in BOOLEAN /\ due \in BOOLEAN /\ dedupe \in BOOLEAN /\ readFailed \in BOOLEAN
    /\ session \in Sessions
    /\ ledger \subseteq {"user_message", "submitted"} \union Terminals
    /\ commands \in Nat /\ taken \in 0..commands /\ runs \in 0..taken
    /\ pc \in [Replica -> Control]
    /\ att \in [Replica -> 0..AttemptCap]
    /\ faults \in 0..MaxFaults

Init ==
    /\ status = "none" /\ attempts = 0 /\ leaseStale = FALSE /\ due = FALSE
    /\ session = "Active" /\ ledger = {}
    /\ commands = 0 /\ dedupe = FALSE /\ taken = 0 /\ runs = 0
    /\ pc = [r \in Replica |-> "idle"] /\ att = [r \in Replica |-> 0]
    /\ readFailed = FALSE /\ faults = 0

----------------------------------------------------------------------------
(* Helpers *)

Fault == faults < MaxFaults /\ faults' = faults + 1

\* session_events.Upsert: a second event of the same identity is dropped.
Persist(event) == ledger' = ledger \union {event}

Terminated == ledger \intersect Terminals # {}

Goto(r, label) == pc' = [pc EXCEPT ![r] = label]

\* The lease test ClaimDue and FailExceeded share.
Unheld == status = "scheduled" \/ (status = "claiming" /\ leaseStale)

\* An UPDATE ... WHERE wakeup_id = $1: no test of the current status.
Overwrite(newStatus) == status' = newStatus /\ leaseStale' = FALSE /\ UNCHANGED attempts

\* Mutant: a re-claim submits again without looking at the ledger.
Ladder_NoGuard(s, attempt) ==
    CASE s \in {"Missing", "Dead"} -> "failing"
      [] s = "Pending"             -> "release"
      [] OTHER                     -> "enqueue"

\* fireScheduledWakeup's liveness ladder over the claim's snapshot.
Ladder(s, attempt) ==
    CASE s \in {"Missing", "Dead"} -> "failing"
      [] s = "Pending"             -> "release"
      [] OTHER                     -> IF attempt > 1 THEN "guard" ELSE "enqueue"

----------------------------------------------------------------------------
(* The session pod and the user *)

\* Register: insert, or return the existing row of the same provider item
\* whatever its status (ON CONFLICT writes nothing).
Register ==
    /\ session # "Missing" /\ status = "none"
    /\ status' = "scheduled"
    /\ UNCHANGED <<attempts, leaseStale, due, session, ledger, bus, pc, att, readFailed, faults>>

\* CancelPendingForSession, from the cancel control or after an accepted user turn.
Cancel ==
    /\ session # "Missing" /\ status \in Pending
    /\ Overwrite("cancelled")
    /\ UNCHANGED <<due, session, ledger, bus, pc, att, readFailed, faults>>

----------------------------------------------------------------------------
(* The wakeup loop of one replica *)

ClaimDue(r) ==
    /\ pc[r] = "idle" /\ due /\ Unheld
    /\ attempts < AttemptCap
    /\ status' = "claiming" /\ leaseStale' = FALSE /\ attempts' = attempts + 1
    /\ att' = [att EXCEPT ![r] = attempts']
    /\ Goto(r, Ladder(session, attempts'))
    /\ UNCHANGED <<due, session, ledger, bus, readFailed, faults>>

\* Mutant: only rows already back in 'scheduled' are failed at the cap.
FailExceeded_NotClaiming(r) ==
    /\ pc[r] = "idle" /\ status = "scheduled" /\ attempts >= AttemptCap
    /\ Overwrite("failed") /\ Goto(r, "ring")
    /\ UNCHANGED <<due, session, ledger, bus, att, readFailed, faults>>

\* The pass before ClaimDue in the same tick; no row satisfies both.
FailExceeded(r) ==
    /\ pc[r] = "idle" /\ Unheld /\ attempts >= AttemptCap
    /\ Overwrite("failed")
    /\ Goto(r, "ring")
    /\ UNCHANGED <<due, session, ledger, bus, att, readFailed, faults>>

\* The bounded defer: the claim's attempt is kept.
ReleaseRetainingAttempt(r) ==
    /\ pc[r] = "release"
    /\ Overwrite("scheduled")
    /\ Goto(r, "idle")
    /\ UNCHANGED <<due, session, ledger, bus, att, readFailed, faults>>

\* The double-fire guard: any event of the wake's turn counts as "already fired".
LedgerGuard(r) ==
    /\ pc[r] = "guard"
    /\ Goto(r, IF ledger # {} THEN "mark_fired" ELSE "enqueue")
    /\ UNCHANGED <<row, due, session, ledger, bus, att, readFailed, faults>>

\* EventsForTurnAfter returned an error, which is not looked at.
LedgerReadFails(r) ==
    /\ pc[r] = "guard" /\ Fault
    /\ readFailed' = TRUE
    /\ Goto(r, "enqueue")
    /\ UNCHANGED <<row, due, session, ledger, bus, att>>

\* enqueueSDKTurn: refused, or user_message.created, turn.submitted and the
\* publish, in this order.
EnqueueRejected(r) ==
    /\ pc[r] = "enqueue" /\ session \in {"Missing", "Dead"}
    /\ Goto(r, "failing")
    /\ UNCHANGED <<row, due, session, ledger, bus, att, readFailed, faults>>

PersistUserMessage(r) ==
    /\ pc[r] = "enqueue" /\ session # "Missing"
    /\ Persist("user_message")
    /\ Goto(r, "submit")
    /\ UNCHANGED <<row, due, session, bus, att, readFailed, faults>>

PersistSubmitted(r) ==
    /\ pc[r] = "submit"
    /\ Persist("submitted")
    /\ Goto(r, "publish")
    /\ UNCHANGED <<row, due, session, bus, att, readFailed, faults>>

\* The stream drops a repeated message id inside its Duplicates window.
Deliver ==
    /\ commands' = IF dedupe THEN commands ELSE commands + 1
    /\ dedupe' = TRUE
    /\ UNCHANGED <<taken, runs>>

PublishCommand(r) ==
    /\ pc[r] = "publish"
    /\ Deliver
    /\ Goto(r, "mark_fired")
    /\ UNCHANGED <<row, due, session, ledger, att, readFailed, faults>>

\* A boundary write or the publish returned an error; a publish that failed
\* may still have been delivered.
EnqueueFails(r) ==
    /\ pc[r] \in {"enqueue", "submit", "publish"} /\ Fault
    /\ \/ pc[r] = "publish" /\ Deliver
       \/ UNCHANGED bus
    /\ Goto(r, "failing")
    /\ UNCHANGED <<row, due, session, ledger, att, readFailed>>

MarkFired(r) ==
    /\ pc[r] = "mark_fired"
    /\ Overwrite("fired")
    /\ Goto(r, "idle")
    /\ UNCHANGED <<due, session, ledger, bus, att, readFailed, faults>>

\* failScheduledWakeup: MarkFailed, the wake's own event, then resolveFailedWake.
MarkFailed(r) ==
    /\ pc[r] = "failing"
    /\ Overwrite("failed")
    /\ Goto(r, "ring")
    /\ UNCHANGED <<due, session, ledger, bus, att, readFailed, faults>>

\* resolveFailedWake: the away-tagged turn.command_failed.
Ring(r) ==
    /\ pc[r] = "ring"
    /\ Persist("command_failed")
    /\ Goto(r, "idle")
    /\ UNCHANGED <<row, due, session, bus, att, readFailed, faults>>

\* A store call of the fire returns an error, or the replica dies: the fire is
\* abandoned where it is.  An error of the wake's own event after MarkFailed or
\* FailExceeded takes the same exit, before the ring.
Abandon(r) ==
    /\ pc[r] # "idle" /\ Fault
    /\ Goto(r, "idle")
    /\ UNCHANGED <<row, due, session, ledger, bus, att, readFailed>>

----------------------------------------------------------------------------
(* The environment *)

BecomeDue ==
    /\ status # "none" /\ ~due
    /\ due' = TRUE
    /\ UNCHANGED <<row, session, ledger, bus, pc, att, readFailed, faults>>

LeaseExpires ==
    /\ status = "claiming" /\ ~leaseStale
    /\ leaseStale' = TRUE
    /\ UNCHANGED <<status, attempts, due, session, ledger, bus, pc, att, readFailed, faults>>

\* 24 hours pass; no fire takes that long.
DedupeExpires ==
    /\ dedupe /\ \A r \in Replica : pc[r] = "idle"
    /\ dedupe' = FALSE
    /\ UNCHANGED <<row, due, session, ledger, commands, taken, runs, pc, att, readFailed, faults>>

\* Probe blips flip Active and Pending; a dead or deleted session stays so.
SessionChanges ==
    /\ status # "none" /\ session \in {"Active", "Pending", "Dead"}
    /\ session' \in (IF session = "Dead" THEN {"Missing"} ELSE Sessions) \ {session}
    /\ UNCHANGED <<row, due, ledger, bus, pc, att, readFailed, faults>>

\* The data consumer hands over one command at a time; a turn that already has
\* a terminal is dropped (finalizeCommandIfAlreadyTerminal).
RunnerTakes ==
    /\ taken < commands /\ (runs = 0 \/ Terminated) /\ session = "Active"
    /\ taken' = taken + 1
    /\ runs' = IF Terminated THEN runs ELSE runs + 1
    /\ UNCHANGED <<row, due, session, ledger, commands, dedupe, pc, att, readFailed, faults>>

RunnerFinishes ==
    /\ runs > 0 /\ "completed" \notin ledger /\ session = "Active"
    /\ Persist("completed")
    /\ UNCHANGED <<row, due, session, bus, pc, att, readFailed, faults>>

----------------------------------------------------------------------------

FireStep(r) ==
    \/ ReleaseRetainingAttempt(r) \/ LedgerGuard(r) \/ EnqueueRejected(r)
    \/ PersistUserMessage(r) \/ PersistSubmitted(r) \/ PublishCommand(r)
    \/ MarkFired(r) \/ MarkFailed(r) \/ Ring(r)

Environment ==
    \/ Register \/ Cancel \/ BecomeDue \/ LeaseExpires \/ DedupeExpires
    \/ SessionChanges \/ RunnerTakes \/ RunnerFinishes

Next ==
    \/ Environment
    \/ \E r \in Replica :
         \/ ClaimDue(r) \/ FailExceeded(r) \/ FireStep(r)
         \/ LedgerReadFails(r) \/ EnqueueFails(r) \/ Abandon(r)

Spec == Init /\ [][Next]_vars

\* The loop ticks on every replica, a fire goes on, and time passes.  Nothing
\* is assumed of the session, the user, the runner or the faults.
Fairness ==
    /\ WF_vars(BecomeDue) /\ WF_vars(LeaseExpires)
    /\ \A r \in Replica :
         /\ WF_vars(FireStep(r))
         /\ WF_vars(ClaimDue(r)) /\ WF_vars(FailExceeded(r))

FairSpec == Spec /\ Fairness

----------------------------------------------------------------------------
(* Properties *)

\* A wake is published only after its turn is durable in the ledger, on every
\* path of every attempt (enqueueSDKTurn writes the boundary first).
BoundaryBeforeCommand == commands > 0 => {"user_message", "submitted"} \subseteq ledger

\* A fired wake has a turn in the ledger: no interleaving of a stale claim, a
\* release and a re-claim marks a wake fired that never reached the boundary
\* nor was reported failed.
FiredHasTurn == status = "fired" => ledger # {}

\* A wake is delivered to the command stream once, although the Duplicates
\* window is shorter than an outage: the ledger guard of a re-claim stops the
\* second publish as long as the ledger can be read.
OneCommandPerWake == readFailed \/ commands <= 1

\* The wake turn never runs twice, even when the guard could not read the
\* ledger and the stream took a second command: the runner's terminal check is
\* the second line.
RunsOnce == runs <= 1

\* A wake never stays pending for ever, and once settled it stays settled:
\* stale releases can make a terminal row pending again, but each costs an
\* attempt and FailExceeded ends the row at the cap.
WakeSettles == (status # "none") ~> [](status \in TerminalRow)

\* A wake through stale claims, releases, outages and duplicates: its turn is
\* durable before its command, it is not reported fired without a turn, it is sent
\* once while the ledger can be read, and it runs once in any case.
WakeSafe ==
    TypeOK /\ BoundaryBeforeCommand /\ FiredHasTurn /\ OneCommandPerWake /\ RunsOnce
============================================================================
