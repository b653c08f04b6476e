# tank-operator: verification project

TLA+ models of tank-operator's durable pipelines and read models, the TLC runs
that check them on small instances, and the TLAPS proofs that hold for every value
of the constants. Paths are relative to the repository root (`src/`); file names
without a directory are in `backend-go/cmd/tank-operator/`.

## 1. The system

tank-operator runs coding-agent sessions on Kubernetes. Two orchestrator
replicas (`backend-go/cmd/tank-operator`) serve the browser and share one
Postgres database and one NATS JetStream. Apart from the pod watch there is no
leader election: every background loop runs on both replicas, and the only
coordination is row leases (`locked_at`, `FOR UPDATE SKIP LOCKED`), guarded updates,
deterministic event and command ids, and advisory locks. Each session has a pod with
a runner (`claude-runner`, `codex-runner`) that takes commands from JetStream and
publishes conversation events back.

How the parts interact:

    browser --HTTP--> handlers --boundary events--> session_events (ledger)
       ^                 |  \--publish submit_turn--> command stream --> runner
       |   dispatch and  |                                                |
       |   wake loops  --claim row--+   event stream <----- events -------+
       |                                     |
       |              persister: upsert -> refresh rows -> wake -> delta -> ack
       |                   |                    |            |        |
       |              turn numbers   session_transcript_rows |   sessions row
       +---------- SSE: changed rows <--------- turn pages <-+  (activity, status)
       +---------- SSE: session list <------------------------------- |
                                      pod watch, reconcile, reaper, sweep ---+
    GitHub webhooks --> CI watch --> auto-merge --> orchestration --> spoke sessions
    agents --> control-action requests --> decisions;  test provisions --> slots

### Inventory

| Component | State it keeps | Operations | What is hard | What makes it correct |
|---|---|---|---|---|
| Launch dispatch: `launch_dispatch.go`, `stranded_launch_sweep.go`, `internal/pgstore/pending_launch.go` | `session_pending_launch_turns`, staged attachment bytes | register, stage, claim, load, submit, mark, stale scan, stranded sweep | leases that expire under a slow replica, unconditional Mark writes, crash between Mark and event | a launch is submitted or visibly failed; bytes live exactly as long as they may be needed |
| Scheduled wakeups: `scheduled_wakeups.go` and its store | `session_scheduled_wakeups` | register, claim, fire, release, fail, ring, cancel | take-over racing a fire, stale holders, retries after a lost mark, a deduplication window shorter than an outage | one command, one run, no wake pending for ever |
| Background-task wakes: `background_task_wakes.go` and its store | one row per wake generation | register / refresh / re-arm, claim, defer (with or without refund), fire, fail, cancel | stale snapshots, refunds by stale holders, flapping observations | one prompt per generation, attempts that stay bounded, wakes drain |
| Event persister: `internal/sessionbus/persister.go` | consumer position, per-session queues, worker slots | enqueue, batch, upsert, refresh, wake, delta, ack, reconcile, advisory repair | redelivery to the other replica, MaxDeliver exhaustion, crash between any two steps, lost advisories | acknowledged means stored, projected and announced |
| Turn numbers: migrations 0087 to 0094 and 0139, `internal/store/session_turns.go` | `session_turns`, `session_turn_counters` | a trigger on the insert of an event | two writers with first events of new turns | a number is unique, never changes, and every turn has one |
| Transcript rows: `transcript_rows_materializer.go`, `transcript_fold_checkpoint.go`, `async_transcript_refresher.go` | `session_transcript_rows`, fold memo, backfill marker | checkpointed fold, turn re-projection, session resync, shadow check | two replicas and two writers, failed refreshes, late order keys | rows only grow and reflect every acknowledged event |
| Transcript content: `transcript_projection.go`, `handlers_session_events.go`, `frontend/src/transcriptMerge.ts` | rows and their end keys; the browser's list | project, refresh a turn or the session, page, stream, merge | wakes folded into the turn they continue, rows whose identity changes, keys that move | nothing of the ledger is lost from the view; the browser has no ghost rows |
| Turn pages: `turn_pages.go`, `turn_activity_cache.go` | page cache with a freshness probe | split, choose the opening page, cache | events of folded turns arriving after a read | a hit is fresh; the detail shows what the shell shows |
| Activity fold: `internal/sessionactivity/activity.go`, `activity_refresher.go` | activity summary, read state | fold the ledger tail | read-fold-write without a transaction on two replicas | the sidebar's status is that of the ledger |
| Turns: `handlers_turns.go`, `claude-runner/src/runner.ts`, `stranded_turn_sweep.go` | boundary events, active turn, buffered interrupts, parked terminals | submit, interrupt, answer, stop, accept, pause, rotate, finish, sweep | the control plane overtakes the data plane, redelivery, death of the runner, ambiguous publishes | a command is acked only with a terminal; an interrupt has an outcome |
| Session rows: `internal/sessions/manager.go`, `internal/sessioncontroller/`, `session_row_reconcile.go`, the idle reaper, `internal/sessionbus/sweep.go` | `sessions` row, pod, consumers | create, delete, reap, watch, reconcile, sweep | stale watch events, loops that read first and write later | rows follow pods, terminal is sticky, nothing is orphaned |
| Session list: `handlers_session_list_events.go`, `frontend/src/sessionStore.ts`, `sessionTree.ts` | `row_version`, cursors, client rows, `parent_session_id` | snapshot, delta, drain, delete, nest | versions committed out of order, dropped payloads, check-then-write of the nesting | an open sidebar converges and has every session once |
| Orchestrations: `orchestration.go`, `orchestration_engine.go` and its store | runs, phases, spokes | approve, dispatch, advance, reconcile | stateless passes over stale snapshots, webhooks lost or repeated | a spoke starts after its dependencies merged |
| CI watches: `ci_watch_*.go`, `ci_auto_merge.go`, `github_webhook.go` | `ci_watches` | register, read, wake, auto-merge, backstop | several goroutines on one row, heads that move | one wake per registration, merged means merged |
| Test provisions: `test_provision*.go`, `handlers_test_*.go` | `pending_test_provisions`, test state, slots | start, provision, redrive, return | goroutine limits against stale floors, lost calls to the pool | one run per target, slots accounted for |
| Control actions: `control_actions.go`, `handlers_*control*.go` | `control_action_events` | request, decide singly or in a batch, use a grant | look-up then append, a bounded look-back window | one decision; limits hold; the agent is told |
| Provider health: `internal/providerhealth/` | health row, banner events | poll, debounce, transition, fan out, backfill | pollers of several replicas and scopes on one row, lost fan-outs, ledger identity of the banner | a change is announced once; banner and row agree |
| Avatars: `handlers_avatars.go`, `internal/sessionregistry/avatar_deck.go` | avatars, images, decks | upload, edit, re-kind, delete, seed, draw | row and blob are two stores, edits racing draws | images follow rows; once per cycle |
| Session bus: `internal/sessionbus/bus.go`, `commands.go` | command and event streams | publish, subscribe | one of two publishes fails | idempotent retries |
| Stuck-turn sampler, proxies, auth, profiles, credentials, charts, desktop | request scoped or static | - | - | outside the session pipeline |

The main hazards of this code, each at the line where it bites and with the properties
that would catch it, are the list `hazards` of `PROJECT.json`; what goes wrong without
any property being at stake is under "Disagreements" below.

## 2. Modules

| Module | Models | Composes / uses |
|---|---|---|
| `PendingLaunch` | one deferred launch through both loops of every replica, up to the command stream and the runner | - |
| `ScheduledWakeup` | one timer wake, from registration to its turn | - |
| `BackgroundTaskWake` | all wake generations of one finished task | - |
| `TranscriptRows` | the projection of one session's ledger by persister and async workers | - |
| `EventDelivery` | abstract specification: what the persister promises | - |
| `EventPersister` | the persister on every replica, with reconciler and advisory repair | `INSTANCE EventDelivery` |
| `TurnLifecycle` | handlers, both command planes, runner and stranded-turn sweep of one session | - |
| `SessionRow` | one row, its pod and its consumer, and everything that writes them | - |
| `RowStream` | row versions, publication, SSE stream and client store | - |
| `SessionNesting` | parents of sessions and their moves | - |
| `SidebarTree` | the arrangement of the sidebar (recursive, so apart from what is proved) | `SessionNesting` |
| `Orchestration` | one run over a DAG of phases | - |
| `CIWatch` | the watch of one pull request | - |
| `SessionLedger` | every order of conversation events that handlers and runner can produce | - |
| `TranscriptProjection` | `projectTranscriptEvents` as operators on a set of events | - |
| `TranscriptView` | stored rows, stream and browser list | `TranscriptProjection`, `SessionLedger` |
| `TurnPages` | the pages of a turn and their cache | `TranscriptProjection`, `SessionLedger` |
| `ActivityFold` | the fold of the activity summary and its concurrent refreshes | `SessionLedger` |
| `SessionViews` | the three readers over one ledger | the three above |
| `TestProvision` | test slots of one session | - |
| `ControlActions` | requests, decisions and use of grants of one session | - |
| `ProviderHealth` | the sign-in banner of one provider | - |
| `AvatarDeck` | avatars, their images and the decks | - |
| `TurnNumbers` | the allocator of turn numbers | - |
| `CIWatch_proof`, `EventPersister_proof` | theorems and proofs | the module of that name |
| `Automations_proof` | theorems and proofs | `BackgroundTaskWake`, `Orchestration` |
| `Browser_proof` | theorems and proofs | `RowStream`, `SessionNesting`, `SessionViews` |
| `Rows_proof` | theorems and proofs | `TranscriptRows`, `SessionRow` |
| `TurnLifecycle_proof` | theorems and proofs | `TurnLifecycle`, `TestProvision` |
| `Operations_proof` | theorems and proofs | `PendingLaunch`, `ControlActions` |
| `Services_proof` | theorems and proofs | `ScheduledWakeup`, `ProviderHealth`, `TurnNumbers`, `AvatarDeck` |
| `MC*` | constants, scopes and symmetry for TLC; `MCServices`, `MCOperations` and `MCRowStream` put small, independent components into one run, one per behaviour | extend the modules they run |

Conventions. One Postgres statement (or transaction) is one step, one publish is
one step, and a replica can be arbitrarily slow or die between two of them. Time
appears as the comparisons the code makes with it: a lease is stale, a row has
crossed an age floor, a wake is due, the deduplication window has closed. What a
replica holds in memory (a claim's snapshot, loaded bytes, a batch) is a variable of
its own, so what is stale when used is visible. Failed calls and crashes are
counted and bounded (`MaxFaults`, `MaxMishaps`, `MaxErrors`, `MaxLosses`).
Definitions that repeat another one's name with a suffix after an underscore, or
that are marked *Mutant*, are deliberate bugs; no specification uses them, they
show that a property can fail. Variables marked *history* record how a state came
about; no guard reads them, and a property that excuses a case names it through them.

Left out, and without effect on the properties: the redelivery of a `submit_turn` to a runner that died is modelled
once, in `TurnLifecycle`, and not again in `ScheduledWakeup`, whose runner takes a command once (`RunsOnce` is
therefore a statement about the commands, not about redelivery). `Orchestration` marks a phase merged and starts
the pass in one step (`orchestration.go:114`, `:126`; in `CIWatch` the mark of the watch and the advance are two).
`ActivityFold` has no `turn.claimed`, no Failed pod (which makes the status an error whatever the ledger says) and no
pending background work at a ready terminal (`activity.go:192-199`), reads pending wakes off the ledger instead of the
wake tables (`chat_activity.go:552`), and makes the four reads of a refresh one step.

### PendingLaunch
`status`, `attempts`, `leaseStale` and `blobs` are the row and its bytes; `ledger`
holds the event types of the launch turn (an event identity is stored once);
`command` holds the prompts on the stream, each the attachments it names. A
replica's `pc` follows `dispatchPendingLaunch`: terminal check, load, pod
readiness, boundary (`SubmitTurn`), publish, mark; `sweep` follows the
stranded-launch sweep. `MarkDispatched` and `MarkFailed` are unconditional, as in
`pending_launch.go`. `badTurn` lets the boundary reject the turn for good.

### ScheduledWakeup
`ClaimDue` takes the row and the session status in one statement, so the liveness
ladder is evaluated on that snapshot; the boundary call re-reads the session.
`LedgerGuard` is the double-fire guard; `LedgerReadFails` is its ignored read error.
`Deliver` is `PublishCommand` with its message id. `DedupeExpires` closes the
stream's window. The runner drops a command whose turn has a terminal.

### BackgroundTaskWake
Every variable of a row is indexed by generation. `Register` appears as its three
outcomes that change a row; the duplicate, capped and terminal outcomes change
nothing. `Release` refunds an attempt, `ReleaseRetainingAttempt` does not; both are
unconditional.

### TranscriptRows
A row's content is abstracted to the ledger events it reflects, the memo to the
events it folded and its `LastOrderKey`. A refresh takes the session lock, so it is
one step; which form it takes depends on the batch (flood events only, memo live,
no forest event) exactly as in `RefreshEventBatch`. `skipped` is a history variable:
events a fold passed over as "already folded" that no row has.

### EventPersister and EventDelivery
`stream`/`tries` are the durable consumer, `queue`, `worker`, `batch`, `persisted`,
`inserted` a replica's dispatcher, `scan` the reconciler of a starting replica,
`advisory`/`repair` the out-of-band repair. `Late` replicas join when the stream is
already in use. `EventDelivery` says only: an event moves offered, stored,
projected, visible, one stage at a time; it is acknowledged only when visible;
rejected events leave no trace; every event is stored in the end unless it is
rejected or an operator can see that the persister gave up. The refinement maps
`stage` to the tables an event is in.

### TurnLifecycle
The ledger is a set of events <<turn, type>> (ids are deterministic); what the runner
published and the persister has not yet stored is on the wire. Data plane: one
unacknowledged `submit_turn` at a time, redelivered when the runner dies or the
delivery lapses. Control plane: interrupts and answers overtake it and are buffered
for a turn that has not arrived; `attempts` counts the deliveries of an interrupt, which ends
unresolved after `MaxControlDeliver` (10 in `sessionBus.js`). The runner's actions follow `runner.ts`: accept,
already-terminal check, feed, pause on a question, continue, stop, result, park a
terminal whose publish failed, ack. `StopTurn` is `applyInterruptToTurn` with each of its publishes
able to fail: the interrupt is then put back, and if neither `turn.interrupted` nor the fallback
`turn.failed` got out the turn stays open. The sweep reads a candidate and fails it later.

### SessionRow
`Create` is row, pod, second upsert; `Delete` hides the row and deletes the pod; the
pod watch keeps an in-memory tracker and loses it with the leader's lease; reconcile,
reaper and consumer sweep each read first and act later. `row.term` is the sticky
terminal reason. Ages are three classes: recent, past the reconcile and reap cut-off,
past the sweep's recency window.

### RowStream
`seq` hands out versions when a write starts (`tx`), `db` has them when it commits, in
any order. `fetched` are payloads read back after the commit; publishing may lose
or reorder them. The stream handler has the drain cursor and the per-session high-water
map; the client has rows, tombstones and its resume point. A delete hides the row optimistically, then
is answered (`DeleteReturns`) or fails, before or after its write (`DeleteFails`). `gap` is a history
variable: the resume point or the drain cursor has gone past a row, or past a version still to be committed, and
the client lacks it. `buried` is one too: visible rows under a tombstone that no answer lifted.

### SessionNesting and SidebarTree
`SetParentSession` walks the chain above the new parent one row per step and then
writes unconditionally. `unchecked` is a history variable: rows whose parent was written
although another nesting was written after the check had begun. `ArrangeSessionTree` is
`sessionTree.ts` on the visible sessions: roots in order with all their descendants,
depth first, then whatever has no root.

### Orchestration and CIWatch
`Orchestration` runs the engine's pass (`Pass(w)`) over a snapshot of the phase rows;
its callers are a merge webhook, an auto-merge and the reconcile loops. Spokes,
their registrations and GitHub are the environment. `CIWatch` has goroutines
(`Step(w)`) that read the live pull request, write the row with or without a guard as
the code does, and then wake the agent or merge; a webhook carries no state, so a
delivery is a read at any time. A read whose check-run fetch failed shows other checks than the
commit has (`Misread`); a phase that could not be looked up makes a green watch ready without a merge (`MarkReady`).

### SessionLedger, TranscriptProjection, TranscriptView, TurnPages, ActivityFold
`SessionLedger` produces every order of submits, starts, items, questions, answers,
dismissals, background tasks and their wakes, stops, terminals and notices within
the bounds of a scope. `TranscriptProjection` applies the events in order of their keys, folds
a turn's entries into its shell and wake shells into the shell of the turn they
continue. `TranscriptView` refreshes stored rows per turn or per session after each
batch and follows a browser through snapshot, stream and merge (`torn`: the session
was rewritten while the stream was down). `TurnPages` splits and caches; a hit is
decided by the largest order key of every turn read. `ActivityFold` has `Jobs` that read, fold
and write with the order-key guard (`overtaken`: a count written from an older read).

### TestProvision, ControlActions
`TestProvision`: goroutines (`RunStep`) wait for CI, check a slot out, deploy, name it in
the test state and close the row; the backstop (`ScanStep`) claims stale rows by
comparing `attempt_count`. `ControlActions`: an append-only table; a decision handler
looks and appends later, and a unique index refuses the second decision. The handlers that grant a test-slot
model and the internal append route write their row and tell nobody (`silent`); an orchestrator that grants to itself
is told by its kickoff turn and is an `AdminGrant` here.

### ProviderHealth, AvatarDeck, TurnNumbers
`ProviderHealth`: each poller reads the proxy, debounces, writes the row guarded by the
version it read and fans out to the sessions of its own `Scope`; production and the validation slots share
the row. `astray` names the sessions whose banner was lost, overtaken or left to another scope's poller. A new session backfills. The ledger keeps the first
event of a banner's identity, the transcript shows the last. `AvatarDeck`: a draw is
one transaction under advisory locks whose writes show at commit; uploads, edits,
changes of kind and deletions write blob and row in the order of the handlers.
`TurnNumbers`: each writer is a transaction at READ COMMITTED that stores an event and
runs the trigger statement by statement; the counter row and a lowered turn row stay
locked to the commit. `Init` is any ledger with the numbers of the backfill.

## 3. Runs

| Run | Bounds | Shows |
|---|---|---|
| `launch` | 2 replicas, 2 attachments, cap 2, 3 claims, 1 fault | bytes follow the row, prompts are whole, boundary before command, dispatched means published, settled rows stay settled; every launch settles and surfaces |
| `services` | wake: 2 replicas, cap 3, 2 faults; banner: a production and a slot poller on one row, 1 session, 2 flips, 2 losses; avatars: 2 avatars, 3 draws, 2 edits, 1 mishap; numbers: 2 writers, 5 events of 2 turns and a wake | one command and one run per wake, which settles; banners of the poller's scope agree with the row, which follows the proxy, and only a change is fanned out, once; once per cycle, images follow rows; numbers are given to every turn, only grow and never change |
| `taskwake` | 2 replicas, 2 generations, cap 2, 1 fault | one prompt per generation, none skipped, refunds backed; once the session stays idle every wake settles |
| `rows` | 2 replicas, 4 events of every class, 1 fault | rows durable, memo coherent, losses only by the order-key guard, rows never regress, bus events settle |
| `persister` | 2 replicas (one late), 2 events, 1 slot, 2 deliveries, 1 fault | queues are served, acknowledged is visible, and the persister implements `EventDelivery`, its liveness included |
| `turns` | 2 turns, 1 question, Stops of one turn, 2 mishaps, 2 deliveries on each plane | turns serialized, answers backed, an open prompt is not fed twice, a command is acked only when its turn is closed, an interrupt stays until a terminal or its last delivery |
| `sessions` | 1 session, 1 fault, 2 events of user or pod | terminal rows stay Failed, status follows the pod, hidden stays hidden, live consumers are kept; ghosts, crash loops and orphans end |
| `rowstream` | stream: 2 sessions, 2 versions, 2 faults, page and channel of 1; nesting: 3 sessions, 2 tabs, 3 moves, 1 delete | what the drain passed is on screen, no version goes back, the sidebar converges; only an overtaken check closes a cycle, moves end, and every session is listed once in its ancestor's group |
| `orchestration` | 2 phases in a chain, one on main, 2 workers, 2 spokes, 1 fault | a spoke starts after its dependencies merged, finished means merged, a ready phase is dispatched |
| `ciwatch` | 2 goroutines, 2 heads, 1 registration, 1 fault | one wake per registration, merged is merged, auto-merge follows the pin, the watch resolves |
| `views` | 14 scopes of up to 12 events, 2 jobs, page limit 3, window 3 | nothing is lost from the rows, the stream delivers, no ghosts, cache hits are fresh, pages show what the shell shows, the sidebar's status, unread mark and count settle |
| `operations` | provisions: 2 targets, 2 slots, 2 goroutines, 2 replicas, 2 starts, 2 faults; approvals: 2 deciders, 4 rows, 1 of them silent, window 2, 1 error | one run per target, slots accounted for, nothing pending for ever; one decision, limits hold, grants are told unless their handler tells nobody |

The properties of the runs. An invariant `…Safe`, and the other properties that
name parts, are the conjunction of those parts, each defined and explained above
it in its module; a type invariant is the first part where there is one.

| Property | Parts |
|---|---|
| `LaunchSafe` | `NoOrphanedBlobs`, `ClaimableHasAllBytes`, `AllOrNothingPayload`, `BoundaryBeforeCommand`, `DispatchedWasPublished` |
| `LaunchEnds` | `LaunchResolves`, `LaunchSurfaces` |
| `WakeSafe` | `BoundaryBeforeCommand`, `FiredHasTurn`, `OneCommandPerWake`, `RunsOnce` |
| `HealthSafe`, `HealthFollows` | `BannersAgree`; `WinnersFlip`, `RowFollowsProxy` |
| `DeckSafe` | `OncePerCycle`, `DeckKind`, `ImagesFollowRows` |
| `NumbersSafe` | `OneTurnPerNumber`, `PersistedIsNumbered`, `FirstKeyIsEarliest` |
| `WakesSafe` | `OnePromptPerGeneration`, `RearmAfterTurn`, `RefundsAreBacked` |
| `RowsSafe` | `RowsAreDurable`, `MemoMatchesRows`, `OnlySkippedAreMissing` |
| `PersisterSafe` | `NoStrandedQueue`, `AckedIsVisible` |
| `TurnsSafe`, `TurnStepsSafe` | `Serialized`, `AnswerBacked`; `NoDoubleFeed`, `AckedWhenClosed` |
| `RowSafe`, `RowStepsSafe`, `LoopsFinish` | `StickyTerminal`, `WatchedStatus`; `ReappearsOnlyInCreate`, `LiveConsumersKept`; `GhostsEnd`, `LoopsEnd`, `OrphansSwept` |
| `StreamSafe`, `NestingSafe`, `SidebarSafe`, `SidebarSettles` | `DrainFloor`; `NestingIsAcyclic`; `EveryRowOnce`, `GroupedUnderAncestor`; `Converges`, `MovesEnd` |
| `RunSafe`, `WatchSafe` | `SpawnedAfterDeps`, `FinishedMeansMerged`; `OneWakePerRegistration`, `MergedIsMerged` |
| `ViewsSafe` | `TranscriptWhole` (`NothingLost`, `FinishedNotActive`, `ShellBelowMessage`), `HitIsFresh`, `CountSettles` |
| `UpdatesAgree` | `RowsMatchSession`, `StreamDelivers`, `NoGhostRows` |
| `DetailAgrees`, `SummarySettles` | `DetailShowsShell`, `OpensOnQuestion`, `FinalAnswerIsLast`; `StatusSettles`, `SidebarAgrees`, `UnreadNotHidden` |
| `ProvisionSafe`, `ApprovalsSafe` | `OneRunPerTarget`, `SlotAccounted`; `DecidedOnce`, `LimitHolds`, `GrantNotified` |
| on their own | `RowStaysTerminal`, `WakeSettles`, `NumbersGrow`, `IdleSessionDrains`, `RowsNeverRegress`, `BusEventsSettle`, `DeliversEvents`, `InterruptResolves`, `NoRegress`, `ReadyDispatched`, `AutoMergeFollowsPin`, `WatchResolves`, `PendingEnds` |

Why the bounds are enough. Two replicas, goroutines, deciders or tabs give every
pair of a stale holder and a new one; more than two meet on the health row only, where the
theorems cover any number of pollers. Its run has one poller per scope and the debounce of the deployment, none. Two
attachments are the least for "some but not all". An attempt cap of two or three
reaches the retry, the last attempt and the cap sweep; two generations the first
wake, a re-arm and the cap; two deliveries a redelivery and exhaustion (for turns,
the theorems cover any number); one worker
slot makes sessions wait for each other. Two turns give the runner one to
run and one to hold back; with two mishaps any pair of Stop, death, failed publish and
lapse meets. Three sessions are the least for a chain that leads into a cycle, three
moves for two that close it and one that walks it. Two versions with pages and
channels of one give every overtaking and every overflow. Five events give one turn
three keys, so that two of them can be lowered at once. The scopes of `views` put one
difficulty each into the longest ledger that stays small: a wake of a wake, a
question between two turns, notices before the first message. The readers with many states
of their own get shorter ledgers, those of which everything is proved (cache, activity, count) the shortest
that still have a wake, a question and two turns. Symmetry is used in
`views` only (refresh jobs), which checks no liveness. Deadlock is not checked: each
module models one bounded unit of work, which may legitimately be finished.

Fairness. Loops are tickers, so a scan and the steps of a started pass are weakly
fair, and time passes: leases, ages and due times are weakly fair. Where a replica
alternates between passes and an action is enabled only while it is idle (`FindStale`,
the claims per generation), the ticker returns to it again and again, hence strong
fairness. JetStream redelivers and expires ack waits; the supervised persister
restarts. An SSE handler serves its channel and its heartbeat ticker, EventSource
reconnects, a request goroutine goes on until it answers. Nothing is assumed of users,
sessions, agents, GitHub, the provider, faults or commits of pull requests; the
properties that need one of these to stand still say so (`IdleSessionDrains`,
`HealthFollows`, `WatchResolves`).

### Disagreements with the repository's own words
What the models reach and the code's comments or docs do not say. Where a property
excuses such a case it names it through a history variable; nothing else is excused.

Launches and wakes
- A publish error writes `turn.command_failed`, so the retry announced at
  `launch_dispatch.go:28-31` meets its own marker as a terminal and fails the
  launch (`handlers_turns.go:1223`).
- `turn.submitted` can follow a terminal of the launch turn: the check at
  `launch_dispatch.go:163` and the boundary are not atomic. The stale scan can fail a
  row whose command was delivered, which adds a second terminal to a completed turn,
  and can delete the bytes between claim and load, hence "all or none".
- A crash between the boundary and the publish of a wake is later recorded as fired
  although no command was sent (`scheduled_wakeups.go:371-372`, `:383`). A failed wake's ring is
  not retried after an error (`:335`; compare `docs/scheduled-turn-continuity.md:122-124`).
- A stale holder's `Release` re-opens a settled wake (compare "never resurrected",
  `internal/pgstore/background_task_wakes.go:210-211`); the cap still ends it. `FailExceeded` can
  fail a wake whose last attempt is still being fired. A deferred wake is claimable at
  once, so two tickers of 5 s spend five attempts in little more than the 10 s the defer is for.
- `Register` refreshes the facts of a task wake that is claimed; the prompt has the older
  ones and the later observation counts as reported (`background_task_wakes.go:288-290` in
  `pgstore`). A cancelled task wake is published all the same: a fire never re-reads its row.

Ledger, rows and persister
- `foldBatch` passes over an order key at or below `LastOrderKey` that was never folded
  (`transcript_fold_checkpoint.go:659-662`); the event is acknowledged and missing from the rows.
- A failed refresh of a backend event is not repaired by the on-read resync
  (`async_transcript_refresher.go:92`).
- A NAK after the upsert costs the event its activity delta (`persister.go:348`).
  An event stored by its last delivery and never projected is skipped by the reconciler (`:674`).
- Two first events of a turn stored together burn a number, and the later one does not
  lower `first_order_key` (comment `migrations.go:1060-1070`), which nothing reads. An overwrite of an order
  key by another turn's event fires no trigger.

Turns
- A turn queued behind one that waits for an answer is swept, although the comment at
  `stranded_turn_sweep.go:80-84` says it never is. After a persister outage the sweep can fail a turn
  whose events are still on the wire.
- A crash after a delivered answer reruns the turn, which asks again under the same ids.
- A stopped turn takes the provider frames of another (`runner.ts:2468`); a parked
  terminal is forgotten by the next result, so a redelivery reruns the prompt (`:3321`).
- A failed interrupt publish is marked on the interrupt's turn id.
- "EVERY accepted interrupt resolves to exactly one terminal-outcome increment" (`runner.ts:2459-2467`): an interrupt
  whose terminal cannot be published is put back, and after ten deliveries (`sessionBus.js:31`, `:401`) the stream
  gives it to nobody any more, with its turn still open. `InterruptResolves` excepts this case and no other.
- `max_ack_pending` 1 alone does not keep two turns apart in the process: a turn that a sweep or
  an expired interrupt closed, or whose redelivery is being checked against its own terminal, is
  still in memory when the next one is delivered. `Serialized` says that one of two such turns is
  closed or has had its last delivery, and no more: with two deliveries every redelivery is the last, so
  a run alone would have accepted a stronger statement that is false from three on.

Sessions, list and nesting
- Readiness lost together with a crash loop writes Failed, then Pending; a first sight of
  the same pod writes Failed. A failed crash-loop delete is not retried, and a failed
  delete of the idle reaper leaves a hidden row with a live pod.
- A row that commits below the drain cursor is never drained (`handlers_sessions.go:667`).
  A resume can go past a lost row, a late snapshot can undo newer rows or lift a tombstone,
  a late payload can bring a deleted row back after the tombstone is gone.
- A failed DELETE does not refresh the list (`App.tsx:29565-29572`), although the comments at `App.tsx:29536-29539` and
  `sessionStore.ts:338-343` say that refresh lifts the tombstone: the session stays hidden in that tab until
  something else asks for a snapshot (`buried`). So does a row shown again by the second upsert of its create
  (`manager.go:500`) after this tab deleted it.
- Two overlapping moves can close a cycle (`manager.go:1012-1044`; the comment at `:1004` says
  the tree is kept acyclic). The sidebar still lists every session once.

Orchestrations and CI watches
- The reconcile requeues a live claim, so a phase gets two spokes (`orchestration.go:254`, `:276-279`).
  A lost merge webhook leaves its phase in `pr_open` for ever (compare `:15-17`, `:190-194`).
  `MarkPhasePROpen`, the block and `AttachPhaseSpoke` are unguarded and drag a merged phase
  back; `UpdateState` overwrites done and failed. A registration that finds its pull request merged does
  not advance the phase. A crash between create and approve leaves a draft.
- `handleGreenCIWatch` overwrites merged with ready (`ci_auto_merge.go:26`; compare
  `github_webhook.go:205-212`). A crash between the guarded ready and the merge leaves the
  watch ready, and one between failed and the wake loses the wake. A second registration
  resets a merged watch. A governed push whose ledger row lags is superseded; an error
  of the check-run fetch reads as "no checks"; a human merge does not advance the run.

Views
- Progress chips become stored rows while no turn has a body. A rewrite of the session
  while the event source is down is not noticed and leaves ghost rows (`torn`). A shell with nothing but
  startup notices ends before it starts.
- The message count is read, compared and written unguarded (`overtaken`); two refreshes
  with equal keys can over-count unread output.
- Second-generation wakes and wakes of interrupted turns are missing from detail pages
  (`turn_pages.go:123-127`), sealed pages change (`:25-26`), and a status after the
  message is in the session body but not on the page (`:408-409`). A late event with a
  lower key leaves the page cache stale. A dismissal by Stop also interrupts the asking turn.

Operations and services
- A claim that listed a provision before `Register` reset `attempt_count` meets the number it
  expects (`stray`). A deploy names the branch, so it may ship a head the gate did not
  see. Two targets overwrite each other's test state; failed calls of the return or of
  `SetTestState` leave a slot or a pointer behind (`lost`); a slow return forgets a slot leased again. The
  mode and the ref are lost when a provision is driven again.
- The look-up and the append of a decision are two statements: the loser gets an
  error of the index (0163). A batch that meets a decision leaves its earlier grants in
  force and untold (`missed`). A live grant older than the newest 200 rows is reported inactive.
- Grants of a test-slot model outside a request's own page (`test_slot_model_approval.go:199-280`, `:282-378`) and rows
  of the internal append route (`controlActionFromJSON` takes grants and denials too, `control_actions.go:2392-2413`)
  send the agent no turn (`silent`). A row of that route that decides nothing there is in the table is not modelled.
- An emission lost after a health transition is not repeated, although
  `handlers_sessions.go:318-320` counts on the next poll; a projection from the ledger
  restores the first banner of a session; two first writes both insert version 1, so with a third
  poller a version can recur and a stale write can win (`restarted`).
- The health row is one for production and the validation slots (`main.go:192-194`, `providerHealth` in `k8s/values.yaml`), but
  the fan-out lists the sessions of one scope (`providerhealth.go:352-366`). The poller that wins tells its own
  scope; the pollers of the others read what it wrote, see no transition, and their sessions are never told (`astray`).
- "Default 1 (single-cycle)" (`providerhealth.go:116-121`): nothing sets `DebounceCycles` (`main.go:587-594`) and `NewManager`
  corrects negative values only (`:153-159`), so the deployment has 0; either way one failed poll is enough.
- A kind changed while a new cycle is dealt leaves an avatar of the wrong kind in the
  deck, which is later drawn (`avatar_deck.go:184`; compare `avatar_assets.go:151-156`). An edit that outlives a deletion, an
  insert whose answer is lost, and the seeding of defaults at every start leave images
  behind or take them from a row (`adrift`).

## 4. Proofs

All theorems hold for any replicas, writers, events, sessions, turns, attachments, caps
and fault bounds that satisfy the named assumptions of the modules (positive caps,
bounds in Nat, a fold window of two or more, event classes that are subsets of the events, finitely many turns with
natural numbers as order keys). They are about the modules' own specifications; the MC modules only
choose constants and put components side by side.

Launches (`Operations_proof`: `LaunchIsSafe`, `TerminalRowIsFinal`). "A prompt names all
attachments or none" is not inductive: the bytes may be gone when they are loaded and the
prompt is built later. `IndInv` therefore adds that what a replica loaded is everything
or nothing, which holds because a claimed row has all its bytes and a settled one none,
and that a replica about to publish or mark has persisted or published (`LoopInv`).

Approvals (`Operations_proof`: `ApprovalsAreSafe`). `TableInv`: the table is a log whose ids count
its rows, a row refers to an older one, and the index lets one row close a request.
`DeciderInv`: what a handler holds refers to rows that exist. `NoticeInv`: a grant was told,
was missed, came from a handler that tells nobody, or is in the hands of the handler that appended it. A push is newer than its
grant, so a window with the grant in it has all its pushes; that is why the bounded
look-back cannot report a used-up grant.

Transcript rows (`Rows_proof`: `RowsAreSafe`, `RowsGrow`). The key is `MemoMatchesRows`: as long as
a live memo equals the rows, a fold rebuilds what it replaces, so rows only grow; the
other refresh forms read the ledger, which contains the rows. `WorkerInv` adds that a
worker in phase "ack" holds only events that are in the rows or were passed over.

Session rows (`Rows_proof`: `RowIsSafe`, `RowStepsAreSafe`). `WatchedStatus` speaks of a tracker that has
seen the pod as it is; the tracker is usually behind, so `Shows` says it of the pod last
seen, and a lemma that the transitions between two sights carry it over. That needs
`LifeOrder` (row before pod before tracker, a ready pod runs, a Pending one was never seen
ready). `LoopOrder` says that what a loop read stays true until it acts: no pod
comes back, a hidden and old row stays hidden. All actions but three have one shape
(`Quiet`), which keeps the invariant.

Persister (`EventPersister_proof`: `PersisterIsSafe`, `ImplementsDelivery`, that is `Spec => Delivery!Safety`).
The inductive invariant has one part per piece of state: the tables are nested (shown,
projected, ledger) and hold only good events; only bad events are terminated; each
worker and each repair knows how far the events it holds have come. From it every step
moves stages by one, acknowledges only visible events, rejects only unstored ones, or stutters.

Turns (`TurnLifecycle_proof`: `TurnsAreSafe`, `TurnStepsAreSafe`, `InterruptsResolve`). `HeadInv` is the
reason turns come one at a time: the data plane hands out the head of its queue only, and
nothing but a terminal or the last delivery removes it, so a turn the process works on is
the head or is spent. `ClosedInv`: a turn the runner counts as terminated has a published
terminal. `FedInv`: a prompt the provider has belongs to a turn the runner owns, so a
redelivery is reattached. `PauseInv` and `AnswerInv`: only the active turn is paused, and an
answer reaches the runner after its boundary is durable. Every step has the shape
`TurnMoves` (one lemma per action), and one lemma says that the shape keeps the invariant;
the action properties are read off the same shape. For `InterruptsResolve` the shape tells of each interrupt that a step takes
away whether its turn was closed or it was `Refused`, its last delivery used up.

Test provisions (`TurnLifecycle_proof`: `ProvisionIsSafe`). `ShapeInv` ties the fields of a goroutine to its
place. `DriveInv`: one goroutine or one claim is at work on a row, and the row is
pending meanwhile; a pass can claim what it listed only where `attempt_count` and the
registration are those it saw, and then nobody is at work. `RaceInv`: who has not been
raced has seen no environment, because there is none.

Wakes (`Services_proof`: `WakeIsSafe`). `FireInv` says which events are durable at each place of a
fire; `SendInv` that while the ledger could be read, a fire that may still publish has a turn
that was never sent or whose message id the stream remembers.

Task wakes (`Automations_proof`: `WakesAreSafe`). `FireInv` says what
is durable at each place of a fire and of a generation that has fired, which is what re-arming
relies on. `RefundsAreBacked` is inductive once the claims that will be refunded are counted as a set:
each step adds one holder together with an attempt, or removes both, by lemmas on cardinality.

Banners (`Services_proof`: `BannersAreSafe`, `WinnersFlipTheRow`). `BannerInv` adds who still
has to tell a session of a change (`FanOutInv`), and that a session between its creation and its
read of the health row shows what is right or is owed a banner (`ReadingInv`). For the second theorem, `FlipInv`: as long as
no first write put the version back, the version a poller read is never ahead of the row's, and where the two are
equal the poller wants the other status.

Turn numbers (`Services_proof`: `NumbersAreSafe`, `NumbersAreStable`). Uniqueness is not
inductive: a number is taken several statements before it is written. `NumbersInv` adds that
the counter is above every number given out, that at most one transaction holds the counter row
(`LockInv`) and that the number it holds is the counter's value; so what a commit
writes is new and larger than everything before. For the keys, a transaction that
lowered a turn's row holds that row to its commit, and `WriterInv` says what each
transaction knows of its turn at each statement.

Avatars (`Services_proof`: `DeckIsSafe`). `OncePerCycle` is not inductive: a change of kind erases entries,
and a cycle that lost its last entry would let the deck fall back to an earlier one. `CycleInv` says
why it does not: every cycle has a used entry, or unused ones whose avatars are deleted and so are never
re-kinded; the last cycle is then the newest, and who waits in it was not drawn in it.
`DrawInv` says what the open draw may hold of each deck, in particular that no
committing change of kind has erased the entry it took, which is what the two
row locks are for. `EditOrder` says what the place of a request tells of its row (a
create has it to itself, one request at most holds the lock); `ImageInv` follows the images from
there. One lemma gives the shape of every administrator's step, one says that a step which re-kinds nobody keeps
the decks, so only the two commits need an argument about both.

Orchestrations (`Automations_proof`: `RunIsSafe`). Rows go backwards (unguarded writes) and snapshots
are stale, yet a spoke starts after its dependencies: merges and created sessions are never
taken back, so whatever a row, a snapshot or a worker ever said of them stays true.
`RunInv` says that of each, and the dispatch needs nothing else.

CI watches (`CIWatch_proof`: `WatchIsSafe`, `AutoMergeIsPinned`). `WatchInv` is an account: a
watched row and a goroutine that took it out of watching are good for one wake each, and these and the
wakes made never exceed the registrations. Only Register adds one; every other write of the
row moves or drops it. A row or a goroutine says
merged only when GitHub has merged, and the pinned head is registered, from the push
ledger, or followed because the ledger could not be read.

Session list (`Browser_proof`: `StreamSpec_Safe`, `StreamSpec_NoRegress`). `DrainFloor` is not
inductive: a payload can be suppressed because the stream sent its version before, so
`FloorInv` says the same of what was sent last (`delivered`) as of what the drain passed, and
of a stream that is still being opened. `HeldInv`: nothing that was fetched, queued, sent, listed
or shown is ahead of the table, and a payload with the row's version has the row's content; `TableInv`:
an open write is ahead of its row. A page of the drain passes no row it does not hold (`Page_Passed`,
by counting), which is what the cursor may rely on; `Sent_Rows` says what one send does to the
screen, and both theorems are read off it.

Nesting (`Browser_proof`: `NestingSpec_Safe`). A walk that nothing overtook has seen the chain from the
new parent up to the row it is at, without the child (`WalkInv`); when it ends, what it saw is
a set closed under parents that has the new parent and not the child (`WriteInv`). `NestingInv` has a
ranking of the sessions that goes down along every checked edge. A checked write
keeps one: the ranks of everything outside that set are raised above it (`NewEdge_Ranked`). A ranked
relation has no cycle, by the well-ordering of the numbers (`Ranked_Acyclic`).

Transcript (`Browser_proof`: `Views_Whole`, and `Views_Safe` for it together with the two that follow).
`Shape` says what ledgers the publishers write: every turn is a user's, a wake's or a question's that was
asked; a pause comes before the terminals; each message has a number, is alone on its turn and is followed by
its submit; a wake continues a task whose turn was closed; a task stays on its turn. Each publisher's step is
a `ShapedStep` (one lemma per action), and such a step keeps the shape. For `FinishedNotActive` and
`ShellBelowMessage`: the projection of any part of a ledger that holds whole turns gives rows that are `RowOK`,
and a refresh keeps them, because a batch that is not read across turns touches one turn and one question at
most (`NewScope`, `Scope_Rows`). For `NothingLost`: the walk along `WakeParent` comes to an end (`Iterates`,
`Wake_Root`, by the least counterexample) in a closed turn that has its task's entry, and so shows a shell.

Message count (`Browser_proof`: `Views_CountSettles`). No count is ahead of the ledger
(`CountsBehind`); while no message calls for a count and no two overlapped, one count at most is under
way (`OneCount`), it has the ledger's number (`Recent`), and it or the row has it (`Reached`).

Page cache (`Browser_proof`: `Views_HitIsFresh`). Order keys count the ledger (`LedgerInv`), whatever is stored
comes after (`Appended`), so an event of a turn changes the turn's mark. `FoldInv`: as long as every
mark observed is still its turn's, what was read is what the walk has reached, and what is still to read is
what it has announced (`Walk`); turns are read at different times, so the marks
are the only reason why the parts fit together. The walk of `ReadChain` is the least set closed under
`NextTurns`, and the stored fold is such a set. Keys that come out of order (section 3) are outside
`SessionLedger` and so outside this theorem.

Activity summary (`Browser_proof`: `Views_SummarySettles`, and `Views_UnreadNotHidden` for its third part).
A refresh folds the last `Window` lifecycle events over a summary that another refresh may have written
meanwhile. The fold nevertheless ends with the status and the turn of the last event that decides them
(`ShownStatus`, `ShownTurn`), whatever it started from. `Course` says why, of what the publishers write: a
boundary precedes its turn's terminals (`BoundaryFirst`), a request to stop directly follows an event that
decides (`RequestsFollow`), so two events are enough to see one, and one turn at most is busy
(`OneBusy`); a task starts only while a turn runs and is shown (`RunningShown`). Each publisher's step keeps
this (`CourseStep`, one lemma per action). `SettlesInv`: every summary, stored or in flight, that has the
ledger's key shows what the ledger shows; `CaughtUp`: when no refresh is owed the row has that key, or a
refresh under way will write it and its guard will let it. For the unread mark, every summary counts at least what
is unread up to its key (`Honest`), and the replies of a finished session all precede the last key
(`RepliesEnd`). `Window` must be at least two (the code reads 50): with one, a session submitted, started and
asked to stop before the first refresh never shows its status, a trace that TLC finds.

Only model-checked, and why.
- Liveness (`LaunchEnds`, `WakeSettles`, `IdleSessionDrains`, `BusEventsSettle`, `HealthFollows`, `LoopsFinish`,
  `SidebarSettles`, `ReadyDispatched`, `WatchResolves`, `PendingEnds` and the `<>Settled` half of
  `DeliversEvents`): fairness is outside the prover. Of `HealthFollows` only `RowFollowsProxy` is left to TLC;
  `WinnersFlip` is proved for any number of pollers (`WinnersFlipTheRow`).
- `UpdatesAgree`, `DetailAgrees`: they compare what the projection, the stream and the pages compute along two
  routes, event by event or all at once. `DetailAgrees` is about pages folded over sequences of events, whose
  equality needs induction over data. `UpdatesAgree` equates the rows that many refreshes leave with one whole
  projection, column by column; no proof of that was attempted.
- `SidebarSafe`: `ArrangeSessionTree` is recursive, for the same reason. What it is given, the nesting
  without cycles, is proved (`NestingSpec_Safe`); that it lists every row once also with them is checked.

## 5. Not modelled

How entries look (markdown, tool rendering, layout), Kubernetes objects beyond a pod's
phase, readiness and deletion, proxies, authentication, profiles, credentials, metrics,
the desktop shell and the charts: they keep no durable state that the session pipeline
depends on. The stuck-turn sampler only reports. The codex runner follows the claude
runner's protocol and is not modelled a second time. Stream and subject configuration is static.
The file browser, the upload diary, the byte migration of avatars and the serving of
images read or write outside the tables above. `PROJECT.json` gives the reason part by part.

## 6. Plan

Done: every module of section 2, with the proofs of section 4.

What could follow:

1. A refinement of `RowStream` to "the client shows some earlier table", with its
   liveness checked by TLC.
2. `RowsMatchSession`, the part of `UpdatesAgree` that `Shape` and `Scope_Rows` already prepare.
