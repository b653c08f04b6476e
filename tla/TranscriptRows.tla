--------------------------- MODULE TranscriptRows ---------------------------
(***************************************************************************)
(* The transcript rows of one session: a projection of its event ledger    *)
(* that several writers keep up to date.  The persister of each replica    *)
(* upserts bus events and refreshes the rows before it acks them; events   *)
(* the backend writes itself are refreshed by an asynchronous worker.  A   *)
(* refresh is one transaction under the session's materialization lock and *)
(* takes one of three forms: the checkpointed fold, a re-projection of the *)
(* batch's turns, or a re-projection of the whole session.                 *)
(*                                                                         *)
(* Events are numbered by order_key.  A row's content is abstracted to the *)
(* set of ledger events it reflects, the fold memo to the events it has    *)
(* folded and its LastOrderKey.                                            *)
(***************************************************************************)
EXTENDS Integers

CONSTANTS
    N,          \* events 1..N of the session, in order_key order
    Replica,    \* orchestrator replicas; all pull from the one durable consumer
    Turn,
    TurnOf,     \* turn_id of an event that has one
    Turnless,   \* events without a turn_id
    Flood,      \* item.*, turn.usage, shell_task.updated: what foldEvent can apply
    Forest,     \* shell_task.* and background-wake boundaries: they tie turns together
    Answer,     \* turn.input_answered
    Backend,    \* events persistBackendEvent writes; the others arrive on the bus
    MaxFaults   \* bound: failed calls and crashes

Event == 1..N

ASSUME RowsAssumption ==
    /\ N \in Nat /\ MaxFaults \in Nat
    /\ TurnOf \in [Event -> Turn]
    /\ Turnless \subseteq Event /\ Flood \subseteq Event /\ Forest \subseteq Event
    /\ Answer \subseteq Event /\ Backend \subseteq Event

VARIABLES
    ledger,     \* session_events
    rows,       \* events reflected in session_transcript_rows
    memo,       \* session_transcript_fold_state: "none", "live" or "disabled"
    folded,     \* events of the memo's turn sets
    horizon,    \* the memo's LastOrderKey
    marker,     \* session_transcript_row_backfills holds the current version
    sent,       \* bus events the consumer has delivered at least once
    acked,      \* bus events the persister acknowledged
    phase,      \* per worker: "idle", "upsert", "refresh" or "ack"
    batch,      \* per worker: events of its batch still to be upserted
    persisted,  \* per worker: events upserted, to be refreshed and acked
    queue,      \* per replica: events waiting for the async refresher
    skipped,    \* history: events a fold passed over although no row has them
    faults

durable == <<ledger, rows, memo, folded, horizon, marker, acked>>
tables  == <<rows, memo, folded, horizon, marker>>
workers == <<phase, batch, persisted, queue>>
vars    == <<ledger, rows, memo, folded, horizon, marker, sent, acked, phase, batch,
             persisted, queue, skipped, faults>>

\* A replica's persister worker for the session, and its async refresh worker.
Worker == Replica \X {"bus", "async"}

Bus == Event \ Backend

TypeOK ==
    /\ ledger \subseteq Event /\ rows \subseteq Event /\ folded \subseteq Event \ Turnless
    /\ memo \in {"none", "live", "disabled"}
    /\ horizon \in 0..N
    /\ marker \in BOOLEAN
    /\ sent \subseteq Bus /\ acked \subseteq Bus
    /\ phase \in [Worker -> {"idle", "upsert", "refresh", "ack"}]
    /\ batch \in [Worker -> SUBSET Event] /\ persisted \in [Worker -> SUBSET Event]
    /\ queue \in [Replica -> SUBSET Event]
    /\ skipped \subseteq Event
    /\ faults \in 0..MaxFaults

Init ==
    /\ ledger = {} /\ rows = {} /\ memo = "none" /\ folded = {} /\ horizon = 0
    /\ marker = FALSE /\ sent = {} /\ acked = {} /\ skipped = {} /\ faults = 0
    /\ phase = [w \in Worker |-> "idle"]
    /\ batch = [w \in Worker |-> {}] /\ persisted = [w \in Worker |-> {}]
    /\ queue = [r \in Replica |-> {}]

----------------------------------------------------------------------------
(* The projection *)

TurnsOf(B) == {TurnOf[e] : e \in B \ Turnless}

InTurns(T) == {e \in Event \ Turnless : TurnOf[e] \in T}

Largest(h, S) == h \in S /\ \A e \in S : e <= h

Fault == faults < MaxFaults /\ faults' = faults + 1

\* resyncSessionTx: project the whole ledger, mark the session backfilled and
\* reseed the memo from the same events; a memo over the size cap is disabled.
Resync ==
    /\ rows' = ledger
    /\ marker' = TRUE
    /\ \/ /\ memo' = "live" /\ folded' = ledger \ Turnless
          /\ \E h \in 0..N : Largest(h, ledger \union {0}) /\ horizon' = h
       \/ memo' = "disabled" /\ folded' = {} /\ horizon' = 0

\* The batch must be projected session-wide: a cross-turn event is in it, or
\* one of its turns holds background work.
SessionScope(B) ==
    \/ B \intersect (Forest \union Answer) # {}
    \/ ledger \intersect Forest \intersect InTurns(TurnsOf(B)) # {}

\* Mutant: the memo survives a turn-scope projection.
ReplaceForTurns_KeepMemo(B) ==
    /\ rows' = (rows \ InTurns(TurnsOf(B))) \union (ledger \intersect InTurns(TurnsOf(B)))
                                            \union (B \intersect Turnless)
    /\ UNCHANGED <<memo, folded, horizon, marker>>

\* Each turn of the batch is projected from the ledger and replaced; turn-less
\* events are projected one by one.  Replacing a turn drops a live memo.
ReplaceForTurns(B) ==
    /\ rows' = (rows \ InTurns(TurnsOf(B))) \union (ledger \intersect InTurns(TurnsOf(B)))
                                            \union (B \intersect Turnless)
    /\ IF memo = "live" /\ TurnsOf(B) # {}
       THEN memo' = "none" /\ folded' = {} /\ horizon' = 0
       ELSE UNCHANGED <<memo, folded, horizon>>
    /\ UNCHANGED marker

\* The events of the batch foldBatch does not pass over as already folded.
Fresh(B) == {e \in B : e > horizon}

\* foldBatch accepts: a live memo, no turn-less event, and nothing fresh that
\* is outside the flood classes.
Foldable(B) == memo = "live" /\ B \intersect Turnless = {} /\ Fresh(B) \subseteq Flood

FoldedRows(B) ==
    LET turns == TurnsOf(Fresh(B))
    IN  (rows \ InTurns(turns)) \union ((folded \union Fresh(B)) \intersect InTurns(turns))

\* The memo takes the fresh events and rewrites the rows of the turns they
\* change; a memo that outgrows the cap is disabled after the rows are written.
Fold(B) ==
    /\ rows' = FoldedRows(B)
    /\ \/ /\ memo' = "live" /\ folded' = folded \union Fresh(B)
          /\ \E h \in 0..N : Largest(h, Fresh(B) \union {horizon}) /\ horizon' = h
       \/ memo' = "disabled" /\ folded' = {} /\ horizon' = 0
    /\ skipped' = skipped \union ((B \ Fresh(B)) \ folded)
    /\ UNCHANGED marker

\* The sampled shadow compare finds a written row that differs from the
\* reference projection of the ledger up to the memo's horizon.
Diverges(B) ==
    \E e \in InTurns(TurnsOf(Fresh(B))) :
        /\ \E h \in Fresh(B) \union {horizon} : e <= h
        /\ (e \in ledger) # (e \in FoldedRows(B))

----------------------------------------------------------------------------
(* Workers *)

\* What the persisters hold and have not acknowledged.
Held == UNION {batch[<<r, "bus">>] \union persisted[<<r, "bus">>] : r \in Replica}

\* Deliveries pulled by one replica: first deliveries come in stream order,
\* whatever was NAKed or lost comes again.  The consumer is shared, so the
\* other replica can hold other events of the session; it holds the same event
\* only when its heartbeats failed to extend the ack deadline.
TakeBatch(r) ==
    /\ phase[<<r, "bus">>] = "idle"
    /\ \E B \in SUBSET (Bus \ acked) :
        /\ B # {}
        /\ \A e \in B, f \in Bus : f < e => f \in sent \union B
        /\ IF B \intersect Held = {} THEN UNCHANGED faults ELSE Fault
        /\ batch' = [batch EXCEPT ![<<r, "bus">>] = B]
        /\ sent' = sent \union B
    /\ phase' = [phase EXCEPT ![<<r, "bus">>] = "upsert"]
    /\ UNCHANGED <<durable, persisted, queue, skipped>>

\* Mutant: a duplicate is not carried on to the refresh and the ack.
UpsertEvent_DropDuplicate(w) ==
    /\ phase[w] = "upsert" /\ batch[w] # {}
    /\ \E e \in batch[w] :
           /\ \A f \in batch[w] : e <= f
           /\ ledger' = ledger \union {e}
           /\ batch' = [batch EXCEPT ![w] = @ \ {e}]
           /\ persisted' = [persisted EXCEPT ![w] = @ \union ({e} \ ledger)]
    /\ UNCHANGED <<tables, sent, acked, phase, queue, skipped, faults>>

\* Upsert of the batch's next event; a duplicate is kept in the batch too.
UpsertEvent(w) ==
    /\ phase[w] = "upsert" /\ batch[w] # {}
    /\ \E e \in batch[w] :
           /\ \A f \in batch[w] : e <= f
           /\ ledger' = ledger \union {e}
           /\ batch' = [batch EXCEPT ![w] = @ \ {e}]
           /\ persisted' = [persisted EXCEPT ![w] = @ \union {e}]
    /\ UNCHANGED <<tables, sent, acked, phase, queue, skipped, faults>>

\* A transient upsert error NAKs that event alone and goes on with the rest.
UpsertFails(w) ==
    /\ phase[w] = "upsert" /\ batch[w] # {} /\ Fault
    /\ \E e \in batch[w] :
           /\ \A f \in batch[w] : e <= f
           /\ batch' = [batch EXCEPT ![w] = @ \ {e}]
    /\ UNCHANGED <<durable, sent, phase, persisted, queue, skipped>>

BatchUpserted(w) ==
    /\ phase[w] = "upsert" /\ batch[w] = {}
    /\ phase' = [phase EXCEPT ![w] = IF persisted[w] = {} THEN "idle" ELSE "refresh"]
    /\ UNCHANGED <<durable, sent, batch, persisted, queue, skipped, faults>>

\* After RefreshEventBatch the persister goes on to wake and ack; the async
\* worker is done with its events.
Refreshed(w) ==
    IF w[2] = "bus"
    THEN phase' = [phase EXCEPT ![w] = "ack"] /\ UNCHANGED persisted
    ELSE /\ phase' = [phase EXCEPT ![w] = "idle"]
         /\ persisted' = [persisted EXCEPT ![w] = {}]

RefreshFold(w) ==
    /\ phase[w] = "refresh" /\ Foldable(persisted[w])
    /\ Fold(persisted[w])
    /\ Refreshed(w)
    /\ UNCHANGED <<ledger, sent, acked, batch, queue, faults>>

\* A sampled fold that diverged is healed in its own transaction.
RefreshShadowed(w) ==
    /\ phase[w] = "refresh" /\ Foldable(persisted[w]) /\ Diverges(persisted[w])
    /\ Resync
    /\ Refreshed(w)
    /\ UNCHANGED <<ledger, sent, acked, batch, queue, skipped, faults>>

\* The reference path: the fold is not applicable, or a flood event is outside
\* its envelope (an evicted item, an unknown task or wake parent).
RefreshReference(w) ==
    /\ phase[w] = "refresh"
    /\ IF SessionScope(persisted[w]) THEN Resync ELSE ReplaceForTurns(persisted[w])
    /\ Refreshed(w)
    /\ UNCHANGED <<ledger, sent, acked, batch, queue, skipped, faults>>

Ack(w) ==
    /\ phase[w] = "ack"
    /\ acked' = acked \union persisted[w]
    /\ phase' = [phase EXCEPT ![w] = "idle"]
    /\ persisted' = [persisted EXCEPT ![w] = {}]
    /\ UNCHANGED <<ledger, tables, sent, batch, queue, skipped, faults>>

\* Mutant: a batch whose refresh failed is acknowledged.
Drop_Acked(w) ==
    /\ phase[w] # "idle" /\ Fault
    /\ acked' = acked \union (persisted[w] \intersect Bus)
    /\ phase' = [phase EXCEPT ![w] = "idle"]
    /\ batch' = [batch EXCEPT ![w] = {}] /\ persisted' = [persisted EXCEPT ![w] = {}]
    /\ UNCHANGED <<ledger, tables, sent, queue, skipped>>

\* A failed refresh or wake NAKs the persister's batch, a crash loses it: it is
\* redelivered.  The async worker only logs a failed refresh.
Drop(w) ==
    /\ phase[w] # "idle" /\ Fault
    /\ phase' = [phase EXCEPT ![w] = "idle"]
    /\ batch' = [batch EXCEPT ![w] = {}] /\ persisted' = [persisted EXCEPT ![w] = {}]
    /\ UNCHANGED <<durable, sent, queue, skipped>>

\* persistBackendEvent: the ledger row, then the replica's refresh queue.
PersistBackendEvent(r) ==
    /\ \E e \in Backend \ ledger :
        /\ ledger' = ledger \union {e}
        /\ queue' = [queue EXCEPT ![r] = @ \union {e}]
    /\ UNCHANGED <<tables, sent, acked, phase, batch, persisted, skipped, faults>>

\* asyncTranscriptRefresher.runWorker takes the whole queue.
TakeQueue(r) ==
    /\ phase[<<r, "async">>] = "idle" /\ queue[r] # {}
    /\ phase' = [phase EXCEPT ![<<r, "async">>] = "refresh"]
    /\ persisted' = [persisted EXCEPT ![<<r, "async">>] = queue[r]]
    /\ queue' = [queue EXCEPT ![r] = {}]
    /\ UNCHANGED <<durable, sent, batch, skipped, faults>>

\* A read of the transcript: NeedsBackfill compares only the marker's version.
EnsureSession ==
    /\ ~marker
    /\ Resync
    /\ UNCHANGED <<ledger, sent, acked, workers, skipped, faults>>

----------------------------------------------------------------------------
(* Specification *)

Next ==
    \/ \E r \in Replica : TakeBatch(r) \/ PersistBackendEvent(r) \/ TakeQueue(r)
    \/ \E w \in Worker : UpsertEvent(w) \/ UpsertFails(w) \/ BatchUpserted(w)
                         \/ RefreshFold(w) \/ RefreshShadowed(w) \/ RefreshReference(w)
                         \/ Ack(w) \/ Drop(w)
    \/ EnsureSession

Spec == Init /\ [][Next]_vars

\* The consumer redelivers what is not acknowledged, a started batch runs to
\* its end, the async worker drains its queue, and somebody reads the session.
\* No fairness for faults or for what the backend submits.
FairSpec ==
    /\ Spec
    /\ \A r \in Replica : WF_vars(TakeBatch(r)) /\ WF_vars(TakeQueue(r))
    /\ \A w \in Worker :
        WF_vars(UpsertEvent(w) \/ BatchUpserted(w) \/ RefreshFold(w) \/ RefreshShadowed(w)
                \/ RefreshReference(w) \/ Ack(w))
    /\ WF_vars(EnsureSession)

----------------------------------------------------------------------------
(* Properties *)

\* A row never shows an event the ledger does not have: every refresh runs
\* after the upserts of its batch, on events whose upsert succeeded.
RowsAreDurable == rows \subseteq ledger

\* The fold memo describes the rows stored with it: whenever it is live, each
\* turn event is in its turn sets exactly when a row reflects it, so a shell
\* rebuilt from the memo equals the one it replaces plus the new events.
MemoMatchesRows == memo = "live" => folded = rows \ Turnless

\* The only way for an acknowledged event to be missing from the rows is the
\* guard of foldBatch that passes over an order_key at or below LastOrderKey:
\* no interleaving of folds, replacements, resyncs and failures loses another.
OnlySkippedAreMissing == acked \ rows \subseteq skipped

\* No refresh, by whichever path and after whichever failure, takes an event
\* out of the transcript that an earlier refresh put there.
RowsNeverRegress == [][rows \subseteq rows']_vars

\* Every event published on the bus is acknowledged in the end, and by then
\* a row reflects it or a fold passed over it.
BusEventsSettle == \A e \in Bus : <>[](e \in acked /\ (e \in rows \/ e \in skipped))

\* The stored transcript against the ledger, through concurrent refreshes of two
\* replicas: no row ahead of the ledger, no memo that belies its rows, and no
\* acknowledged event missing but for the guard of foldBatch.
RowsSafe == TypeOK /\ RowsAreDurable /\ MemoMatchesRows /\ OnlySkippedAreMissing
=============================================================================
