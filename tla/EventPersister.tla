--------------------------- MODULE EventPersister ---------------------------
(***************************************************************************)
(* The session-bus persister: every replica pulls from one durable         *)
(* JetStream consumer, routes deliveries into per-session serial queues    *)
(* worked off by a bounded pool, and for each batch upserts the events,    *)
(* refreshes the transcript rows, wakes readers, emits activity deltas and *)
(* acknowledges.  Deliveries that run out of attempts are repaired out of  *)
(* band from the MAX_DELIVERIES advisory and by a reconciler that runs     *)
(* when a persister starts.                                                *)
(*                                                                         *)
(* Events are numbered by stream sequence.  The rows are abstracted to the *)
(* events the last refreshes covered (TranscriptRows looks inside).        *)
(***************************************************************************)
EXTENDS Naturals, Sequences, FiniteSets

CONSTANTS
    N,              \* events 1..N of the stream
    Streams,        \* the streams considered: what each of the events may be
    Session, SessionOf,
    Replica,
    Late,           \* replicas that start after the stream is in use
    Workers,        \* worker slots of a dispatcher
    MaxBatch,
    MaxDeliver,     \* deliveries before the consumer gives a message up
    MaxFaults       \* bound: crashes, failed repairs, lost heartbeats, acks and
                    \* deltas; the failures of a batch use up a delivery each

Event == 1..N

\* A good event, one that is not JSON, one that its schema rejects.
Kind == {"ok", "garbled", "rejected"}

ASSUME PersisterAssumption ==
    /\ N \in Nat /\ MaxFaults \in Nat
    /\ Workers \in Nat \ {0} /\ MaxBatch \in Nat \ {0} /\ MaxDeliver \in Nat \ {0}
    /\ Late \subseteq Replica
    /\ SessionOf \in [Event -> Session]
    /\ Streams \subseteq [Event -> Kind]

VARIABLES
    kind,       \* what each event is
    stream,     \* consumer state of each message
    tries,      \* NumDelivered
    ledger, projected, shown,   \* session_events, rows, what the last wake made visible
    emitted,    \* ledger events the last activity refresh of their session took in
    counted,    \* events whose repair was reported failed
    unrepaired, \* events a reconciler logged it could not upsert or did not reach
    up,         \* per replica: "down", "reconciling" or "running"
    queue, worker, batch, persisted, inserted,  \* per replica and session
    scan,       \* per replica: the reconciler's window still to visit
    advisory,   \* per replica: MAX_DELIVERIES advisories not yet handled
    repair,     \* per replica: the out-of-band repair in progress
    faults

consumer == <<stream, tries>>
tables   == <<ledger, projected, shown, emitted>>
report   == <<counted, unrepaired>>
sideways == <<scan, advisory, repair>>
dispatch == <<queue, worker, batch, persisted, inserted>>
vars     == <<kind, stream, tries, ledger, projected, shown, emitted, counted, unrepaired, up,
              queue, worker, batch, persisted, inserted, scan, advisory, repair, faults>>

NoRepair == <<"none", 0>>

Working == {"upsert", "refresh", "wake", "emit", "ack"}

ConsumerOK ==
    /\ kind \in [Event -> Kind]
    /\ stream \in [Event -> {"ready", "out", "acked", "termed", "exhausted"}]
    /\ tries \in [Event -> 0..MaxDeliver]
    /\ faults \in 0..MaxFaults

TablesOK ==
    /\ ledger \subseteq Event /\ projected \subseteq Event /\ shown \subseteq Event
    /\ emitted \subseteq Event /\ counted \subseteq Event /\ unrepaired \subseteq Event

DispatchOK ==
    /\ queue \in [Replica -> [Session -> Seq(Event)]]
    /\ worker \in [Replica -> [Session -> {"none", "slot", "loop"} \union Working]]
    /\ batch \in [Replica -> [Session -> Seq(Event)]]
    /\ persisted \in [Replica -> [Session -> SUBSET Event]]
    /\ inserted \in [Replica -> [Session -> SUBSET Event]]

RepairOK ==
    /\ up \in [Replica -> {"down", "reconciling", "running"}]
    /\ scan \in [Replica -> SUBSET Event] /\ advisory \in [Replica -> SUBSET Event]
    /\ repair \in [Replica -> {NoRepair} \union ({"refresh", "wake"} \X Event)]

TypeOK == ConsumerOK /\ TablesOK /\ DispatchOK /\ RepairOK

Init ==
    /\ kind \in Streams
    /\ stream = [e \in Event |-> "ready"] /\ tries = [e \in Event |-> 0]
    /\ ledger = {} /\ projected = {} /\ shown = {} /\ emitted = {}
    /\ counted = {} /\ unrepaired = {}
    /\ up = [r \in Replica |-> IF r \in Late THEN "down" ELSE "running"]
    /\ queue = [r \in Replica |-> [s \in Session |-> <<>>]]
    /\ worker = [r \in Replica |-> [s \in Session |-> "none"]]
    /\ batch = [r \in Replica |-> [s \in Session |-> <<>>]]
    /\ persisted = [r \in Replica |-> [s \in Session |-> {}]]
    /\ inserted = [r \in Replica |-> [s \in Session |-> {}]]
    /\ scan = [r \in Replica |-> {}] /\ advisory = [r \in Replica |-> {}]
    /\ repair = [r \in Replica |-> NoRepair]
    /\ faults = 0

----------------------------------------------------------------------------
(* Helpers *)

Fault == faults < MaxFaults /\ faults' = faults + 1

Elements(q) == {q[i] : i \in 1..Len(q)}

\* Deliveries a replica's heartbeat loop keeps extending.
Pending(r) == UNION {Elements(queue[r][s]) \union Elements(batch[r][s]) \union persisted[r][s]
                     : s \in Session}

\* A slot of the dispatcher is held from its acquisition until the worker exits.
Busy(r) == {s \in Session : worker[r][s] \notin {"none", "slot"}}

Step(r, s, label) == worker' = [worker EXCEPT ![r][s] = label]

\* Messages handed back to the consumer: redelivered, or exhausted with an
\* advisory to every subscribed replica.
Return(E) ==
    LET open == {e \in E : stream[e] = "out"}
        dead == {e \in open : tries[e] = MaxDeliver}
    IN  /\ stream' = [e \in Event |-> IF e \in dead THEN "exhausted"
                                      ELSE IF e \in open THEN "ready" ELSE stream[e]]
        /\ advisory' = [r \in Replica |-> IF up[r] = "running" THEN advisory[r] \union dead
                                          ELSE advisory[r]]

\* An ack or a term: the server takes that of any copy of a message it has
\* neither closed nor given up.
Close(E, how) ==
    stream' = [e \in Event |-> IF e \in E /\ stream[e] \in {"out", "ready"} THEN how ELSE stream[e]]

\* Upsert: reports whether the row is new; a schema error stores nothing.
Store(e) == ledger' = ledger \union {e}

\* A wake makes readers take up whatever the rows hold now.
Wake == shown' = projected

----------------------------------------------------------------------------
(* The dispatcher *)

\* enqueue, on a delivery of the consumer (first deliveries come in stream
\* order, redeliveries at any time): invalid JSON is terminated, anything
\* else is appended to its session's queue, starting a worker if there is none.
Enqueue(r, e) ==
    /\ up[r] = "running" /\ stream[e] = "ready"
    /\ tries[e] = 0 => \A f \in Event : f < e => tries[f] > 0
    /\ tries' = [tries EXCEPT ![e] = @ + 1]
    /\ IF kind[e] = "garbled"
       THEN /\ stream' = [stream EXCEPT ![e] = "termed"]
            /\ UNCHANGED <<queue, worker>>
       ELSE /\ stream' = [stream EXCEPT ![e] = "out"]
            /\ queue' = [queue EXCEPT ![r][SessionOf[e]] = Append(@, e)]
            /\ worker' = [worker EXCEPT ![r][SessionOf[e]] = IF @ = "none" THEN "slot" ELSE @]
    /\ UNCHANGED <<kind, tables, report, up, batch, persisted, inserted, sideways, faults>>

TakeSlot(r, s) ==
    /\ worker[r][s] = "slot" /\ Cardinality(Busy(r)) < Workers
    /\ Step(r, s, "loop")
    /\ UNCHANGED <<kind, consumer, tables, report, up, queue, batch, persisted, inserted,
                   sideways, faults>>

\* Mutant: the worker also leaves when one delivery is left.
TakeBatch_LeavesOne(r, s) ==
    /\ worker[r][s] = "loop"
    /\ LET q == queue[r][s]
       IN  IF Len(q) <= 1
           THEN Step(r, s, "none") /\ UNCHANGED <<queue, batch>>
           ELSE /\ Step(r, s, "upsert")
                /\ batch' = [batch EXCEPT ![r][s] = q]
                /\ queue' = [queue EXCEPT ![r][s] = <<>>]
    /\ UNCHANGED <<kind, consumer, tables, report, up, persisted, inserted, sideways, faults>>

\* runWorker's loop: leave when the queue is empty, else cut off a batch.  Both
\* happen under the dispatcher's mutex.
TakeBatch(r, s) ==
    /\ worker[r][s] = "loop"
    /\ LET q == queue[r][s]
           n == IF Len(q) > MaxBatch THEN MaxBatch ELSE Len(q)
       IN  IF q = <<>>
           THEN Step(r, s, "none") /\ UNCHANGED <<queue, batch>>
           ELSE /\ Step(r, s, "upsert")
                /\ batch' = [batch EXCEPT ![r][s] = SubSeq(q, 1, n)]
                /\ queue' = [queue EXCEPT ![r][s] = SubSeq(q, n + 1, Len(q))]
    /\ UNCHANGED <<kind, consumer, tables, report, up, persisted, inserted, sideways, faults>>

\* The head of the batch is dealt with; after the last one the batch goes on
\* to its refresh, or back to the loop if nothing was persisted.
EventDone(r, s, kept) ==
    /\ batch' = [batch EXCEPT ![r][s] = Tail(@)]
    /\ persisted' = [persisted EXCEPT ![r][s] = kept]
    /\ Step(r, s, IF Len(batch[r][s]) > 1 THEN "upsert" ELSE IF kept = {} THEN "loop" ELSE "refresh")

\* processBatch, one event: a schema error terminates it, else it is upserted.
UpsertEvent(r, s) ==
    /\ worker[r][s] = "upsert"
    /\ LET e == Head(batch[r][s])
       IN  IF kind[e] = "rejected"
           THEN /\ Close({e}, "termed")
                /\ EventDone(r, s, persisted[r][s])
                /\ UNCHANGED <<ledger, inserted>>
           ELSE /\ Store(e)
                /\ EventDone(r, s, persisted[r][s] \union {e})
                /\ inserted' = [inserted EXCEPT ![r][s] = @ \union ({e} \ ledger)]
                /\ UNCHANGED stream
    /\ UNCHANGED <<kind, tries, projected, shown, emitted, report, up, queue, sideways, faults>>

\* A transient upsert error: this event alone is NAKed.
UpsertFails(r, s) ==
    /\ worker[r][s] = "upsert"
    /\ Return({Head(batch[r][s])})
    /\ EventDone(r, s, persisted[r][s])
    /\ UNCHANGED <<kind, tries, tables, report, up, queue, inserted, scan, repair, faults>>

Refresh(r, s) ==
    /\ worker[r][s] = "refresh"
    /\ projected' = projected \union persisted[r][s]
    /\ Step(r, s, "wake")
    /\ UNCHANGED <<kind, consumer, ledger, shown, emitted, report, up, queue, batch, persisted,
                   inserted, sideways, faults>>

PublishWake(r, s) ==
    /\ worker[r][s] = "wake"
    /\ Wake
    /\ Step(r, s, "emit")
    /\ UNCHANGED <<kind, consumer, ledger, projected, emitted, report, up, queue, batch,
                   persisted, inserted, sideways, faults>>

Settle(r, s) ==
    /\ persisted' = [persisted EXCEPT ![r][s] = {}]
    /\ inserted' = [inserted EXCEPT ![r][s] = {}]

\* A failed refresh or wake NAKs the whole persisted batch.
BatchFails(r, s) ==
    /\ worker[r][s] \in {"refresh", "wake"}
    /\ Return(persisted[r][s])
    /\ Settle(r, s)
    /\ Step(r, s, "loop")
    /\ UNCHANGED <<kind, tries, tables, report, up, queue, batch, scan, repair, faults>>

\* EmitChatActivityDelta recomputes the session's indicators from the ledger,
\* but only when the batch inserted something; its error is only logged.
EmitDeltas(r, s) ==
    /\ worker[r][s] = "emit"
    /\ \/ /\ inserted[r][s] # {}
          /\ emitted' = emitted \union {e \in ledger : SessionOf[e] = s}
          /\ UNCHANGED faults
       \/ inserted[r][s] # {} /\ Fault /\ UNCHANGED emitted
       \/ inserted[r][s] = {} /\ UNCHANGED <<emitted, faults>>
    /\ Step(r, s, "ack")
    /\ UNCHANGED <<kind, consumer, ledger, projected, shown, report, up, queue, batch,
                   persisted, inserted, sideways>>

\* An ack that does not get through is logged and the batch settled all the same.
Ack(r, s) ==
    /\ worker[r][s] = "ack"
    /\ \/ Close(persisted[r][s], "acked") /\ UNCHANGED faults
       \/ Fault /\ UNCHANGED stream
    /\ Settle(r, s)
    /\ Step(r, s, "loop")
    /\ UNCHANGED <<kind, tries, tables, report, up, queue, batch, sideways>>

----------------------------------------------------------------------------
(* The consumer's ack deadline, crashes and restarts *)

\* AckWait runs out: for a message no live dispatcher heartbeats, or for a held
\* one when the heartbeats do not get through.
AckWaitExpires(e) ==
    /\ stream[e] = "out"
    /\ IF \E r \in Replica : e \in Pending(r) THEN Fault ELSE UNCHANGED faults
    /\ Return({e})
    /\ UNCHANGED <<kind, tries, tables, report, up, dispatch, scan, repair>>

\* The process dies: queues, workers and unhandled advisories are gone.
Crash(r) ==
    /\ up[r] # "down" /\ Fault
    /\ up' = [up EXCEPT ![r] = "down"]
    /\ queue' = [queue EXCEPT ![r] = [s \in Session |-> <<>>]]
    /\ worker' = [worker EXCEPT ![r] = [s \in Session |-> "none"]]
    /\ batch' = [batch EXCEPT ![r] = [s \in Session |-> <<>>]]
    /\ persisted' = [persisted EXCEPT ![r] = [s \in Session |-> {}]]
    /\ inserted' = [inserted EXCEPT ![r] = [s \in Session |-> {}]]
    /\ scan' = [scan EXCEPT ![r] = {}] /\ advisory' = [advisory EXCEPT ![r] = {}]
    /\ repair' = [repair EXCEPT ![r] = NoRepair]
    /\ UNCHANGED <<kind, consumer, tables, report>>

\* Messages after the ack floor that were delivered at least once.
Window ==
    {e \in Event : /\ \E f \in Event : f <= e /\ stream[f] \notin {"acked", "termed"}
                   /\ \E f \in Event : f >= e /\ tries[f] > 0}

\* Mutant: only what is still outstanding is scanned, not what was given up.
Restart_NoExhausted(r) ==
    /\ up[r] = "down"
    /\ up' = [up EXCEPT ![r] = "reconciling"]
    /\ scan' = [scan EXCEPT ![r] = {e \in Window : stream[e] # "exhausted"}]
    /\ UNCHANGED <<kind, consumer, tables, report, dispatch, advisory, repair, faults>>

\* RunEventPersister starts: reconcilePersisterGaps reads its window first.
Restart(r) ==
    /\ up[r] = "down"
    /\ up' = [up EXCEPT ![r] = "reconciling"]
    /\ scan' = [scan EXCEPT ![r] = Window]
    /\ UNCHANGED <<kind, consumer, tables, report, dispatch, advisory, repair, faults>>

\* The scan visits the next message: an undecodable one is passed over, a
\* rejected one logged; a row that is already there is passed over too, and
\* only a new one goes on to its refresh.
ReconcileNext(r) ==
    /\ up[r] = "reconciling" /\ repair[r] = NoRepair
    /\ \E e \in scan[r] :
        /\ \A f \in scan[r] : e <= f
        /\ scan' = [scan EXCEPT ![r] = @ \ {e}]
        /\ unrepaired' = unrepaired \union (IF kind[e] = "rejected" THEN {e} ELSE {})
        /\ IF kind[e] = "ok" /\ e \notin ledger
           THEN Store(e) /\ repair' = [repair EXCEPT ![r] = <<"refresh", e>>]
           ELSE UNCHANGED <<ledger, repair>>
    /\ UNCHANGED <<kind, consumer, projected, shown, emitted, counted, up, dispatch, advisory,
                   faults>>

\* An upsert of the scan fails, or the scan itself is broken off, with a log line.
ReconcileFails(r) ==
    /\ up[r] = "reconciling" /\ repair[r] = NoRepair /\ Fault
    /\ \E e \in scan[r], missed \in SUBSET scan[r] :
        /\ \A f \in scan[r] : e <= f
        /\ missed \in {{e}, scan[r]}
        /\ scan' = [scan EXCEPT ![r] = @ \ missed]
        /\ unrepaired' = unrepaired \union missed
    /\ UNCHANGED <<kind, consumer, tables, counted, up, dispatch, advisory, repair>>

\* The scan is over: subscribe to the advisories and consume.
Consume(r) ==
    /\ up[r] = "reconciling" /\ repair[r] = NoRepair /\ scan[r] = {}
    /\ up' = [up EXCEPT ![r] = "running"]
    /\ UNCHANGED <<kind, consumer, tables, report, dispatch, sideways, faults>>

\* handleMaxDeliveriesAdvisory fetches the message and starts persistOutOfBand,
\* which upserts it (again, if it is there already).
HandleAdvisory(r) ==
    /\ up[r] = "running" /\ repair[r] = NoRepair
    /\ \E e \in advisory[r] :
        /\ advisory' = [advisory EXCEPT ![r] = @ \ {e}]
        /\ IF kind[e] = "ok"
           THEN /\ Store(e) /\ repair' = [repair EXCEPT ![r] = <<"refresh", e>>]
                /\ UNCHANGED counted
           ELSE counted' = counted \union {e} /\ UNCHANGED <<ledger, repair>>
    /\ UNCHANGED <<kind, consumer, projected, shown, emitted, unrepaired, up, dispatch, scan,
                   faults>>

\* The tail of a repair, the reconciler's too: refresh, then wake; no deltas.
RepairStep(r) ==
    /\ \/ /\ repair[r][1] = "refresh"
          /\ projected' = projected \union {repair[r][2]}
          /\ repair' = [repair EXCEPT ![r][1] = "wake"]
          /\ UNCHANGED shown
       \/ /\ repair[r][1] = "wake"
          /\ Wake
          /\ repair' = [repair EXCEPT ![r] = NoRepair]
          /\ UNCHANGED projected
    /\ UNCHANGED <<kind, consumer, ledger, emitted, report, up, dispatch, scan, advisory, faults>>

\* Mutant: a failed fetch or upsert is only logged.
AdvisoryFails_Uncounted(r) ==
    /\ up[r] = "running" /\ repair[r] = NoRepair /\ Fault
    /\ \E e \in advisory[r] : advisory' = [advisory EXCEPT ![r] = @ \ {e}]
    /\ UNCHANGED <<kind, consumer, tables, report, up, dispatch, scan, repair>>

\* A repair from an advisory fails in its fetch or upsert.
AdvisoryFails(r) ==
    /\ up[r] = "running" /\ repair[r] = NoRepair /\ Fault
    /\ \E e \in advisory[r] :
        /\ advisory' = [advisory EXCEPT ![r] = @ \ {e}]
        /\ counted' = counted \union {e}
    /\ UNCHANGED <<kind, consumer, tables, unrepaired, up, dispatch, scan, repair>>

\* It fails in its refresh or wake: the advisory path counts that too, the
\* reconciler logs it.
RepairFails(r) ==
    /\ repair[r] # NoRepair /\ Fault
    /\ counted' = IF up[r] = "running" THEN counted \union {repair[r][2]} ELSE counted
    /\ repair' = [repair EXCEPT ![r] = NoRepair]
    /\ UNCHANGED <<kind, consumer, tables, unrepaired, up, dispatch, scan, advisory>>

----------------------------------------------------------------------------
(* Specification *)

WorkerStep(r, s) ==
    \/ TakeSlot(r, s) \/ TakeBatch(r, s) \/ UpsertEvent(r, s) \/ Refresh(r, s)
    \/ PublishWake(r, s) \/ EmitDeltas(r, s) \/ Ack(r, s)

StartStep(r) == Restart(r) \/ ReconcileNext(r) \/ Consume(r)

RepairWork(r) == HandleAdvisory(r) \/ RepairStep(r)

Next ==
    \/ \E r \in Replica, e \in Event : Enqueue(r, e)
    \/ \E r \in Replica, s \in Session :
         WorkerStep(r, s) \/ UpsertFails(r, s) \/ BatchFails(r, s)
    \/ \E e \in Event : AckWaitExpires(e)
    \/ \E r \in Replica :
         \/ StartStep(r) \/ RepairWork(r)
         \/ Crash(r) \/ ReconcileFails(r) \/ AdvisoryFails(r) \/ RepairFails(r)

Spec == Init /\ [][Next]_vars

\* The consumer delivers what is ready and times out what nobody holds, the
\* goroutines run, and a crashed pod (or a persister that returned) is
\* restarted.  No fairness for faults.
FairSpec ==
    /\ Spec
    /\ \A e \in Event : WF_vars((\E r \in Replica : Enqueue(r, e)))
    /\ \A e \in Event : WF_vars(~(\E r \in Replica : e \in Pending(r)) /\ AckWaitExpires(e))
    /\ \A r \in Replica, s \in Session : WF_vars(WorkerStep(r, s))
    /\ \A r \in Replica : WF_vars(StartStep(r)) /\ WF_vars(RepairWork(r))

----------------------------------------------------------------------------
(* Properties *)

\* Deliveries wait in a queue only while the session's worker is alive to take
\* them: the worker's exit and a concurrent enqueue never leave one behind.
NoStrandedQueue ==
    \A r \in Replica, s \in Session : queue[r][s] # <<>> => worker[r][s] # "none"

\* The consumer forgets a message only when its event is durable, in the rows,
\* and readers were woken after that refresh.
AckedIsVisible ==
    \A e \in Event : stream[e] = "acked" => e \in ledger \intersect projected \intersect shown

\* The persister, its repair paths included, keeps the promise of EventDelivery.
stage == [e \in Event |-> IF e \in shown THEN 3 ELSE IF e \in projected THEN 2
                          ELSE IF e \in ledger THEN 1 ELSE 0]

Delivery == INSTANCE EventDelivery WITH
    Event <- Event, stage <- stage,
    rejected <- {e \in Event : stream[e] = "termed"},
    done <- {e \in Event : stream[e] = "acked"},
    gaveUp <- counted \union unrepaired

DeliversEvents == Delivery!Spec

\* The persister through crashes, failures and redeliveries: no delivery waits for
\* a worker that is gone, and what is acknowledged is durable, in the rows and shown.
PersisterSafe == TypeOK /\ NoStrandedQueue /\ AckedIsVisible
=============================================================================
