---------------------------- MODULE Rows_proof -----------------------------
(***************************************************************************)
(* Proofs about the rows of transcripts (TranscriptRows) and of sessions   *)
(* (SessionRow), for any constants that satisfy their assumptions.  The two *)
(* do not share state, so each has its own invariant.                      *)
(***************************************************************************)
EXTENDS TranscriptRows, SessionRow, TLAPS

-----------------------------------------------------------------------------
(* Transcript rows: a live memo describes the rows, so no refresh takes an *)
(* event away; what a worker has refreshed is therefore shown or was       *)
(* passed over, and stays so until it is acknowledged.                     *)

\* Where a worker's events come from and what its phase promises about them.
WorkerInv ==
    /\ \A w \in Worker :
        /\ persisted[w] \subseteq ledger
        /\ phase[w] = "ack" => persisted[w] \subseteq rows \union skipped
        /\ w[2] = "bus" => batch[w] \subseteq Bus /\ persisted[w] \subseteq Bus
        /\ w[2] = "async" => batch[w] = {} /\ phase[w] \in {"idle", "refresh"}
    /\ \A r \in Replica : queue[r] \subseteq ledger

\* Strengthening of the safety invariants that is preserved by every step.
IndInv ==
    /\ TypeOK
    /\ RowsAreDurable
    /\ MemoMatchesRows
    /\ OnlySkippedAreMissing
    /\ WorkerInv

\* What every refresh guarantees about the tables, whichever path it takes.
TablesOK ==
    /\ rows \subseteq rows'
    /\ rows' \subseteq ledger
    /\ folded' \subseteq Event \ Turnless
    /\ memo' \in {"none", "live", "disabled"}
    /\ horizon' \in 0..N
    /\ marker' \in BOOLEAN
    /\ memo' = "live" => folded' = rows' \ Turnless

\* Events with a turn are among the events of the turns of their batch.
LEMMA BatchInItsTurns ==
    ASSUME NEW B \in SUBSET Event
    PROVE  B \ Turnless \subseteq InTurns(TurnsOf(B))
BY DEF InTurns, TurnsOf

\* A session re-projection shows the whole ledger.
LEMMA ResyncTables ==
    ASSUME TypeOK, RowsAreDurable, Resync
    PROVE  TablesOK /\ ledger \subseteq rows'
<1>1. marker' \in BOOLEAN
  BY Zenon DEF Resync
<1>2. horizon' \in 0..N /\ memo' \in {"live", "disabled"}
  BY RowsAssumption DEF Resync
<1>3. rows' = ledger /\ (memo' = "live" => folded' = rows' \ Turnless)
  BY DEF Resync
<1>4. folded' \subseteq Event \ Turnless
  BY DEF Resync, TypeOK
<1> QED
  BY <1>1, <1>2, <1>3, <1>4 DEF RowsAreDurable, TablesOK

\* Replacing the turns of a batch shows the batch and loses nothing.
LEMMA ReplaceTables ==
    ASSUME TypeOK, RowsAreDurable, MemoMatchesRows,
           NEW B \in SUBSET ledger, ReplaceForTurns(B)
    PROVE  TablesOK /\ B \subseteq rows'
<1> DEFINE I == InTurns(TurnsOf(B))
<1>1. B \in SUBSET Event
  BY DEF TypeOK
<1>2. B \ Turnless \subseteq I
  BY <1>1, BatchInItsTurns
<1>3. rows' = (rows \ I) \union (ledger \intersect I) \union (B \intersect Turnless)
  BY DEF ReplaceForTurns
<1>4. rows \subseteq rows' /\ rows' \subseteq ledger /\ B \subseteq rows'
  BY <1>2, <1>3 DEF RowsAreDurable
<1>5. CASE memo = "live" /\ TurnsOf(B) # {}
  BY <1>4, <1>5, RowsAssumption DEF ReplaceForTurns, TypeOK, TablesOK
<1>6. CASE ~(memo = "live" /\ TurnsOf(B) # {})
  <2>1. UNCHANGED <<memo, folded, horizon, marker>>
    BY <1>6 DEF ReplaceForTurns
  <2>2. ASSUME memo = "live" PROVE folded = rows' \ Turnless
    <3>1. I = {}
      BY <1>6, <2>2 DEF InTurns
    <3> QED
      BY <1>3, <2>2, <3>1 DEF MemoMatchesRows
  <2> QED
    BY <1>4, <2>1, <2>2 DEF TypeOK, TablesOK
<1> QED
  BY <1>5, <1>6

\* A fold shows its fresh events, and loses nothing because the memo it
\* rebuilds the shells from describes the rows it replaces.
LEMMA FoldTables ==
    ASSUME TypeOK, RowsAreDurable, MemoMatchesRows,
           NEW B \in SUBSET ledger, Foldable(B), Fold(B)
    PROVE  TablesOK /\ B \subseteq rows' \union skipped' /\ skipped \subseteq skipped'
           /\ skipped' \subseteq Event
<1> DEFINE F == Fresh(B)
           I == InTurns(TurnsOf(F))
<1>1. F \in SUBSET Event /\ F \subseteq B /\ F \intersect Turnless = {}
  BY DEF TypeOK, Fresh, Foldable
<1>2. F \subseteq I /\ I \intersect Turnless = {}
  BY <1>1, BatchInItsTurns DEF InTurns
<1>3. rows' = (rows \ I) \union ((folded \union F) \intersect I)
  BY DEF Fold, FoldedRows
<1>4. folded = rows \ Turnless
  BY DEF Foldable, MemoMatchesRows
<1>5. rows \subseteq rows' /\ rows' \subseteq ledger /\ F \subseteq rows'
  BY <1>1, <1>2, <1>3, <1>4 DEF RowsAreDurable
<1>6. rows' \ Turnless = folded \union F
  BY <1>1, <1>2, <1>3, <1>4
<1>7. skipped' = skipped \union ((B \ F) \ folded)
  BY DEF Fold
<1>8. B \subseteq rows' \union skipped' /\ skipped \subseteq skipped' /\ skipped' \subseteq Event
  BY <1>4, <1>5, <1>7 DEF TypeOK
<1>9. TablesOK
  <2>1. marker' \in BOOLEAN
    BY DEF Fold, TypeOK
  <2>2. horizon' \in 0..N /\ memo' \in {"live", "disabled"}
    BY RowsAssumption DEF Fold
  <2>3. folded' \subseteq Event \ Turnless
    BY <1>1 DEF Fold, TypeOK
  <2>4. memo' = "live" => folded' = rows' \ Turnless
    BY <1>6 DEF Fold
  <2> QED
    BY <1>5, <2>1, <2>2, <2>3, <2>4 DEF TablesOK
<1> QED
  BY <1>8, <1>9

\* The empty session satisfies the invariant.
LEMMA InitIndInv == Init => IndInv
<1> SUFFICES ASSUME Init PROVE IndInv
  OBVIOUS
<1>1. marker \in BOOLEAN
  BY Zenon DEF Init
<1>2. horizon \in 0..N /\ faults \in 0..MaxFaults
  BY RowsAssumption DEF Init
<1>3. TypeOK
  BY <1>1, <1>2 DEF Init, TypeOK
<1>4. WorkerInv
  BY DEF Init, WorkerInv
<1> QED
  BY <1>3, <1>4 DEF Init, IndInv, RowsAreDurable, MemoMatchesRows, OnlySkippedAreMissing

\* A worker's refresh keeps the invariant once its tables are in order and its
\* events are shown or recorded as passed over.
LEMMA RefreshKeepsInv ==
    ASSUME IndInv, NEW w \in Worker, TablesOK, Refreshed(w),
           persisted[w] \subseteq rows' \union skipped',
           skipped \subseteq skipped', skipped' \subseteq Event,
           UNCHANGED <<ledger, sent, acked, batch, queue, faults>>
    PROVE  IndInv' /\ rows \subseteq rows'
<1> USE DEF IndInv
<1>1. phase' \in [Worker -> {"idle", "upsert", "refresh", "ack"}]
      /\ persisted' \in [Worker -> SUBSET Event]
  BY DEF Refreshed, TypeOK
<1>2. TypeOK'
  BY <1>1 DEF TypeOK, TablesOK
<1>3. RowsAreDurable' /\ MemoMatchesRows'
  BY DEF TablesOK, RowsAreDurable, MemoMatchesRows
<1>4. OnlySkippedAreMissing'
  BY DEF TablesOK, OnlySkippedAreMissing
<1>5. WorkerInv'
  <2>1. ASSUME NEW v \in Worker
        PROVE  /\ persisted'[v] \subseteq ledger
               /\ phase'[v] = "ack" => persisted'[v] \subseteq rows' \union skipped'
               /\ v[2] = "bus" => batch[v] \subseteq Bus /\ persisted'[v] \subseteq Bus
               /\ v[2] = "async" => batch[v] = {} /\ phase'[v] \in {"idle", "refresh"}
    <3>1. CASE w[2] = "bus"
      BY <2>1, <3>1 DEF Refreshed, WorkerInv, TypeOK, TablesOK
    <3>2. CASE w[2] # "bus"
      BY <2>1, <3>2 DEF Refreshed, WorkerInv, TypeOK, TablesOK
    <3> QED
      BY <3>1, <3>2
  <2> QED
    BY <2>1 DEF WorkerInv
<1> QED
  BY <1>2, <1>3, <1>4, <1>5 DEF TablesOK

\* The three refresh paths.
LEMMA RefreshStep ==
    ASSUME IndInv, NEW w \in Worker,
           RefreshFold(w) \/ RefreshShadowed(w) \/ RefreshReference(w)
    PROVE  IndInv' /\ rows \subseteq rows'
<1>1. persisted[w] \in SUBSET ledger /\ skipped \subseteq Event
  BY DEF IndInv, WorkerInv, TypeOK
<1>2. CASE RefreshFold(w)
  <2>1. TablesOK /\ persisted[w] \subseteq rows' \union skipped' /\ skipped \subseteq skipped'
        /\ skipped' \subseteq Event
    BY <1>1, <1>2, FoldTables DEF RefreshFold, IndInv
  <2> QED
    BY <1>2, <2>1, RefreshKeepsInv DEF RefreshFold
<1>3. CASE RefreshShadowed(w)
  <2>1. TablesOK /\ ledger \subseteq rows'
    BY <1>3, ResyncTables DEF RefreshShadowed, IndInv
  <2> QED
    BY <1>1, <1>3, <2>1, RefreshKeepsInv DEF RefreshShadowed
<1>4. CASE RefreshReference(w)
  <2>1. TablesOK /\ persisted[w] \subseteq rows'
    <3>1. CASE SessionScope(persisted[w])
      BY <1>1, <1>4, <3>1, ResyncTables DEF RefreshReference, IndInv
    <3>2. CASE ~SessionScope(persisted[w])
      BY <1>1, <1>4, <3>2, ReplaceTables DEF RefreshReference, IndInv
    <3> QED
      BY <3>1, <3>2
  <2> QED
    BY <1>1, <1>4, <2>1, RefreshKeepsInv DEF RefreshReference
<1> QED
  BY <1>2, <1>3, <1>4

\* A read of an unprojected session.
LEMMA EnsureStep ==
    ASSUME IndInv, EnsureSession
    PROVE  IndInv' /\ rows \subseteq rows'
<1>1. TablesOK /\ ledger \subseteq rows'
  BY ResyncTables DEF EnsureSession, IndInv
<1> USE DEF IndInv, EnsureSession, workers
<1>2. TypeOK'
  BY <1>1 DEF TypeOK, TablesOK
<1>3. RowsAreDurable' /\ MemoMatchesRows' /\ OnlySkippedAreMissing'
  BY <1>1 DEF TablesOK, RowsAreDurable, MemoMatchesRows, OnlySkippedAreMissing
<1>4. WorkerInv'
  BY <1>1 DEF TablesOK, WorkerInv
<1> QED
  BY <1>1, <1>2, <1>3, <1>4 DEF TablesOK

\* Steps that leave the rows and the memo alone.
LEMMA WorkerStep ==
    ASSUME IndInv, NEW r \in Replica, NEW w \in Worker,
           \/ TakeBatch(r) \/ PersistBackendEvent(r) \/ TakeQueue(r)
           \/ UpsertEvent(w) \/ UpsertFails(w) \/ BatchUpserted(w) \/ Ack(w) \/ Drop(w)
    PROVE  IndInv' /\ rows' = rows
<1> USE DEF IndInv, TypeOK, RowsAreDurable, MemoMatchesRows, OnlySkippedAreMissing, WorkerInv,
            durable, tables
<1>0. <<r, "bus">> \in Worker /\ <<r, "async">> \in Worker
  BY DEF Worker
<1>1. CASE TakeBatch(r)
  BY <1>0, <1>1, RowsAssumption DEF TakeBatch, Fault, Bus
<1>2. CASE PersistBackendEvent(r)
  BY <1>2, RowsAssumption DEF PersistBackendEvent
<1>3. CASE TakeQueue(r)
  BY <1>0, <1>3 DEF TakeQueue
<1>4. CASE UpsertEvent(w)
  BY <1>4 DEF UpsertEvent
<1>5. CASE UpsertFails(w)
  BY <1>5, RowsAssumption DEF UpsertFails, Fault
<1>6. CASE BatchUpserted(w)
  BY <1>6 DEF BatchUpserted
<1>7. CASE Ack(w)
  BY <1>7 DEF Ack, Worker
<1>8. CASE Drop(w)
  BY <1>8, RowsAssumption DEF Drop, Fault
<1> QED
  BY <1>1, <1>2, <1>3, <1>4, <1>5, <1>6, <1>7, <1>8

\* Every step keeps the invariant and only adds to the rows.
LEMMA NextIndInv == IndInv /\ [Next]_vars => IndInv' /\ rows \subseteq rows'
<1> SUFFICES ASSUME IndInv, [Next]_vars PROVE IndInv' /\ rows \subseteq rows'
  OBVIOUS
<1>1. ASSUME NEW r \in Replica, TakeBatch(r) \/ PersistBackendEvent(r) \/ TakeQueue(r)
      PROVE  IndInv' /\ rows \subseteq rows'
  <2>1. <<r, "bus">> \in Worker
    BY DEF Worker
  <2> QED
    BY <1>1, <2>1, WorkerStep
<1>2. ASSUME NEW w \in Worker, UpsertEvent(w) \/ UpsertFails(w) \/ BatchUpserted(w) \/ Ack(w) \/ Drop(w)
      PROVE  IndInv' /\ rows \subseteq rows'
  <2>1. PICK r \in Replica : TRUE
    BY DEF Worker
  <2> QED
    BY <1>2, <2>1, WorkerStep
<1>3. ASSUME NEW w \in Worker, RefreshFold(w) \/ RefreshShadowed(w) \/ RefreshReference(w)
      PROVE  IndInv' /\ rows \subseteq rows'
  BY <1>3, RefreshStep
<1>4. CASE EnsureSession
  BY <1>4, EnsureStep
<1>5. CASE UNCHANGED vars
  BY <1>5
  DEF vars, IndInv, TypeOK, RowsAreDurable, MemoMatchesRows, OnlySkippedAreMissing, WorkerInv
<1> QED
  BY <1>1, <1>2, <1>3, <1>4, <1>5 DEF Next

\* The inductive invariant holds in every reachable state.
THEOREM Invariant == Spec => []IndInv
<1>1. IndInv /\ [Next]_vars => IndInv'
  BY NextIndInv
<1> QED
  BY InitIndInv, <1>1, PTL DEF Spec

\* Type correctness of the projection's tables and workers.
THEOREM TypeCorrect == Spec => []TypeOK
<1>1. IndInv => TypeOK
  BY DEF IndInv
<1> QED
  BY Invariant, <1>1, PTL

\* Rows show only ledger events: refreshes follow the upserts they project.
THEOREM RowsDurable == Spec => []RowsAreDurable
<1>1. IndInv => RowsAreDurable
  BY DEF IndInv
<1> QED
  BY Invariant, <1>1, PTL

\* The checkpointed fold's memo and the rows agree whenever the memo is live.
THEOREM MemoCoherent == Spec => []MemoMatchesRows
<1>1. IndInv => MemoMatchesRows
  BY DEF IndInv
<1> QED
  BY Invariant, <1>1, PTL

\* An acknowledged event missing from the rows was passed over by foldBatch.
THEOREM LossOnlyByGuard == Spec => []OnlySkippedAreMissing
<1>1. IndInv => OnlySkippedAreMissing
  BY DEF IndInv
<1> QED
  BY Invariant, <1>1, PTL

\* The stored transcript against the ledger, for any events, turns, replicas and faults
\* (refreshSessionBatch, foldBatch and the replacements of turn and session scope).
THEOREM RowsAreSafe == Spec => []RowsSafe
<1>1. TypeOK /\ RowsAreDurable /\ MemoMatchesRows /\ OnlySkippedAreMissing => RowsSafe
  BY DEF RowsSafe
<1> QED
  BY <1>1, TypeCorrect, RowsDurable, MemoCoherent, LossOnlyByGuard, PTL

\* No refresh removes an event from the transcript.
THEOREM RowsGrow == Spec => RowsNeverRegress
<1>1. IndInv /\ [Next]_vars => [rows \subseteq rows']_vars
  BY NextIndInv
<1> QED
  BY Invariant, <1>1, PTL DEF Spec, RowsNeverRegress

-----------------------------------------------------------------------------
(* Session rows                                                            *)

\* A row that was inserted: it has a status, and Failed is the status of a terminal one.
Written(r) == r \in Rows /\ r.status # "none" /\ (r.term => r.status = "Failed")

\* A pod that exists: it is ready only while it runs and does not crash-loop.
Made(c) == c \in Pods /\ c.phase # "none" /\ (c.ready => c.phase = "Running" /\ c.loop = "no")

\* The order of a session's life: row before pod, pod before tracker and consumers,
\* and a create that is under way keeps its row recent.  The tracker never saw a
\* pod ready that is still Pending.
LifeOrder ==
  /\ row = NoRow \/ Written(row)
  /\ pod = NoPod \/ Made(pod)
  /\ last = NoPod \/ Made(last)
  /\ create \in {"idle", "row"} => pod = NoPod /\ last = NoPod
  /\ create = "idle" => row = NoRow
  /\ create \in {"row", "pod", "done"} \/ pod # NoPod \/ consumer # "none" => row # NoRow
  /\ create \in {"row", "pod"} => row.age = 0
  /\ pod.phase = "Pending" => ~last.ready

\* What the loops read stays true until they act: a session whose pod was not found
\* gets none, and one that was hidden and old stays hidden.
LoopOrder ==
  /\ stale => pod = NoPod /\ create \in {"done", "failed"}
  /\ orphan => ~row.visible /\ create \in {"done", "failed"}

\* WatchedStatus for the pod the tracker remembers, which is what each transition
\* is computed from.
Shows ==
  pod # NoPod /\ last # NoPod /\ ~lossy /\ ~row.term => (row.status = "Active" <=> last.ready)

\* The inductive invariant.
RowInv == SessionTypeOK /\ LifeOrder /\ LoopOrder /\ Shows

-----------------------------------------------------------------------------
\* The fields of a row that does not exist,
LEMMA NoRowFacts ==
  NoRow \in Rows /\ ~NoRow.visible /\ NoRow.status = "none" /\ ~NoRow.term /\ NoRow.age = 0
  BY DEF NoRow, Rows

\* and of a pod that does not exist.
LEMMA NoPodFacts ==
  NoPod \in Pods /\ NoPod.phase = "none" /\ ~NoPod.ready /\ ~NoPod.term /\ NoPod.loop = "no"
  BY DEF NoPod, Pods

\* A written row exists.
LEMMA WrittenIsRow ==
  ASSUME NEW r, Written(r)
  PROVE  r \in Rows /\ r # NoRow /\ r.visible \in BOOLEAN /\ r.term \in BOOLEAN /\ r.age \in 0..2
  BY NoRowFacts DEF Written, Rows

\* The writes of a row leave it a row.
LEMMA RowExcept ==
  ASSUME NEW r \in Rows
  PROVE  /\ [r EXCEPT !.visible = TRUE, !.age = 0] \in Rows
         /\ [r EXCEPT !.visible = FALSE, !.age = 0] \in Rows
         /\ \A s \in {"Pending", "Active", "Failed"} : [r EXCEPT !.status = s, !.age = 0] \in Rows
         /\ [r EXCEPT !.status = "Failed", !.term = TRUE, !.age = 0] \in Rows
<1> DEFINE Ages == 0..2
           R == [visible : BOOLEAN, status : {"none", "Pending", "Active", "Failed"},
                 term : BOOLEAN, age : Ages]
<1>1. R = Rows
  BY DEF Rows
<1>2. 0 \in Ages
  OBVIOUS
<1> HIDE DEF Ages
<1>3. r \in R
  BY <1>1
<1>4. /\ [r EXCEPT !.visible = TRUE, !.age = 0] \in R
      /\ [r EXCEPT !.visible = FALSE, !.age = 0] \in R
  BY <1>2, <1>3
<1>5. \A s \in {"Pending", "Active", "Failed"} : [r EXCEPT !.status = s, !.age = 0] \in R
  BY <1>2, <1>3
<1>6. [r EXCEPT !.status = "Failed", !.term = TRUE, !.age = 0] \in R
  BY <1>2, <1>3
<1> QED
  BY <1>1, <1>4, <1>5, <1>6

\* The first Upsert inserts a Pending row,
LEMMA UpsertNew ==
  LET q == Upsert(NoRow)
  IN  Written(q) /\ q.visible /\ q.status = "Pending" /\ ~q.term /\ q.age = 0
  BY DEF Upsert, Written, Rows

\* a later one shows it and keeps its status.
LEMMA UpsertFacts ==
  ASSUME NEW r, Written(r)
  PROVE  LET q == Upsert(r)
         IN  Written(q) /\ q.visible /\ q.status = r.status /\ q.term = r.term /\ q.age = 0
<1>1. r # NoRow /\ r \in Rows
  BY WrittenIsRow
<1> DEFINE q == [r EXCEPT !.visible = TRUE, !.age = 0]
<1>2. q \in Rows
  BY <1>1, RowExcept
<1>3. q.visible /\ q.status = r.status /\ q.term = r.term /\ q.age = 0
  BY <1>1 DEF Rows
<1>4. Upsert(r) = q
  BY <1>1 DEF Upsert
<1> HIDE DEF q
<1>5. Written(q)
  BY <1>2, <1>3 DEF Written
<1> QED
  BY <1>2, <1>3, <1>4, <1>5

\* MarkDeleted hides it and keeps its status.
LEMMA MarkFacts ==
  ASSUME NEW r, Written(r)
  PROVE  LET q == MarkDeleted(r)
         IN  Written(q) /\ ~q.visible /\ q.status = r.status /\ q.term = r.term /\ q.age = 0
<1>1. r # NoRow /\ r \in Rows
  BY WrittenIsRow
<1> DEFINE q == [r EXCEPT !.visible = FALSE, !.age = 0]
<1>2. q \in Rows
  BY <1>1, RowExcept
<1>3. ~q.visible /\ q.status = r.status /\ q.term = r.term /\ q.age = 0
  BY <1>1 DEF Rows
<1>4. MarkDeleted(r) = q
  BY <1>1 DEF MarkDeleted
<1> HIDE DEF q
<1>5. Written(q)
  BY <1>2, <1>3 DEF Written
<1> QED
  BY <1>2, <1>3, <1>4, <1>5

\* Time and setters change the age alone.
LEMMA AgeFacts ==
  ASSUME NEW r, Written(r), NEW n \in 0..2
  PROVE  LET q == [r EXCEPT !.age = n]
         IN  Written(q) /\ q.visible = r.visible /\ q.status = r.status /\ q.term = r.term /\ q.age = n
  BY WrittenIsRow DEF Written, Rows

\* What a transition leaves behind: a terminal row stays terminal, and any other
\* row has the status of the transition.
LEMMA RecordFacts ==
  ASSUME NEW r, Written(r),
         NEW e \in {"None", "Scheduled", "NotReady", "Ready", "PodFailed", "Terminating", "ProviderFatal"}
  PROVE  LET q == RecordTransition(r, e)
         IN  /\ Written(q) /\ q.visible = r.visible /\ (q.age = 0 \/ q = r) /\ (r.term => q.term)
             /\ e = "None" => q = r
             /\ e \in {"Scheduled", "NotReady"} => q.term \/ q.status = "Pending"
             /\ e = "Ready" => q.term \/ q.status = "Active"
             /\ e = "PodFailed" => q.status = "Failed"
             /\ e \in {"Terminating", "ProviderFatal"} => q.term
<1>1. r # NoRow /\ r \in Rows /\ r.term \in BOOLEAN
  BY WrittenIsRow
<1>2. CASE e = "None"
  BY <1>1, <1>2 DEF RecordTransition
<1>3. CASE e \in {"Scheduled", "NotReady", "Ready"} /\ r.term
  BY <1>1, <1>3 DEF RecordTransition, GuardNotTerminal
<1>4. CASE e \in {"Scheduled", "NotReady"} /\ ~r.term
  <2> DEFINE q == [r EXCEPT !.status = "Pending", !.age = 0]
  <2>1. q \in Rows
    BY <1>1, RowExcept
  <2>2. q.visible = r.visible /\ q.age = 0 /\ q.status = "Pending" /\ q.term = r.term
    BY <1>1 DEF Rows
  <2>3. RecordTransition(r, e) = q
    BY <1>1, <1>4 DEF RecordTransition, Changes
  <2> HIDE DEF q
  <2>4. Written(q)
    BY <1>4, <2>1, <2>2 DEF Written
  <2> QED
    BY <1>4, <2>1, <2>2, <2>3, <2>4
<1>5. CASE e = "Ready" /\ ~r.term
  <2> DEFINE q == [r EXCEPT !.status = "Active", !.age = 0]
  <2>1. q \in Rows
    BY <1>1, RowExcept
  <2>2. q.visible = r.visible /\ q.age = 0 /\ q.status = "Active" /\ q.term = r.term
    BY <1>1 DEF Rows
  <2>3. RecordTransition(r, e) = q
    BY <1>1, <1>5 DEF RecordTransition, Changes
  <2> HIDE DEF q
  <2>4. Written(q)
    BY <1>5, <2>1, <2>2 DEF Written
  <2> QED
    BY <1>5, <2>1, <2>2, <2>3, <2>4
<1>6. CASE e = "PodFailed"
  <2> DEFINE q == [r EXCEPT !.status = "Failed", !.age = 0]
  <2>1. q \in Rows
    BY <1>1, RowExcept
  <2>2. q.visible = r.visible /\ q.age = 0 /\ q.status = "Failed" /\ q.term = r.term
    BY <1>1 DEF Rows
  <2>3. RecordTransition(r, e) = q
    BY <1>1, <1>6 DEF RecordTransition, Changes, GuardNotTerminal
  <2> HIDE DEF q
  <2>4. Written(q)
    BY <1>6, <2>1, <2>2 DEF Written
  <2> QED
    BY <1>6, <2>1, <2>2, <2>3, <2>4
<1>7. CASE e \in {"Terminating", "ProviderFatal"}
  <2> DEFINE q == [r EXCEPT !.status = "Failed", !.term = TRUE, !.age = 0]
  <2>1. q \in Rows
    BY <1>1, RowExcept
  <2>2. q.visible = r.visible /\ q.age = 0 /\ q.status = "Failed" /\ q.term
    BY <1>1 DEF Rows
  <2>3. RecordTransition(r, e) = q
    BY <1>1, <1>7 DEF RecordTransition, Changes, GuardNotTerminal
  <2> HIDE DEF q
  <2>4. Written(q)
    BY <1>7, <2>1, <2>2 DEF Written
  <2> QED
    BY <1>7, <2>1, <2>2, <2>3, <2>4
<1> QED
  BY <1>1, <1>2, <1>3, <1>4, <1>5, <1>6, <1>7

\* A pod that is being deleted is otherwise the same.
LEMMA PodFacts ==
  ASSUME NEW c, Made(c)
  PROVE  /\ c \in Pods /\ c # NoPod
         /\ Made([c EXCEPT !.term = TRUE]) /\ [c EXCEPT !.term = TRUE].phase = c.phase
  BY NoPodFacts DEF Made, Pods

\* The transitions between two sights of a pod: without one of readiness, it was
\* as ready before or has failed.
LEMMA TrackedFacts ==
  ASSUME NEW p, Made(p), NEW c, Made(c), c.phase = "Pending" => ~p.ready
  PROVE  LET es == Transitions(p, c)
         IN  /\ es[1] \in {"None", "Terminating"} /\ es[2] \in {"None", "PodFailed"}
             /\ es[3] \in {"None", "Ready", "NotReady"}
             /\ es[2] = "PodFailed" => ~c.ready
             /\ es[3] = "Ready" => c.ready
             /\ es[3] = "NotReady" => ~c.ready
             /\ es[3] = "None" => es[2] = "PodFailed" \/ p.ready = c.ready
  BY DEF Transitions, Made, Pods

\* The transitions of a first sight.
LEMMA SightFacts ==
  ASSUME NEW c, Made(c)
  PROVE  LET es == FirstSight(c)
         IN  /\ es[1] = "Scheduled" /\ es[3] = "None"
             /\ es[2] \in {"None", "Terminating", "PodFailed", "Ready", "NotReady"}
             /\ es[2] = "Ready" => c.ready
             /\ es[2] \in {"PodFailed", "NotReady", "None"} => ~c.ready
  BY DEF FirstSight, Failing, Made, Pods

\* The transitions, and none.
RowEvents == {"None", "Scheduled", "NotReady", "Ready", "PodFailed", "Terminating", "ProviderFatal"}

\* What a write of the row may do, whoever does it: it follows a row that exists, is
\* terminal or keeps the status the watch gave it, and shows a hidden row only at the
\* end of a create.
RowWrite ==
  \/ row' = row
  \/ /\ Written(row) /\ Written(row')
     /\ row'.visible => row.visible \/ create = "pod"
     /\ row'.age = 0 \/ create \notin {"row", "pod"}
     /\ row'.term \/ pod = NoPod \/ (row'.term = row.term /\ row'.status = row.status)

\* What a step may do to the pod: nothing, remove it, or leave one that is not younger.
PodWrite ==
  \/ pod' = pod
  \/ pod' = NoPod
  \/ Made(pod) /\ Made(pod') /\ (pod'.phase = "Pending" => pod.phase = "Pending")

\* The shape of every step but the two first ones of a create and the handling of
\* a pod event.
Quiet ==
  /\ RowWrite /\ PodWrite
  /\ (last' = last /\ lossy' = lossy) \/ last' = NoPod
  /\ create' \in {create, "failed"} \/ (create = "pod" /\ create' = "done")
  /\ consumer' = consumer \/ row # NoRow
  /\ stale' => stale \/ (pod = NoPod /\ create \in {"done", "failed"})
  /\ orphan' => orphan \/ (~row.visible /\ create \in {"done", "failed"})

\* A step of that shape keeps the invariant.
LEMMA QuietKeeps ==
  ASSUME RowInv, Quiet
  PROVE  LifeOrder' /\ LoopOrder' /\ Shows'
<1>1. row = NoRow \/ Written(row)
  BY DEF RowInv, LifeOrder
<1>2. row' = NoRow \/ Written(row')
  BY <1>1 DEF Quiet, RowWrite
<1>3. pod' = NoPod \/ Made(pod')
  BY DEF RowInv, LifeOrder, Quiet, PodWrite
<1>4. pod' # NoPod => pod # NoPod
  BY NoPodFacts DEF Quiet, PodWrite, Made
<1>5. row # NoRow <=> row' # NoRow
  BY NoRowFacts DEF Quiet, RowWrite, Written
<1>6. row'.visible => row.visible \/ create = "pod"
  BY DEF Quiet, RowWrite
<1>7. LifeOrder'
  <2>1. last' = NoPod \/ Made(last')
    BY DEF RowInv, LifeOrder, Quiet
  <2>2. create' \in {"idle", "row"} => pod' = NoPod /\ last' = NoPod
    BY <1>4 DEF RowInv, LifeOrder, Quiet
  <2>3. create' = "idle" => row' = NoRow
    BY <1>5 DEF RowInv, LifeOrder, Quiet
  <2>4. create' \in {"row", "pod", "done"} \/ pod' # NoPod \/ consumer' # "none" => row' # NoRow
    BY <1>4, <1>5 DEF RowInv, LifeOrder, Quiet
  <2>5. create' \in {"row", "pod"} => row'.age = 0
    BY DEF RowInv, LifeOrder, Quiet, RowWrite
  <2>6. pod'.phase = "Pending" => ~last'.ready
    BY NoPodFacts DEF RowInv, LifeOrder, Quiet, PodWrite
  <2> QED
    BY <1>2, <1>3, <2>1, <2>2, <2>3, <2>4, <2>5, <2>6 DEF LifeOrder
<1>8. LoopOrder'
  BY <1>4, <1>6 DEF RowInv, LoopOrder, LifeOrder, Quiet
<1>9. Shows'
  BY <1>1, <1>4, NoPodFacts DEF RowInv, Shows, LifeOrder, Quiet, RowWrite
<1> QED
  BY <1>7, <1>8, <1>9

\* The types of the variables that are not records.
Scalars ==
  /\ create \in {"idle", "row", "pod", "done", "failed"}
  /\ del \in {"none", "pod", "mark"}
  /\ fatal \in BOOLEAN /\ loopSeen \in BOOLEAN /\ stale \in BOOLEAN
  /\ promise \in BOOLEAN /\ orphan \in BOOLEAN
  /\ lossy \in BOOLEAN /\ unreaped \in BOOLEAN
  /\ consumer \in {"none", "young", "old"}
  /\ failures \in 0..MaxFailures /\ steps \in 0..MaxSteps

\* The counters stay within their bounds.
LEMMA CountsStay ==
  ASSUME Scalars
  PROVE  /\ CallFails => failures' \in 0..MaxFailures
         /\ CallSucceeds => failures' \in 0..MaxFailures
         /\ \A ok \in BOOLEAN : Call(ok) => failures' \in 0..MaxFailures
         /\ steps < MaxSteps /\ steps' = steps + 1 => steps' \in 0..MaxSteps
<1>1. failures \in 0..MaxFailures /\ steps \in 0..MaxSteps
  BY DEF Scalars
<1>2. MaxFailures \in Nat /\ MaxSteps \in Nat
  BY SessionBounds
<1>3. (CallFails \/ CallSucceeds) => failures' \in 0..MaxFailures
  BY <1>1, <1>2 DEF CallFails, CallSucceeds
<1>4. steps < MaxSteps /\ steps' = steps + 1 => steps' \in 0..MaxSteps
  BY <1>1, <1>2
<1> QED
  BY <1>3, <1>4 DEF Call

\* The delete of a pod has the shape.
LEMMA TerminatedPod ==
  ASSUME NEW c, c = NoPod \/ Made(c)
  PROVE  LET q == IF c = NoPod THEN c ELSE [c EXCEPT !.term = TRUE]
         IN  q = c \/ (Made(c) /\ Made(q) /\ (q.phase = "Pending" => c.phase = "Pending"))
  BY PodFacts

\* The states of the row, by name.
LEMMA RowStates ==
  ASSUME RowInv
  PROVE  /\ Scalars
         /\ row = NoRow \/ Written(row)
         /\ pod = NoPod \/ Made(pod)
         /\ row # NoRow => Written(row)
         /\ row.visible => Written(row)
         /\ row.visible \in BOOLEAN
         /\ row.age \in 0..2
<1>1. row = NoRow \/ Written(row)
  BY DEF RowInv, LifeOrder
<1>2. Scalars
  BY DEF RowInv, SessionTypeOK, Scalars
<1>3. row.visible \in BOOLEAN /\ row.age \in 0..2
  BY DEF RowInv, SessionTypeOK, Rows
<1>4. row.visible => Written(row)
  BY <1>1, NoRowFacts
<1>5. pod = NoPod \/ Made(pod)
  BY DEF RowInv, LifeOrder
<1> QED
  BY <1>1, <1>2, <1>3, <1>4, <1>5

\* Each of these actions writes the row as the shape says,
LEMMA QuietRow ==
  ASSUME RowInv, DeleteMark \/ ClaimIdleForReap \/ RetireScope \/ ProviderFatal \/ Promise \/ Age
                  \/ SetColumn \/ RefreshRow \/ ReconcileWrite
  PROVE  RowWrite
<1>1. row = NoRow \/ Written(row)
  BY RowStates
<1>2. CASE DeleteMark
  <2>1. row' = row \/ row' = MarkDeleted(row)
    BY <1>2 DEF DeleteMark
  <2> QED
    BY <1>1, <2>1, MarkFacts DEF RowWrite, MarkDeleted
<1>3. CASE ClaimIdleForReap \/ RetireScope
  <2>1. row' = MarkDeleted(row)
    BY <1>3 DEF ClaimIdleForReap, RetireScope
  <2> QED
    BY <1>1, <2>1, MarkFacts DEF RowWrite, MarkDeleted
<1>4. CASE ProviderFatal
  <2>1. row' = RecordTransition(row, "ProviderFatal")
    BY <1>4 DEF ProviderFatal
  <2> QED
    BY <1>1, <2>1, RecordFacts DEF RowWrite, RecordTransition
<1>5. CASE Promise \/ SetColumn
  <2>1. Written(row) /\ row' = [row EXCEPT !.age = 0]
    BY <1>5, RowStates DEF Promise, SetColumn, Touch
  <2>2. 0 \in 0..2
    OBVIOUS
  <2> QED
    BY <2>1, <2>2, AgeFacts DEF RowWrite
<1>6. CASE Age
  <2>1. Written(row) /\ row.age + 1 \in 0..2 /\ row' = [row EXCEPT !.age = row.age + 1]
    BY <1>6, RowStates DEF Age
  <2>2. create \notin {"row", "pod"}
    BY <1>6 DEF Age
  <2> QED
    BY <2>1, <2>2, AgeFacts DEF RowWrite
<1>7. CASE RefreshRow
  <2>1. row' = row \/ row' = Upsert(row)
    BY <1>7 DEF RefreshRow
  <2>2. create = "pod" /\ Written(row)
    BY <1>1, <1>7 DEF RefreshRow, RowInv, LifeOrder
  <2> QED
    BY <2>1, <2>2, UpsertFacts DEF RowWrite
<1>8. CASE ReconcileWrite
  <2>1. row' = row \/ row' = RecordTransition(row, "PodFailed")
    BY <1>8 DEF ReconcileWrite
  <2>2. pod = NoPod /\ create \notin {"row", "pod"}
    BY <1>8 DEF ReconcileWrite, RowInv, LoopOrder
  <2> QED
    BY <1>1, <2>1, <2>2, RecordFacts DEF RowWrite, RecordTransition
<1> QED
  BY <1>2, <1>3, <1>4, <1>5, <1>6, <1>7, <1>8

\* and each of these the pod.
LEMMA QuietPod ==
  ASSUME RowInv, DeletePod \/ RetireScope \/ ReapPod \/ PodMove \/ PodMishap \/ PodGone
  PROVE  PodWrite
<1>1. pod = NoPod \/ Made(pod)
  BY RowStates
<1>2. CASE DeletePod \/ RetireScope \/ ReapPod
  <2>1. pod' = pod \/ pod' = IF pod = NoPod THEN pod ELSE [pod EXCEPT !.term = TRUE]
    BY <1>2 DEF DeletePod, RetireScope, ReapPod
  <2> QED
    BY <1>1, <2>1, TerminatedPod DEF PodWrite
<1>3. CASE PodMove
  <2>1. Made(pod)
    BY <1>1, <1>3 DEF PodMove
  <2>2. CASE pod.phase = "Pending" /\ pod' = [pod EXCEPT !.phase = "Running"]
    BY <2>1, <2>2 DEF Made, Pods, PodWrite
  <2>3. CASE pod.phase = "Running" /\ ~pod.ready /\ pod.loop = "no" /\ pod' = [pod EXCEPT !.ready = TRUE]
    BY <2>1, <2>3 DEF Made, Pods, PodWrite
  <2> QED
    BY <1>3, <2>2, <2>3 DEF PodMove
<1>4. CASE PodMishap
  <2>1. Made(pod) /\ pod.phase = "Running"
    BY <1>1, <1>4, NoPodFacts DEF PodMishap
  <2>2. CASE pod' = [pod EXCEPT !.ready = TRUE, !.loop = "no"]
    BY <2>1, <2>2 DEF Made, Pods, PodWrite
  <2>3. CASE pod' = [pod EXCEPT !.phase = "Done", !.ready = FALSE, !.loop = "no"]
    BY <2>1, <2>3 DEF Made, Pods, PodWrite
  <2>4. CASE pod' = [pod EXCEPT !.ready = FALSE, !.loop = IF @ = "no" THEN "under" ELSE "over"]
    BY <2>1, <2>4 DEF Made, Pods, PodWrite
  <2> QED
    BY <1>4, <2>2, <2>3, <2>4 DEF PodMishap
<1>5. CASE PodGone
  BY <1>5 DEF PodGone, PodWrite
<1> QED
  BY <1>2, <1>3, <1>4, <1>5

\* The actions of that shape.
QuietNext ==
  \/ RefreshRow \/ RollbackCreate \/ SetColumn
  \/ Delete \/ DeletePod \/ DeleteMark \/ RetireScope \/ ClaimIdleForReap
  \/ ProviderFatal \/ ReapPod
  \/ PodMove \/ PodMishap \/ PodGone \/ Promise \/ Age \/ BackendDies
  \/ HandleDelete \/ NewLeader
  \/ ReconcileRead \/ ReconcileWrite
  \/ EnsureConsumer \/ ConsumerAges \/ SweepRead \/ SweepDelete

\* Indeed they have it.
LEMMA QuietSteps ==
  ASSUME RowInv, QuietNext
  PROVE  Quiet
<1>1. CASE DeleteMark \/ ClaimIdleForReap \/ ProviderFatal \/ Promise \/ Age \/ SetColumn
  <2>1. RowWrite
    BY <1>1, QuietRow
  <2> QED
    BY <1>1, <2>1 DEF DeleteMark, ClaimIdleForReap, ProviderFatal, Promise, Age, SetColumn,
                     Quiet, PodWrite, watch, loops
<1>2. CASE RefreshRow \/ ReconcileWrite
  <2>1. RowWrite
    BY <1>2, QuietRow
  <2> QED
    BY <1>2, <2>1 DEF RefreshRow, ReconcileWrite, Quiet, PodWrite, watch, loops
<1>3. CASE RetireScope
  <2>1. RowWrite /\ PodWrite
    BY <1>3, QuietRow, QuietPod
  <2> QED
    BY <1>3, <2>1 DEF RetireScope, Quiet, watch, loops
<1>4. CASE DeletePod \/ ReapPod \/ PodMove \/ PodMishap \/ PodGone
  <2>1. PodWrite
    BY <1>4, QuietPod
  <2>2. RowWrite
    BY <1>4 DEF RowWrite, DeletePod, ReapPod, PodMove, PodMishap, PodGone
  <2> QED
    BY <1>4, <2>1, <2>2 DEF DeletePod, ReapPod, PodMove, PodMishap, PodGone, Quiet, watch, loops
<1>5. CASE RollbackCreate \/ Delete
  BY <1>5 DEF RollbackCreate, Delete, Quiet, RowWrite, PodWrite, watch, loops
<1>6. CASE BackendDies \/ HandleDelete \/ NewLeader
  BY <1>6 DEF BackendDies, HandleDelete, NewLeader, Quiet, RowWrite, PodWrite, loops
<1>7. CASE ConsumerAges \/ EnsureConsumer \/ SweepDelete
  <2>1. consumer' = consumer \/ row # NoRow
    BY <1>7, NoPodFacts DEF ConsumerAges, EnsureConsumer, SweepDelete, RowInv, LifeOrder
  <2> QED
    BY <1>7, <2>1 DEF ConsumerAges, EnsureConsumer, SweepDelete, Quiet, RowWrite, PodWrite, watch
<1>8. CASE ReconcileRead
  <2>1. row # NoRow /\ create \notin {"idle", "row", "pod"}
    BY <1>8, RowStates, NoRowFacts DEF ReconcileRead, ListStalePodBackedRows, RowInv, LifeOrder
  <2>2. create \in {"done", "failed"}
    BY <2>1, RowStates DEF Scalars
  <2> QED
    BY <1>8, <2>2 DEF ReconcileRead, Quiet, RowWrite, PodWrite, watch
<1>9. CASE SweepRead
  <2>1. row # NoRow /\ ~row.visible /\ ~(row.age < 2)
    BY <1>9 DEF SweepRead, ListLiveIDs, RowInv, LifeOrder
  <2>2. create \notin {"idle", "row", "pod"}
    BY <2>1 DEF RowInv, LifeOrder
  <2>3. create \in {"done", "failed"}
    BY <2>2, RowStates DEF Scalars
  <2> QED
    BY <1>9, <2>1, <2>3 DEF SweepRead, Quiet, RowWrite, PodWrite, watch
<1> QED
  BY <1>1, <1>2, <1>3, <1>4, <1>5, <1>6, <1>7, <1>8, <1>9 DEF QuietNext

\* Every step keeps the scalar types, and consumers go only when the sweep found an orphan.
LEMMA ScalarSteps ==
  ASSUME RowInv, SessionNext
  PROVE  Scalars' /\ (consumer # "none" /\ consumer' = "none" => orphan)
<1>1. Scalars
  BY RowStates
<1>2. CASE CreateRow \/ CreatePod \/ RefreshRow
  BY <1>1, <1>2, CountsStay DEF CreateRow, CreatePod, RefreshRow, Scalars, watch, loops
<1>3. CASE SetColumn \/ RollbackCreate \/ Delete \/ DeletePod \/ DeleteMark
  BY <1>1, <1>3, CountsStay
  DEF SetColumn, RollbackCreate, Delete, DeletePod, DeleteMark, Scalars, watch, loops
<1>4. CASE RetireScope \/ ClaimIdleForReap
  BY <1>1, <1>4, CountsStay DEF RetireScope, ClaimIdleForReap, Scalars, watch, loops
<1>10. CASE ProviderFatal \/ ReapPod
  <2>1. fatal' \in BOOLEAN
    BY <1>10, Zenon DEF ProviderFatal, ReapPod
  <2> QED
    BY <1>1, <1>10, <2>1, CountsStay DEF ProviderFatal, ReapPod, Scalars, watch, loops
<1>5. CASE PodMove \/ PodMishap \/ PodGone \/ Age
  BY <1>1, <1>5, CountsStay DEF PodMove, PodMishap, PodGone, Age, Scalars, watch, loops
<1>6. CASE Promise
  BY <1>1, <1>6, CountsStay DEF Promise, Scalars, watch, loops
<1>7. CASE BackendDies
  <2>1. /\ fatal' \in BOOLEAN /\ stale' \in BOOLEAN /\ orphan' \in BOOLEAN
        /\ loopSeen' \in BOOLEAN /\ lossy' \in BOOLEAN
    BY <1>7, Zenon DEF BackendDies
  <2> QED
    BY <1>1, <1>7, <2>1, CountsStay DEF BackendDies, Scalars
<1>11. CASE HandleDelete \/ NewLeader
  <2>1. loopSeen' \in BOOLEAN /\ lossy' \in BOOLEAN
    BY <1>1, <1>11, Zenon DEF HandleDelete, NewLeader, Scalars
  <2> QED
    BY <1>1, <1>11, <2>1, CountsStay DEF HandleDelete, NewLeader, Scalars, loops
<1>8. CASE HandleUpsert
  <2>1. UNCHANGED <<create, del, fatal, loops, promise, steps>>
    BY <1>8 DEF HandleUpsert
  <2>2. CASE ReapCrashloop
    BY <1>1, <2>1, <2>2, CountsStay DEF ReapCrashloop, Scalars, loops
  <2>3. CASE EmitTransitions
    <3>1. failures' \in 0..MaxFailures /\ lossy' \in BOOLEAN
      BY <1>1, <2>3, CountsStay DEF EmitTransitions, Scalars
    <3>2. UNCHANGED <<loopSeen, unreaped>>
      BY <2>3 DEF EmitTransitions
    <3> QED
      BY <1>1, <2>1, <3>1, <3>2 DEF Scalars, loops
  <2> QED
    BY <1>8, <2>2, <2>3 DEF HandleUpsert
<1>9. CASE ReconcileRead \/ ReconcileWrite
  <2>1. stale' \in BOOLEAN
    BY <1>9, Zenon DEF ReconcileRead, ReconcileWrite
  <2> QED
    BY <1>1, <1>9, <2>1, CountsStay DEF ReconcileRead, ReconcileWrite, Scalars, watch
<1>12. CASE EnsureConsumer \/ ConsumerAges
  BY <1>1, <1>12 DEF EnsureConsumer, ConsumerAges, Scalars, watch
<1>13. CASE SweepRead \/ SweepDelete
  <2>1. orphan' \in BOOLEAN
    BY <1>13, Zenon DEF SweepRead, SweepDelete
  <2> QED
    BY <1>1, <1>13, <2>1 DEF SweepRead, SweepDelete, Scalars, watch
<1> QED
  BY <1>2, <1>3, <1>4, <1>5, <1>6, <1>7, <1>8, <1>9, <1>10, <1>11, <1>12, <1>13 DEF SessionNext

\* A list of transitions does what each of them does.
LEMMA RecordAllFacts ==
  ASSUME NEW r, Written(r), NEW es \in [1..3 -> RowEvents]
  PROVE  LET q == RecordAll(r, es)
         IN  /\ Written(q) /\ q.visible = r.visible /\ (q.age = 0 \/ q = r) /\ (r.term => q.term)
<1> DEFINE a == RecordTransition(r, es[1])
           b == RecordTransition(a, es[2])
           c == RecordTransition(b, es[3])
<1>1. es[1] \in RowEvents /\ es[2] \in RowEvents /\ es[3] \in RowEvents
  OBVIOUS
<1>2. Written(a) /\ a.visible = r.visible /\ (a.age = 0 \/ a = r) /\ (r.term => a.term)
  BY <1>1, RecordFacts DEF RowEvents
<1> HIDE DEF a
<1>3. Written(b) /\ b.visible = a.visible /\ (b.age = 0 \/ b = a) /\ (a.term => b.term)
  BY <1>1, <1>2, RecordFacts DEF RowEvents
<1> HIDE DEF b
<1>4. Written(c) /\ c.visible = b.visible /\ (c.age = 0 \/ c = b) /\ (b.term => c.term)
  BY <1>1, <1>3, RecordFacts DEF RowEvents
<1> HIDE DEF c
<1>5. RecordAll(r, es) = c
  BY DEF RecordAll, a, b, c
<1> QED
  BY <1>2, <1>3, <1>4, <1>5

\* After all transitions of a first sight the row shows whether the pod is ready.
LEMMA SightShows ==
  ASSUME NEW r, Written(r), NEW c, Made(c)
  PROVE  LET q == RecordAll(r, FirstSight(c))
         IN  q.term \/ (q.status = "Active" <=> c.ready)
<1> DEFINE es == FirstSight(c)
           a == RecordTransition(r, es[1])
           b == RecordTransition(a, es[2])
<1>1. /\ es[1] = "Scheduled" /\ es[3] = "None"
      /\ es[2] \in {"None", "Terminating", "PodFailed", "Ready", "NotReady"}
      /\ es[2] = "Ready" => c.ready
      /\ es[2] \in {"PodFailed", "NotReady", "None"} => ~c.ready
  BY SightFacts
<1>2. RecordAll(r, es) = RecordTransition(b, es[3])
  BY DEF RecordAll
<1> HIDE DEF es
<1>3. Written(a) /\ (a.term \/ a.status = "Pending")
  BY <1>1, RecordFacts
<1> HIDE DEF a
<1>4. /\ Written(b) /\ (a.term => b.term)
      /\ es[2] = "None" => b = a
      /\ es[2] = "NotReady" => b.term \/ b.status = "Pending"
      /\ es[2] = "Ready" => b.term \/ b.status = "Active"
      /\ es[2] = "PodFailed" => b.status = "Failed"
      /\ es[2] = "Terminating" => b.term
  BY <1>1, <1>3, RecordFacts
<1> HIDE DEF b
<1>5. RecordTransition(b, es[3]) = b
  BY <1>1 DEF RecordTransition
<1>6. b.term \/ (b.status = "Active" <=> c.ready)
  BY <1>1, <1>3, <1>4
<1> QED
  BY <1>2, <1>5, <1>6 DEF es

\* If the row showed the readiness of the pod last seen, then after all transitions
\* since it shows that of the pod as it is.
LEMMA ChangeShows ==
  ASSUME NEW r, Written(r), NEW p, Made(p), NEW c, Made(c), c.phase = "Pending" => ~p.ready,
         r.term \/ (r.status = "Active" <=> p.ready)
  PROVE  LET q == RecordAll(r, Transitions(p, c))
         IN  q.term \/ (q.status = "Active" <=> c.ready)
<1> DEFINE es == Transitions(p, c)
           a == RecordTransition(r, es[1])
           b == RecordTransition(a, es[2])
           d == RecordTransition(b, es[3])
<1>1. /\ es[1] \in {"None", "Terminating"} /\ es[2] \in {"None", "PodFailed"}
      /\ es[3] \in {"None", "Ready", "NotReady"}
      /\ es[2] = "PodFailed" => ~c.ready
      /\ es[3] = "Ready" => c.ready
      /\ es[3] = "NotReady" => ~c.ready
      /\ es[3] = "None" => es[2] = "PodFailed" \/ p.ready = c.ready
  BY TrackedFacts
<1>2. RecordAll(r, es) = d
  BY DEF RecordAll
<1> HIDE DEF es
<1>3. Written(a) /\ (a.term \/ a = r)
  BY <1>1, RecordFacts
<1> HIDE DEF a
<1>4. /\ Written(b) /\ (a.term => b.term)
      /\ es[2] = "None" => b = a
      /\ es[2] = "PodFailed" => b.status = "Failed"
  BY <1>1, <1>3, RecordFacts
<1> HIDE DEF b
<1>5. /\ Written(d) /\ (b.term => d.term)
      /\ es[3] = "None" => d = b
      /\ es[3] = "NotReady" => d.term \/ d.status = "Pending"
      /\ es[3] = "Ready" => d.term \/ d.status = "Active"
  BY <1>1, <1>4, RecordFacts
<1> HIDE DEF d
<1>6. d.term \/ (d.status = "Active" <=> c.ready)
  BY <1>1, <1>3, <1>4, <1>5
<1> QED
  BY <1>2, <1>6 DEF es

\* handleUpsert makes the row terminal, or loses a write, or has the row show the
\* readiness of the pod it saw; it never shows or hides a row.
LEMMA WatchWrites ==
  ASSUME RowInv, HandleUpsert
  PROVE  /\ Written(row) /\ Written(row') /\ row'.visible = row.visible
         /\ row'.age = 0 \/ row' = row
         /\ Made(pod) /\ Made(pod')
         /\ pod'.phase = pod.phase
         /\ last' = pod
         /\ lossy' \/ row'.term \/ (row'.status = "Active" <=> pod.ready)
<1>1. Written(row) /\ Made(pod) /\ last' = pod
  BY RowStates DEF HandleUpsert, RowInv, LifeOrder
<1>2. CASE ReapCrashloop
  <2>1. PICK wrote \in BOOLEAN, reaped \in BOOLEAN :
          /\ row' = IF wrote THEN RecordTransition(row, "ProviderFatal") ELSE row
          /\ pod' = IF reaped THEN [pod EXCEPT !.term = TRUE] ELSE pod
          /\ lossy' = (lossy \/ ~wrote)
    BY <1>2 DEF ReapCrashloop
  <2>2. Made(pod') /\ pod'.phase = pod.phase
    BY <1>1, <2>1, PodFacts
  <2>3. CASE wrote
    <3>1. row' = RecordTransition(row, "ProviderFatal")
      BY <2>1, <2>3
    <3> QED
      BY <1>1, <2>2, <3>1, RecordFacts
  <2>4. CASE ~wrote
    <3>1. row' = row /\ lossy'
      BY <2>1, <2>4
    <3> QED
      BY <1>1, <2>2, <3>1
  <2> QED
    BY <2>3, <2>4
<1>3. CASE EmitTransitions
  <2> DEFINE es == IF last = NoPod THEN FirstSight(pod) ELSE Transitions(last, pod)
  <2>1. PICK lost \in SUBSET (1..3) :
          /\ row' = RecordAll(row, [i \in 1..3 |-> IF i \in lost THEN "None" ELSE es[i]])
          /\ lossy' = IF lost = {} THEN lossy /\ last # NoPod ELSE TRUE
    BY <1>3 DEF EmitTransitions
  <2>2. pod' = pod
    BY <1>3 DEF EmitTransitions
  <2>3. (last = NoPod \/ Made(last)) /\ (pod.phase = "Pending" => ~last.ready)
    BY DEF RowInv, LifeOrder
  <2>4. es[1] \in RowEvents /\ es[2] \in RowEvents /\ es[3] \in RowEvents
    <3>1. CASE last = NoPod
      BY <1>1, <3>1, SightFacts DEF RowEvents
    <3>2. CASE last # NoPod
      BY <1>1, <2>3, <3>2, TrackedFacts DEF RowEvents
    <3> QED
      BY <3>1, <3>2
  <2>5. lost = {} => row' = RecordAll(row, es)
    BY <2>1 DEF RecordAll
  <2>6. lost = {} => lossy' \/ row'.term \/ (row'.status = "Active" <=> pod.ready)
    <3>1. CASE lost = {} /\ last = NoPod
      BY <1>1, <2>5, <3>1, SightShows
    <3>2. CASE lost = {} /\ last # NoPod /\ ~lossy
      <4>1. row.term \/ (row.status = "Active" <=> last.ready)
        BY <1>1, <3>2, PodFacts DEF RowInv, Shows
      <4> QED
        BY <1>1, <2>3, <2>5, <3>2, <4>1, ChangeShows
    <3>3. CASE lost = {} /\ last # NoPod /\ lossy
      BY <2>1, <3>3
    <3> QED
      BY <3>1, <3>2, <3>3
  <2> DEFINE f == [i \in 1..3 |-> IF i \in lost THEN "None" ELSE es[i]]
  <2>7. f \in [1..3 -> RowEvents]
    <3> HIDE DEF es
    <3>1. \A i \in 1..3 : es[i] \in RowEvents
      <4>1. 1..3 = {1, 2, 3}
        OBVIOUS
      <4> QED
        BY <2>4, <4>1
    <3> QED
      BY <3>1 DEF RowEvents
  <2>8. row' = RecordAll(row, f)
    BY <2>1
  <2> HIDE DEF f
  <2>9. Written(row') /\ row'.visible = row.visible /\ (row'.age = 0 \/ row' = row)
    BY <1>1, <2>7, <2>8, RecordAllFacts
  <2>10. lost # {} => lossy'
    BY <2>1
  <2> QED
    BY <1>1, <2>2, <2>6, <2>9, <2>10
<1> QED
  BY <1>1, <1>2, <1>3 DEF HandleUpsert

\* So it keeps the invariant.
LEMMA WatchKeeps ==
  ASSUME RowInv, HandleUpsert
  PROVE  LifeOrder' /\ LoopOrder' /\ Shows'
<1>1. UNCHANGED <<create, stale, consumer, orphan>> /\ pod # NoPod
  BY DEF HandleUpsert, loops
<1>2. Written(row) /\ Written(row') /\ row # NoRow /\ row' # NoRow /\ row'.visible = row.visible
  BY WatchWrites, WrittenIsRow
<1>3. Made(pod') /\ pod' # NoPod /\ pod'.phase = pod.phase /\ last' = pod /\ Made(last')
  BY WatchWrites, PodFacts
<1>4. LifeOrder'
  <2>1. create \notin {"idle", "row"}
    BY <1>1 DEF RowInv, LifeOrder
  <2>2. create' \in {"row", "pod"} => row'.age = 0
    BY <1>1, WatchWrites DEF RowInv, LifeOrder
  <2>3. pod'.phase = "Pending" => ~last'.ready
    BY <1>3 DEF Made
  <2> QED
    BY <1>1, <1>2, <1>3, <2>1, <2>2, <2>3 DEF LifeOrder
<1>5. LoopOrder'
  BY <1>1, <1>2 DEF RowInv, LoopOrder
<1>6. Shows'
  BY <1>3, WatchWrites DEF Shows
<1> QED
  BY <1>4, <1>5, <1>6

\* The first two steps of a create keep it.
LEMMA CreateKeeps ==
  ASSUME RowInv, CreateRow \/ CreatePod
  PROVE  /\ LifeOrder' /\ LoopOrder' /\ Shows'
         /\ row # NoRow /\ row'.visible => row.visible
<1>1. CASE CreateRow
  <2>1. row = NoRow /\ pod = NoPod /\ last = NoPod /\ ~stale /\ ~orphan /\ consumer = "none"
    BY <1>1 DEF CreateRow, RowInv, LifeOrder, LoopOrder
  <2>2. UNCHANGED <<pod, last, stale, consumer, orphan>>
    BY <1>1 DEF CreateRow, watch, loops
  <2>3. (row' = Upsert(NoRow) /\ create' = "row") \/ (row' = row /\ create' = "failed")
    BY <1>1, <2>1 DEF CreateRow
  <2>4. LifeOrder'
    BY <2>1, <2>2, <2>3, UpsertNew, NoPodFacts, WrittenIsRow DEF LifeOrder
  <2> QED
    BY <2>1, <2>2, <2>4 DEF LoopOrder, Shows
<1>2. CASE CreatePod
  <2>1. /\ Written(row) /\ row # NoRow /\ row.age = 0 /\ pod = NoPod /\ last = NoPod
        /\ ~stale /\ ~orphan
    BY <1>2, WrittenIsRow DEF CreatePod, RowInv, LifeOrder, LoopOrder
  <2>2. UNCHANGED <<last, stale, consumer, orphan>>
    BY <1>2 DEF CreatePod, watch, loops
  <2>3. CASE pod' = [NoPod EXCEPT !.phase = "Pending"] /\ create' = "pod" /\ row' = row
    <3>1. Made(pod')
      BY <2>3 DEF Made, Pods, NoPod
    <3>2. LifeOrder'
      BY <2>1, <2>2, <2>3, <3>1, NoPodFacts DEF LifeOrder
    <3> QED
      BY <2>1, <2>2, <2>3, <3>2 DEF LoopOrder, Shows
  <2>4. CASE (row' = row \/ row' = MarkDeleted(row)) /\ create' = "failed" /\ pod' = pod
    <3>1. Written(row') /\ row' # NoRow /\ (row'.visible => row.visible)
      BY <2>1, <2>4, MarkFacts, WrittenIsRow
    <3>2. LifeOrder'
      BY <2>1, <2>2, <2>4, <3>1, NoPodFacts DEF LifeOrder
    <3> QED
      BY <2>1, <2>2, <2>4, <3>1, <3>2 DEF LoopOrder, Shows
  <2> QED
    BY <1>2, <2>3, <2>4 DEF CreatePod
<1> QED
  BY <1>1, <1>2

\* It holds before the create.
LEMMA RowInit == SessionInit => RowInv
<1> SUFFICES ASSUME SessionInit PROVE RowInv
  OBVIOUS
<1>1. SessionTypeOK
  <2>1. 0 \in 0..MaxFailures /\ 0 \in 0..MaxSteps
    BY SessionBounds
  <2> QED
    BY <2>1, NoRowFacts, NoPodFacts, Zenon DEF SessionInit, SessionTypeOK
<1>2. LifeOrder
  BY NoRowFacts, NoPodFacts DEF SessionInit, LifeOrder
<1> QED
  BY <1>1, <1>2 DEF SessionInit, RowInv, LoopOrder, Shows

\* Every step keeps it.
LEMMA RowNext == RowInv /\ [SessionNext]_sessionVars => RowInv'
<1> SUFFICES ASSUME RowInv, [SessionNext]_sessionVars PROVE RowInv'
  OBVIOUS
<1>1. CASE SessionNext
  <2>1. LifeOrder' /\ LoopOrder' /\ Shows'
    <3>1. CASE QuietNext
      BY <3>1, QuietSteps, QuietKeeps
    <3>2. CASE HandleUpsert
      BY <3>2, WatchKeeps
    <3>3. CASE CreateRow \/ CreatePod
      BY <3>3, CreateKeeps
    <3> QED
      BY <1>1, <3>1, <3>2, <3>3 DEF SessionNext, QuietNext
  <2>2. Scalars'
    BY <1>1, ScalarSteps
  <2>3. row' \in Rows /\ pod' \in Pods /\ last' \in Pods
    BY <2>1, NoRowFacts, NoPodFacts DEF LifeOrder, Written, Made
  <2>4. SessionTypeOK'
    BY <2>2, <2>3 DEF SessionTypeOK, Scalars
  <2> QED
    BY <2>1, <2>4 DEF RowInv
<1>2. CASE UNCHANGED sessionVars
  BY <1>2 DEF sessionVars, RowInv, SessionTypeOK, LifeOrder, LoopOrder, Shows, Written, Made
<1> QED
  BY <1>1, <1>2

\* So it holds throughout.
LEMMA RowInvHolds == SessionSpec => []RowInv
  BY RowInit, RowNext, PTL DEF SessionSpec

\* A terminal row is Failed, and a row whose pod the watch has seen as it is and of
\* which it lost no write is Active exactly when the pod is ready, for any number
\* of failed calls, lost leases, deaths, deletes and pod mishaps
\* (applyRowColumnChanges, handleUpsert, emitCurrentConditions, reconcileSessionRows).
THEOREM RowIsSafe == SessionSpec => []RowSafe
<1>1. RowInv => RowSafe
  <2> SUFFICES ASSUME RowInv PROVE RowSafe
    OBVIOUS
  <2>1. StickyTerminal
    BY NoRowFacts DEF RowInv, LifeOrder, Written, StickyTerminal
  <2>2. WatchedStatus
    BY DEF RowInv, Shows, WatchedStatus
  <2> QED
    BY <2>1, <2>2 DEF RowInv, RowSafe
<1> QED
  BY <1>1, RowInvHolds, PTL

\* A hidden session reappears only through the second upsert of its own create, and
\* the sweep takes no consumer of a session that is visible and runs
\* (Manager.Create, applyRowColumnChanges, SweepOrphanConsumers).
THEOREM RowStepsAreSafe == SessionSpec => RowStepsSafe
<1>1. RowInv /\ [SessionNext]_sessionVars
        => [(row # NoRow /\ ~row.visible /\ row'.visible) => create = "pod"]_sessionVars
  <2> SUFFICES ASSUME RowInv, SessionNext, row # NoRow, ~row.visible, row'.visible
               PROVE  create = "pod"
    BY DEF sessionVars
  <2>1. CASE QuietNext
    BY <2>1, QuietSteps DEF Quiet, RowWrite
  <2>2. CASE HandleUpsert
    BY <2>2, WatchWrites
  <2>3. CASE CreateRow \/ CreatePod
    BY <2>3, CreateKeeps
  <2> QED
    BY <2>1, <2>2, <2>3 DEF SessionNext, QuietNext
<1>2. RowInv /\ [SessionNext]_sessionVars
        => [(consumer # "none" /\ consumer' = "none") => ~(row.visible /\ pod.phase = "Running")]_sessionVars
  <2> SUFFICES ASSUME RowInv, SessionNext, consumer # "none", consumer' = "none"
               PROVE  ~(row.visible /\ pod.phase = "Running")
    BY DEF sessionVars
  <2>1. orphan
    BY ScalarSteps
  <2> QED
    BY <2>1 DEF RowInv, LoopOrder
<1> QED
  BY <1>1, <1>2, RowInvHolds, PTL
  DEF SessionSpec, RowStepsSafe, ReappearsOnlyInCreate, LiveConsumersKept
=============================================================================
