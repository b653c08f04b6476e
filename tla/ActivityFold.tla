---------------------------- MODULE ActivityFold ----------------------------
(***************************************************************************)
(* The activity summary on a session's row: what the sidebar shows.  It is *)
(* folded from the latest lifecycle events and the summary stored before,  *)
(* by refreshes that read and write without a transaction, on two          *)
(* replicas, after every batch of events, every read mark and every wake   *)
(* that ends; the write is guarded by the order key it was folded at.      *)
(***************************************************************************)
EXTENDS TranscriptProjection

Lists == INSTANCE SequencesExt

CONSTANTS
  Jobs,      \* refreshes that can be in flight together
  Window,    \* lifecycle events that one refresh reads: 50 in the code, two at least, since
             \* a request to stop shows nothing of the status that the event before it set
  MaxReads   \* bound: marks of the reader

ASSUME ActivityAssumption ==
  Window \in Nat \ {0, 1} /\ MaxReads \in Nat /\ IsFiniteSet(Jobs)

VARIABLES
  summary,   \* sessions.activity_summary
  messages,  \* sessions.user_message_count
  read,      \* conversation_read_state.last_read_order_key
  reads,     \* marks so far
  job,       \* refreshes in flight
  owed,      \* classes of refresh that events or marks still call for
  overtaken  \* two counts of messages were in flight together

activityVars == <<summary, messages, read, reads, job, owed, overtaken>>

-----------------------------------------------------------------------------
(* DeriveActivitySummaryWithStats *)

LifecycleTypes ==
  {"submitted", "started", "completed", "failed", "interruptReq", "interrupted",
   "awaiting", "answered"}

Summary(status, active, key, unread) ==
  [status |-> status, active |-> active, key |-> key, unread |-> unread]
NoSummary == Summary("ready", NoTurn, 0, 0)

Outcome == [completed |-> "ready", failed |-> "error", interrupted |-> "stopped",
            answered |-> "ready"]
Boundary == [submitted |-> "submitted", started |-> "streaming"]

canTransitionToStopping(status) ==
  status \in {"submitted", "streaming", "needs_input", "stopping"}

(* One event.  A boundary of a turn whose terminal came first is ignored,  *)
(* a request to stop counts only while something is going on.              *)
Fold(s, e, done) ==
  LET t == [s EXCEPT !.key = e.key]
  IN CASE e.type \in DOMAIN Boundary ->
            IF e.turn \in done THEN t
            ELSE [t EXCEPT !.status = Boundary[e.type], !.active = e.turn]
       [] e.type \in DOMAIN Outcome ->
            [t EXCEPT !.status = Outcome[e.type], !.active = NoTurn]
       [] e.type = "awaiting" -> [t EXCEPT !.status = "needs_input", !.active = e.turn]
       [] e.type = "interruptReq" ->
            IF canTransitionToStopping(s.status) THEN [t EXCEPT !.status = "stopping"] ELSE t

TurnTerminals == {"completed", "failed", "interrupted"}
InOrder(E) ==
  [i \in 1 .. Cardinality(E) |->
     CHOOSE e \in E : Cardinality({f \in E : f.key < e.key}) = i - 1]

Derive(prior, E) ==
  LET done(e) == {f.turn : f \in {g \in E : g.type \in TurnTerminals /\ g.key < e.key}}
  IN Lists!FoldLeft(LAMBDA s, e : Fold(s, e, done(e)), prior, InOrder(E))

(* LatestLifecycleEvents *)
Lifecycle(E) == {e \in E : e.type \in LifecycleTypes}
LatestLifecycleEvents(E) ==
  {e \in Lifecycle(E) : Cardinality({f \in Lifecycle(E) : f.key > e.key}) < Window}

(* UnreadOutputCount: replies and finished turns after the cursor. *)
UnreadOutputCount(E, k) ==
  Cardinality({e \in Of(E, "reply") : e.key > k})
  + Cardinality({e.turn : e \in {f \in E : f.type \in TurnTerminals /\ f.key > k}})

(* resolveStoppingActivityFromTerminal *)
ResolveStopping(E, s) ==
  LET ends == {e \in E : e.type \in TurnTerminals /\ e.turn = s.active}
  IN IF s.status = "stopping" /\ ends # {}
     THEN [s EXCEPT !.status = Outcome[Last(ends).type], !.active = NoTurn] ELSE s

(* applyScheduledWakeOverride.  A wake is pending from the start of a task *)
(* until the wake turn is submitted (module BackgroundTaskWake).           *)
HasPendingWake(E) == \E k \in TasksOf(E) : \A t \in TurnsOf(E) : t # WakeTurn(k, 1)
ScheduledOverride(E, s) ==
  IF s.status = "ready" /\ HasPendingWake(E) THEN [s EXCEPT !.status = "scheduled"]
  ELSE IF s.status = "scheduled" /\ ~HasPendingWake(E) THEN [s EXCEPT !.status = "ready"]
  ELSE s

Refreshed(prior, E, k) ==
  [ScheduledOverride(E, ResolveStopping(E, Derive(prior, LatestLifecycleEvents(E))))
     EXCEPT !.unread = UnreadOutputCount(E, k)]

-----------------------------------------------------------------------------
(* RefreshSessionActivity and refreshUserMessageCount *)

NoJob == [pc |-> "none", prior |-> NoSummary, next |-> NoSummary, count |-> 0]

(* EmitChatActivityDelta: the refreshes a batch of events calls for. *)
DeltaClasses(batch) ==
  (IF Lifecycle(batch) # {} THEN {"activity"} ELSE {})
  \cup (IF Of(batch, "user") # {} THEN {"count"} ELSE {})

(* The two classes refresh different columns; a behaviour follows one.     *)
EmitDelta == owed' = owed \cup (DeltaClasses(ledger' \ ledger) \cap {scope.reader})

(* The row is read first, the ledger and the read cursor after it. *)
ReadPrior(j) ==
  /\ job[j] = NoJob /\ "activity" \in owed
  /\ job' = [job EXCEPT ![j] = [NoJob EXCEPT !.pc = "row", !.prior = summary]]
  /\ owed' = owed \ {"activity"}
  /\ UNCHANGED <<ledgerVars, summary, messages, read, reads, overtaken>>

(* An unchanged summary ends the refresh. *)
FoldEvents(j) ==
  /\ job[j].pc = "row"
  /\ LET next == Refreshed(job[j].prior, ledger, read)
     IN job' = [job EXCEPT ![j] = IF next = job[j].prior THEN NoJob
                                  ELSE [NoJob EXCEPT !.pc = "folded", !.next = next]]
  /\ UNCHANGED <<ledgerVars, summary, messages, read, reads, owed, overtaken>>

(* applyRowColumnChanges: only an equal or a newer key replaces the row.   *)
NoGuard(next) == TRUE
NotStale(next) == summary.key <= next.key
WriteSummary(j) ==
  /\ job[j].pc = "folded"
  /\ summary' = IF NotStale(job[j].next) THEN job[j].next ELSE summary
  /\ job' = [job EXCEPT ![j] = NoJob]
  /\ UNCHANGED <<ledgerVars, messages, read, reads, owed, overtaken>>

(* refreshUserMessageCount: counted, compared with the row, written.       *)
CountMessages(j) ==
  /\ job[j] = NoJob /\ "count" \in owed
  /\ job' = [job EXCEPT ![j] =
               [NoJob EXCEPT !.pc = "counted", !.count = Cardinality(Of(ledger, "user"))]]
  /\ owed' = owed \ {"count"}
  /\ overtaken' = (overtaken \/ \E i \in Jobs : job[i].pc \in {"counted", "higher"})
  /\ UNCHANGED <<ledgerVars, summary, messages, read, reads>>

SkipsCount(j) == job[j].count <= messages
CompareCount(j) ==
  /\ job[j].pc = "counted"
  /\ job' = [job EXCEPT ![j] = IF SkipsCount(j) THEN NoJob ELSE [@ EXCEPT !.pc = "higher"]]
  /\ UNCHANGED <<ledgerVars, summary, messages, read, reads, owed, overtaken>>

WriteCount(j) ==
  /\ job[j].pc = "higher"
  /\ messages' = job[j].count
  /\ job' = [job EXCEPT ![j] = NoJob]
  /\ UNCHANGED <<ledgerVars, summary, read, reads, owed, overtaken>>

(* handleUpdateSessionReadState: a browser's mark, which may be behind the *)
(* mark of another browser, and the refresh that follows.                  *)
Greatest(k) == MaxOf({k, read})
MarkRead(k) ==
  /\ scope.reader = "activity" /\ reads < MaxReads
  /\ read' = Greatest(k)
  /\ reads' = reads + 1
  /\ owed' = owed \cup {"activity"}
  /\ UNCHANGED <<ledgerVars, summary, messages, job, overtaken>>

ActivityInit ==
  /\ summary = NoSummary /\ messages = 0 /\ read = 0 /\ reads = 0
  /\ job = [j \in Jobs |-> NoJob] /\ owed = {} /\ overtaken = FALSE

ActivityNext ==
  \/ \E j \in Jobs :
       \/ ReadPrior(j) \/ FoldEvents(j) \/ WriteSummary(j)
       \/ CountMessages(j) \/ CompareCount(j) \/ WriteCount(j)
  \/ \E e \in ledger : e.type \in TurnTerminals \cup {"reply"} /\ MarkRead(e.key)

(* A batch of events is followed by the deltas it calls for. *)
ActivityOnLedger ==
  /\ EmitDelta
  /\ UNCHANGED <<summary, messages, read, reads, job, overtaken>>

-----------------------------------------------------------------------------
(* Properties *)

Quiet(class) == scope.reader = class /\ owed = {} /\ \A j \in Jobs : job[j] = NoJob

(* Whatever the order in which the refreshes read and wrote, the row ends  *)
(* with the status, the turn and the key of the whole ledger.              *)
StatusSettles ==
  Quiet("activity") => LET full == ScheduledOverride(ledger,
                         ResolveStopping(ledger, Derive(NoSummary, Lifecycle(ledger))))
           IN /\ summary.key = full.key /\ summary.active = full.active
              /\ summary.status = full.status

(* The sidebar and the transcript name the same running turn, although one *)
(* folds a window of the ledger and the other projects all of it.          *)
SidebarAgrees ==
  Quiet("activity") => /\ summary.active = ActiveTurn(ledger)
           /\ summary.status = "needs_input" <=> NeedsInput(ledger)

(* A finished session never hides output that was not read.                *)
Finished == \A t \in TurnsOf(ledger) : Closed(ledger, t) \/ Has(ledger, "question", t)
UnreadNotHidden ==
  Quiet("activity") /\ Finished => summary.unread >= UnreadOutputCount(ledger, read)

(* The count of messages reaches the ledger's, unless a second count was   *)
(* in flight and the older of the two wrote last.                          *)
CountSettles ==
  Quiet("count") /\ ~overtaken => messages = Cardinality(Of(ledger, "user"))

(* Once no refresh is under way the sidebar's summary is the ledger's,     *)
(* in whatever order the refreshes read and wrote.                         *)
SummarySettles == StatusSettles /\ SidebarAgrees /\ UnreadNotHidden
=============================================================================
