--------------------------- MODULE TranscriptView ---------------------------
(***************************************************************************)
(* The transcript as a browser sees it.  Every batch of events is followed *)
(* by one refresh of the stored rows, of the turns it touches or of the    *)
(* whole session; a browser reads the stored rows and then a stream of     *)
(* changed rows cut by their end keys, which it merges into its own list.  *)
(*                                                                         *)
(* The refresh is the reference projection.  That the checkpointed fold    *)
(* writes the same rows is the subject of module TranscriptRows.           *)
(***************************************************************************)
EXTENDS TranscriptProjection

CONSTANTS
  MaxDrops     \* bound: connections of the stream that end

ASSUME DropsAssumption == MaxDrops \in Nat

VARIABLES
  rows,      \* session_transcript_rows
  epoch,     \* rewrite_epoch; 0 before the first rewrite of the session
  pc,        \* the browser: none, fetched, keyed, opening, open
  view,      \* the rows the browser shows
  cursor,    \* last order key the browser holds
  seen,      \* the epoch the stream was opened under
  torn,      \* rows were written between the two reads of the snapshot, or all
             \* of them rewritten while no stream was open
  drops

viewVars == <<rows, epoch, pc, view, cursor, seen, torn, drops>>

-----------------------------------------------------------------------------
(* Materializer *)

(* Upsert by row id; ReplaceForTurn deletes the turn's rows first. *)
Upsert(R, new) == {r \in R : r.id \notin {n.id : n \in new}} \cup new

ReplaceForTurn(R, E, t) ==
  Upsert({r \in R : r.turn # t}, Rows(ReadAllTurnEvents(E, t)))

(* refreshSessionBatch: what sends the whole session to the projection. *)
CrossTurn(E, batch) ==
  \/ \E e \in batch : e.type \in {"answered", "taskStart", "taskExit"}
  \/ \E t \in TurnsOf(batch) : \E e \in OfTurn(E, t) :
       e.type \in {"taskStart", "taskExit"} \/ e \in WakeSubmits(E)

NoticeRows(batch) == UNION {Rows({e}) : e \in OfTurn(batch, NoTurn)}

(* A batch touches two turns at most: a turn and the question it asked.    *)
TurnScope(R, E, batch) ==
  LET asking == {t \in TurnsOf(batch) : t[1] # "ask"}
      asked  == TurnsOf(batch) \ asking
      one(Q, T) == IF T = {} THEN Q ELSE ReplaceForTurn(Q, E, CHOOSE t \in T : TRUE)
  IN one(one(Upsert(R, NoticeRows(batch)), asking), asked)

RefreshEventBatch ==
  LET batch == ledger' \ ledger
  IN IF CrossTurn(ledger', batch)
     THEN rows' = Rows(ledger') /\ epoch' = epoch + 1
     ELSE rows' = TurnScope(rows, ledger', batch) /\ UNCHANGED epoch

Materialized == scope.reader \in {"rows", "stream"}
Refresh ==
  /\ LedgerNext
  /\ IF Materialized THEN RefreshEventBatch ELSE UNCHANGED <<rows, epoch>>
  /\ torn' = \/ torn
             \/ pc = "fetched" /\ rows' # rows
             \/ pc = "keyed" /\ epoch' # epoch
  /\ UNCHANGED <<pc, view, cursor, seen, drops>>

-----------------------------------------------------------------------------
(* Browser *)

MaxEndOrderKey == IF rows = {} THEN 0 ELSE MaxOf({r.end : r \in rows})

(* sessionTimelineBody, first half: rows are backfilled if the session has *)
(* never been, and the page of rows is read.                               *)
FetchRows ==
  /\ scope.reader = "stream" /\ pc = "none" /\ pc' = "fetched"
  /\ IF epoch = 0
     THEN rows' = Rows(ledger) /\ epoch' = 1
     ELSE UNCHANGED <<rows, epoch>>
  /\ view' = rows'
  /\ torn' = FALSE
  /\ UNCHANGED <<ledgerVars, cursor, seen, drops>>

(* Its second half: the cursor for the stream, from the rows and never     *)
(* from the ledger.                                                        *)
FetchCursor ==
  /\ pc = "fetched" /\ pc' = "keyed"
  /\ cursor' = MaxEndOrderKey
  /\ UNCHANGED <<ledgerVars, rows, epoch, view, seen, torn, drops>>

(* handleSessionEventStream: the cursor must name an event, the epoch is   *)
(* read, and the first page is written without a look at the epoch.        *)
CursorExists == cursor % 2 = 0

OpenStream ==
  /\ pc = "keyed"
  /\ IF CursorExists THEN pc' = "opening" /\ seen' = epoch
                     ELSE pc' = "none" /\ UNCHANGED seen
  /\ UNCHANGED <<ledgerVars, rows, epoch, view, cursor, torn, drops>>

(* ListChangedAfterOrderKey *)
ChangedByPlace == {r \in rows : r.start > cursor}
Changed == {r \in rows : r.end > cursor}

(* mergeProjectedTranscriptRowUpdates: the updates replace rows of their   *)
(* id, compacted rows disappear, and so does the shell of a turn that got  *)
(* a terminal row and no shell.                                            *)
MergeRowUpdates(current, updates) ==
  LET compacted == UNION {r.compacted : r \in updates}
      shells    == {r.turn : r \in {u \in updates : u.id[1] = "shell"}}
      terminal  == {r.turn : r \in {u \in updates : u.terminal}}
      stale(r)  == r.id \in compacted
                   \/ (r.id[1] = "shell" /\ r.turn \in terminal \ shells)
  IN Upsert({r \in current : ~stale(r)}, updates)

WritePage ==
  /\ view' = MergeRowUpdates(view, Changed)
  /\ cursor' = IF Changed = {} THEN cursor ELSE MaxOf({r.end : r \in Changed})

FirstPage ==
  /\ pc = "opening" /\ pc' = "open"
  /\ WritePage
  /\ UNCHANGED <<ledgerVars, rows, epoch, seen, torn, drops>>

(* A wake or a heartbeat: a moved epoch sends the browser back to the      *)
(* snapshot, otherwise the changed rows are written.                       *)
WakeStream ==
  /\ pc = "open"
  /\ \/ epoch # seen /\ pc' = "none" /\ UNCHANGED <<view, cursor>>
     \/ epoch = seen /\ Changed # {} /\ pc' = "open" /\ WritePage
  /\ UNCHANGED <<ledgerVars, rows, epoch, seen, torn, drops>>

(* The connection ends; EventSource reconnects with its last event id. *)
DropStream ==
  /\ pc = "open" /\ drops < MaxDrops
  /\ pc' = "keyed" /\ drops' = drops + 1
  /\ torn' = (torn \/ epoch # seen)
  /\ UNCHANGED <<ledgerVars, rows, epoch, view, cursor, seen>>

ViewInit ==
  /\ rows = {} /\ epoch = 0 /\ pc = "none" /\ view = {} /\ cursor = 0
  /\ seen = 0 /\ torn = FALSE /\ drops = 0

BrowserNext ==
  \/ FetchRows \/ FetchCursor \/ OpenStream \/ FirstPage \/ WakeStream
  \/ DropStream

-----------------------------------------------------------------------------
(* Properties *)

(* Nothing the agent or the user produced leaves the transcript: every     *)
(* entry of the session is a row, or in the body of a shell that is a row. *)
(* Progress chips are not content, a question's card lives on the page of  *)
(* its turn, and the startup notices of an open turn wait for its shell.   *)
Shown(R) == {r.id : r \in R} \cup UNION {r.body : r \in R}
Content(E) ==
  {x \in Flat(E) : /\ x.kind \notin {"progress", "card"}
                   /\ x.kind \in {"status", "askTool"} => Closed(E, x.turn)}
NothingLost ==
  scope.reader = "rows" => {x.id : x \in Content(ledger)} \subseteq Shown(Rows(ledger))

(* The incremental refreshes agree with the projection of the session once *)
(* every turn is closed.                                                   *)
Settled ==
  /\ \A t \in TurnsOf(ledger) : Closed(ledger, t) \/ Has(ledger, "question", t)
  /\ \A e \in Of(ledger, "status"), m \in Of(ledger, "user") : e.key < m.key
Chips(R) == {r \in R : r.id[1] = "progress"}
Comparable(R) == {[r EXCEPT !.state = NoState] : r \in R \ Chips(R)}
RowsMatchSession ==
  Materialized /\ Settled => Comparable(rows) = Comparable(Rows(ledger))

(* A stored shell is active only while its turn has no terminal.           *)
FinishedNotActive ==
  \A r \in rows : r.status = "active" => ~Closed(ledger, r.turn)

(* A shell never sorts above the message of its turn.                      *)
ShellBelowMessage ==
  \A r, m \in rows : r.id[1] = "shell" /\ m.id[1] = "user" /\ m.turn = r.turn
                       => m.start < r.start

(* What an open stream still owes the browser is ahead of its cursor.  A   *)
(* shell that holds nothing but notices older than its message ends before *)
(* it starts, and its last update is not delivered.                        *)
Streaming == pc = "open" /\ seen = epoch /\ ~torn
StreamDelivers ==
  Streaming => \A r \in rows : r \in view \/ r.end > cursor \/ r.end < r.start

(* And the browser shows no row that is gone.                              *)
NoGhostRows ==
  Streaming /\ Changed = {} => {r.id : r \in view \ Chips(view)} \subseteq {r.id : r \in rows}

(* The transcript is whole and in order: nothing is lost, no finished turn *)
(* is active, no shell is above its message.                               *)
TranscriptWhole == NothingLost /\ FinishedNotActive /\ ShellBelowMessage

(* What is updated piece by piece follows the whole: the stored rows the   *)
(* projection of the session, the browser the stored rows, additions and   *)
(* removals.                                                               *)
UpdatesAgree == RowsMatchSession /\ StreamDelivers /\ NoGhostRows
=============================================================================
