------------------------ MODULE TranscriptProjection ------------------------
(***************************************************************************)
(* projectTranscriptEvents: the transcript as a function of a set of       *)
(* events.  The events are applied in the order of their keys, the entries *)
(* of a turn are folded into the body of its activity shell, the shells of *)
(* wake turns into the shell of the turn they continue, and what is left   *)
(* are the rows of the main transcript.  Every operator takes the set of   *)
(* events E: the projection is applied to whole sessions, to the events of *)
(* one turn and to single events.                                          *)
(*                                                                         *)
(* Order keys are doubled so that the suffixed keys of question cards and  *)
(* of their invocations ("~awaiting_input") lie strictly between events.   *)
(***************************************************************************)
EXTENDS SessionLedger

OrderKey(e) == 2 * e.key
Suffixed(e) == 2 * e.key + 1

-----------------------------------------------------------------------------
(* The state that apply accumulates *)

(* applyTurnTerminal: the last terminal of a turn wins. *)
TerminalOf(E, t) == Last(Terminals(E, t))
TerminalKey(E, t) == IF Closed(E, t) THEN OrderKey(TerminalOf(E, t)) ELSE 0

(* The events that set activeTurnID: a boundary counts only while the turn *)
(* has no terminal yet, every terminal clears it.                          *)
Deciding(E) ==
  {e \in E : \/ e.type \in TerminalTypes \cup {"awaiting"}
             \/ /\ e.type \in {"submitted", "started"}
                /\ \A f \in Terminals(E, e.turn) : f.key > e.key}

ActiveTurn(E) ==
  LET D == Deciding(E)
  IN IF D = {} \/ Last(D).type \in TerminalTypes THEN NoTurn ELSE Last(D).turn

(* applyInterruptRequested: "stopping" replaces every status of an open    *)
(* turn, needs_input too.                                                  *)
NeedsInput(E) ==
  LET D == Deciding(E) \cup Of(E, "interruptReq")
  IN D # {} /\ Last(D).type = "awaiting"

(* backgroundTaskContinuationTurns: turns that completed before their task *)
(* ended.                                                                  *)
ContinuationOfOpenTasks(E) ==
  {t \in TurnsOf(E) :
     /\ Closed(E, t) /\ TerminalOf(E, t).type = "completed"
     /\ \E k \in TasksOf(E) : TaskTurn(E, k) = t /\ Exited(E, k) = {}}

ContinuationTurns(E) ==
  {t \in TurnsOf(E) :
     /\ Closed(E, t) /\ TerminalOf(E, t).type = "completed"
     /\ \E k \in TasksOf(E) :
          /\ TaskTurn(E, k) = t
          /\ \A x \in Exited(E, k) : x.key > TerminalOf(E, t).key}

(* isBackgroundTaskWakeTurnEvent *)
WakeSubmits(E) == {e \in E : e.type = "submitted" /\ e.task # 0}
WakeTurns(E) == {e.turn : e \in WakeSubmits(E)}

(* backgroundTaskWakeParentTurns: from the wake turn to the turn that      *)
(* started its task, and on while that is a wake turn itself.  NoTurn when *)
(* the walk does not end in a real turn.                                   *)
DirectParent(E, t) ==
  IF isBackgroundWakeTurnID(t) THEN TaskTurn(E, t[2]) ELSE t

WakeParent(E, t) ==
  LET up[n \in Nat] == IF n = 0 THEN t ELSE DirectParent(E, up[n - 1])
      root == up[Cardinality(TasksOf(E)) + 1]
  IN IF t \notin WakeTurns(E) \/ isBackgroundWakeTurnID(root) THEN NoTurn ELSE root

UserFacing(E, t) == IF WakeParent(E, t) = NoTurn THEN t ELSE WakeParent(E, t)

-----------------------------------------------------------------------------
(* projectFlatEntries *)

Entry(kind, n, t, key) == [id |-> <<kind, n>>, kind |-> kind, turn |-> t, key |-> key]
EventEntry(kind, e) == Entry(kind, e.key, e.turn, OrderKey(e))

(* assignSessionStatusOwnership: the turn of the last user message before  *)
(* the notice, else the first message; without any message the notice is   *)
(* an orphan and dropped (dropOrphanSessionLifecycle).                     *)
StatusOwner(E, e) ==
  LET before == {m \in Of(E, "user") : m.key < e.key}
  IN IF before # {} THEN Last(before).turn ELSE First(Of(E, "user")).turn

StatusEntries(E) ==
  IF Of(E, "user") = {} THEN {}
  ELSE {Entry("status", e.key, StatusOwner(E, e), OrderKey(e)) : e \in Of(E, "status")}

(* upsertBackgroundTask: one entry per task, at its first event. *)
TaskEntries(E) ==
  {Entry("task", k, TaskTurn(E, k), OrderKey(First(TaskEvents(E, k)))) : k \in TasksOf(E)}

(* applyBackgroundWakePrompt: only the first submit of a wake turn. *)
WakePromptEntries(E) ==
  {Entry("wakePrompt", e.key, e.turn, OrderKey(e)) :
     e \in {f \in WakeSubmits(E) : \A h \in WakeSubmits(E) : h.turn = f.turn => f.key <= h.key}}

TerminalEntries(E) ==
  {EventEntry("terminal", TerminalOf(E, t)) :
     t \in {u \in TurnsOf(E) : Closed(E, u) /\ TerminalOf(E, u).type \in {"failed", "interrupted"}}}

(* One operator per apply method of the state: the human's messages and    *)
(* the question an agent left, the items of the provider, the chips, the   *)
(* card of a pause and the call that led to it.                            *)
MessageEntries(E) == {EventEntry("user", e) : e \in Of(E, "user")}
QuestionEntries(E) == {EventEntry("question", e) : e \in Of(E, "question")}
ItemEntries(E) == {EventEntry("reply", e) : e \in Of(E, "reply")}
BannerEntries(E) == {EventEntry("banner", e) : e \in Of(E, "banner")}
InterruptEntries(E) == {EventEntry("interruptReq", e) : e \in Of(E, "interruptReq")}
ProgressEntries(E) ==
  {EventEntry("progress", e) : e \in Of(E, "submitted") \cup Of(E, "started")}
CardEntries(E) == {Entry("card", e.key, e.turn, Suffixed(e)) : e \in Of(E, "awaiting")}
InvocationEntries(E) ==
  {Entry("askTool", e.key, e.turn, Suffixed(e)) : e \in Of(E, "invocation")}

Flat(E) ==
  MessageEntries(E) \cup QuestionEntries(E) \cup ItemEntries(E) \cup BannerEntries(E)
  \cup InterruptEntries(E) \cup ProgressEntries(E) \cup CardEntries(E)
  \cup InvocationEntries(E) \cup StatusEntries(E) \cup TaskEntries(E)
  \cup WakePromptEntries(E) \cup TerminalEntries(E)

(* applyInputAnswered and noteQuestionDismissal: what a question shows.    *)
(* The message of a dismissed question stays answered if the answer came   *)
(* first.                                                                  *)
Answers(E, q) == {e \in E : e.type = "answered" /\ e.turn = q}
Dismissals(E, q) ==
  {e \in E : /\ e.type \in {"failed", "interrupted"} /\ e.turn = q
             /\ \E a \in Of(E, "awaiting") : a.turn = q /\ a.key < e.key}

QuestionState(E, q) ==
  [answered  |-> Answers(E, q) # {},
   dismissed |-> \E d \in Dismissals(E, q) : \A a \in Answers(E, q) : d.key < a.key]

(* projectAwaitingInputCard: on the card the answer wins. *)
CardState(E, q) ==
  [answered  |-> Answers(E, q) # {},
   dismissed |-> Dismissals(E, q) # {} /\ Answers(E, q) = {}]

ContentKey(E, q) ==
  2 * MaxKey(Answers(E, q) \cup
             {d \in Dismissals(E, q) : \A a \in Answers(E, q) : d.key < a.key})

-----------------------------------------------------------------------------
(* The bodies of the activity shells (transcript_turn_shell_fold.go) *)

EntriesOf(F, t) == {x \in F : x.turn = t}
Hidden == {"user", "progress"}

Body(t, status, entries, compacted, active) ==
  [turn |-> t, status |-> status, entries |-> entries, compacted |-> compacted,
   active |-> active]

(* finishTerminal *)
FinishTerminal(E, F, t) ==
  LET terminal == TerminalOf(E, t)
      own == {x \in EntriesOf(F, t) : x.kind = "terminal" /\ t \notin WakeTurns(E)}
      entries == {x \in EntriesOf(F, t) : x.kind \notin Hidden} \ own
      promoted == {x \in entries : /\ terminal.type = "completed" /\ x.kind = "reply"
                                   /\ x.id[2] \in terminal.final
                                   /\ t \notin ContinuationTurns(E)}
  IN Body(t, terminal.type, entries,
          {x \in entries \ promoted : x.kind # "card"}, FALSE)

(* finishAwaitingInputHandoff *)
HandsOver(E, t) == ~Closed(E, t) /\ Has(E, "question", t)
FinishAwaitingInputHandoff(F, t) ==
  LET entries == {x \in EntriesOf(F, t) : x.kind \notin Hidden}
  IN Body(t, "handoff", entries, {x \in entries : x.kind \notin {"question", "card"}}, FALSE)

(* finishActive *)
FinishActive(E, F, t) ==
  LET entries == {x \in EntriesOf(F, t) : x.kind \notin Hidden}
  IN Body(t, IF NeedsInput(E) THEN "needs_input" ELSE "active", entries,
          {x \in entries : x.kind # "card"}, TRUE)

Bodies(E, F) ==
  LET active == ActiveTurn(E)
  IN {b \in {FinishTerminal(E, F, t) : t \in {u \in TurnsOf(E) : Closed(E, u)}} : b.entries # {}}
     \cup {FinishAwaitingInputHandoff(F, t) : t \in {u \in TurnsOf(E) : HandsOver(E, u)}}
     \cup IF active = NoTurn \/ HandsOver(E, active) THEN {} ELSE {FinishActive(E, F, active)}

(* compactProjectedTranscript: which bodies take their entries out of the  *)
(* transcript, and which of those show a shell of their own.               *)
Compacts(b) == b.compacted # {} \/ b.active \/ b.status = "handoff"

WithShell(E, B) == {b \in B : Compacts(b) /\ WakeParent(E, b.turn) = NoTurn}

(* mergeBackgroundWakeActivityBodies: the shell of a turn holds the bodies *)
(* of its wake turns too.                                                  *)
BodiesOf(E, B, t) == {b \in B : b.turn = t \/ WakeParent(E, b.turn) = t}
MergedEntries(E, B, t) == UNION {b.entries : b \in BodiesOf(E, B, t)}
MergedCompacted(E, B, t) == UNION {b.compacted : b \in BodiesOf(E, B, t)}

(* projectionActivityEntryEndOrderKey: the stamp of the turn's terminal    *)
(* comes first, whatever the entry's own key is.  Notices are not stamped. *)
EntryEnd(E, x) ==
  IF x.kind \notin {"status", "banner"} /\ Closed(E, x.turn) THEN TerminalKey(E, x.turn) ELSE x.key

MaxOf(S) == CHOOSE n \in S : \A k \in S : n >= k
MinOf(S) == CHOOSE n \in S : \A k \in S : n <= k

(* turnActivitySummaryMap and applyActivityAnchorSummary: the span of a    *)
(* body; progress chips anchor a live shell.                               *)
Progress(F, t) == {x \in EntriesOf(F, t) : x.kind = "progress"}

ShellEnd(E, F, B, b) ==
  LET own == MergedEntries(E, B, b.turn)
  IN IF own = {} THEN MaxOf({x.key : x \in Progress(F, b.turn)})
     ELSE MaxOf({EntryEnd(E, x) : x \in own})

SpanStart(F, b) ==
  IF b.active /\ Progress(F, b.turn) # {}
  THEN MinOf({x.key : x \in Progress(F, b.turn)})
  ELSE MinOf({x.key : x \in b.entries})

(* buildTurnActivityShellRow: a start above the turn's message moves to    *)
(* the first entry of the turn below it.                                   *)
ShellStart(F, b) ==
  LET messages == {x.key : x \in {y \in EntriesOf(F, b.turn) : y.kind = "user"}}
      below == {x.key : x \in {y \in EntriesOf(F, b.turn) :
                                 messages # {} /\ y.key > MinOf(messages)}}
  IN IF messages # {} /\ SpanStart(F, b) <= MinOf(messages) /\ below # {}
     THEN MinOf(below) ELSE SpanStart(F, b)

-----------------------------------------------------------------------------
(* The rows of the main transcript *)

NoState == [answered |-> FALSE, dismissed |-> FALSE]

(* transcriptRowFromEntry: a row's end key is what the stream of changes   *)
(* is cut by; an answered or dismissed question moves it.                  *)
EntryRow(E, x) ==
  LET link == IF x.kind = "question"
              THEN (CHOOSE e \in E : e.key = x.id[2]).ref ELSE NoTurn
  IN [id |-> x.id, turn |-> UserFacing(E, x.turn), start |-> x.key,
      end |-> MaxOf({x.key, ContentKey(E, link), IF x.turn = NoTurn THEN 0 ELSE EntryEnd(E, x)}),
      status |-> "", body |-> {}, compacted |-> {},
      terminal |-> x.kind # "banner" /\ Closed(E, x.turn) /\ TerminalOf(E, x.turn).type # "answered",
      state |-> IF link = NoTurn THEN NoState ELSE QuestionState(E, link)]

ShellRow(E, F, B, b) ==
  [id |-> <<"shell", b.turn>>, turn |-> b.turn, start |-> ShellStart(F, b),
   end |-> ShellEnd(E, F, B, b), status |-> b.status,
   body |-> {x.id : x \in MergedEntries(E, B, b.turn)},
   compacted |-> {x.id : x \in MergedCompacted(E, B, b.turn)},
   terminal |-> FALSE, state |-> NoState]

(* projectTranscriptEvents, with filterMainTranscriptQuestionTurnRows.     *)
(* Progress chips are taken out together with the compacted entries: they  *)
(* stay when no turn has a body.                                           *)
Compacted(F, B) ==
  (UNION {b.compacted : b \in {c \in B : Compacts(c)}})
  \cup (IF B = {} THEN {} ELSE {x \in F : x.kind = "progress"})

Rows(E) ==
  LET F == Flat(E)
      B == Bodies(E, F)
      main == {x \in F \ Compacted(F, B) : x.kind \notin {"status", "card", "askTool"}}
  IN {EntryRow(E, x) : x \in main} \cup {ShellRow(E, F, B, b) : b \in WithShell(E, B)}

-----------------------------------------------------------------------------
(* The events that are projected for one turn *)

(* adoptLeadingSessionLifecycle: notices before the turn's first event,    *)
(* unless an earlier message owns them.                                    *)
Leading(E, t) ==
  LET bound == First(OfTurn(E, t)).key
  IN IF \E m \in Of(E, "user") : m.key < bound THEN {}
     ELSE {e \in Of(E, "status") : e.key < bound}

ReadAllTurnEvents(E, t) == IF OfTurn(E, t) = {} THEN {} ELSE OfTurn(E, t) \cup Leading(E, t)
=============================================================================
