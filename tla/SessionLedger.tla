--------------------------- MODULE SessionLedger ---------------------------
(***************************************************************************)
(* The durable conversation events of one session, and the batches in     *)
(* which the handlers and the runner publish them.  The read models of    *)
(* the session (transcript rows, turn pages, chat activity) are functions *)
(* of this ledger; the module gives them every order of events that the   *)
(* publishers can produce.  An event's key is its order_key: events are   *)
(* stored in the order of their keys here (late keys are the subject of   *)
(* module EventPersister).                                                *)
(***************************************************************************)
EXTENDS Naturals, Sequences, FiniteSets

CONSTANTS
  Scopes     \* bounds of one behaviour: the number of user turns, tasks,
             \* generations of a task's wake, questions, notices and events,
             \* and who reads the ledger meanwhile

ASSUME ScopesAssumption ==
  Scopes \subseteq [turns : Nat, tasks : Nat, gens : Nat, asks : Nat, notices : Nat,
                    events : Nat,
                    reader : {"rows", "stream", "pages", "cache", "activity", "count"}]

VARIABLES
  ledger,    \* the rows of session_events
  scope      \* the bounds chosen for this behaviour

ledgerVars == <<ledger, scope>>

-----------------------------------------------------------------------------
(* Turn ids: a user's turn, the question shell it opened, the g-th wake    *)
(* turn of a task.                                                         *)
NoTurn      == <<"none", 0, 0>>
UserTurn(n) == <<"turn", n, 0>>
AskTurn(t)  == <<"ask", t[2], t[3]>>
AskingTurn(q) == IF q[3] = 0 THEN UserTurn(q[2]) ELSE <<"wake", q[2], q[3]>>
WakeTurn(k, g) == <<"wake", k, g>>

isBackgroundWakeTurnID(t) == t[1] = "wake"

(* The envelope of an event: StampEventMap and the builders around it.     *)
Event(type, t) ==
  [key |-> 0, type |-> type, turn |-> t, task |-> 0, ref |-> NoTurn, final |-> {}]
TaskEvent(type, t, k) == [Event(type, t) EXCEPT !.task = k]
LinkEvent(type, t, ref) == [Event(type, t) EXCEPT !.ref = ref]

(* Queries on a set of events E. *)
Of(E, type)      == {e \in E : e.type = type}
OfTurn(E, t)     == {e \in E : e.turn = t}
Has(E, type, t)  == \E e \in E : e.type = type /\ e.turn = t
TurnsOf(E)       == {e.turn : e \in E} \ {NoTurn}
First(E)         == CHOOSE e \in E : \A f \in E : e.key <= f.key
Last(E)          == CHOOSE e \in E : \A f \in E : e.key >= f.key
MaxKey(E)        == IF E = {} THEN 0 ELSE Last(E).key

TerminalTypes == {"completed", "failed", "interrupted", "answered"}
Terminals(E, t) == {e \in E : e.turn = t /\ e.type \in TerminalTypes}
Closed(E, t)    == Terminals(E, t) # {}

(* Tasks: the turn that started one, and whether it has ended. *)
TaskEvents(E, k) == {e \in E : e.type \in {"taskStart", "taskExit"} /\ e.task = k}
TasksOf(E)       == {e.task : e \in {f \in E : f.type \in {"taskStart", "taskExit"}}}
TaskTurn(E, k)   == IF TaskEvents(E, k) = {} THEN NoTurn ELSE Last(TaskEvents(E, k)).turn
Exited(E, k)     == {e \in E : e.type = "taskExit" /\ e.task = k}

-----------------------------------------------------------------------------
(* What the publishers may do next *)

(* A turn that asked has handed over to its question; the runner is busy   *)
(* with one turn at a time and waits while a question is open.             *)
Asked(t) == Has(ledger, "question", t)
OpenQuestion(t) == Asked(t) /\ ~Closed(ledger, AskTurn(t))
Running(t) == Has(ledger, "started", t) /\ ~Closed(ledger, t) /\ ~Asked(t)
Idle == \A t \in TurnsOf(ledger) : ~Running(t) /\ ~OpenQuestion(t)
NextTurn == UserTurn(Cardinality(Of(ledger, "user")) + 1)

Publish(batch) ==
  LET n == Cardinality(ledger)
  IN /\ n + Len(batch) <= scope.events
     /\ ledger' = ledger \cup
          {[batch[i] EXCEPT !.key = n + i] : i \in 1 .. Len(batch)}
     /\ UNCHANGED scope

(* UserSubmissionEventMaps: the message and the turn it submits. *)
UserSubmission(t) == <<Event("user", t), Event("submitted", t)>>

Submit ==
  /\ Cardinality(Of(ledger, "user")) < scope.turns
  /\ Publish(UserSubmission(NextTurn))

Start(t) ==
  /\ Has(ledger, "submitted", t) /\ t[1] # "ask" /\ Idle
  /\ ~Has(ledger, "started", t) /\ ~Closed(ledger, t)
  /\ Publish(<<Event("started", t)>>)

Reply(t) ==
  /\ Running(t) /\ ~Has(ledger, "reply", t)
  /\ Publish(<<Event("reply", t)>>)

TaskStart(t) ==
  LET k == Cardinality(TasksOf(ledger)) + 1
  IN /\ Running(t) /\ k <= scope.tasks
     /\ Publish(<<TaskEvent("taskStart", t, k)>>)

TaskExit(k) ==
  /\ Exited(ledger, k) = {}
  /\ Publish(<<TaskEvent("taskExit", TaskTurn(ledger, k), k)>>)

(* turn.completed names the replies that are its final answer. *)
Complete(t) ==
  /\ Running(t)
  /\ Publish(<<[Event("completed", t) EXCEPT
                  !.final = {e.key : e \in Of(OfTurn(ledger, t), "reply")}]>>)

(* turn.failed of the runner, turn.command_failed of the publish path or   *)
(* of the stranded-turn sweep.                                             *)
Fail(t) ==
  /\ Has(ledger, "submitted", t) /\ ~Closed(ledger, t) /\ ~Asked(t) /\ t[1] # "ask"
  /\ Publish(<<Event("failed", t)>>)

(* A background-task wake: a turn without a user message, whose            *)
(* turn.submitted carries the source and the task.  The next generation is *)
(* armed once the previous one is closed.                                  *)
Wake(k, g) ==
  /\ Exited(ledger, k) # {} /\ Closed(ledger, TaskTurn(ledger, k)) /\ Idle
  /\ TurnsOf(ledger) \cap {WakeTurn(k, h) : h \in g .. scope.gens} = {}
  /\ g > 1 => Closed(ledger, WakeTurn(k, g - 1))
  /\ Publish(<<TaskEvent("submitted", WakeTurn(k, g), k)>>)

(* pauseTurnForInput: the invocation and the message on the asking turn,   *)
(* the question shell with its pause.                                      *)
Ask(t) ==
  /\ Running(t) /\ Cardinality(Of(ledger, "question")) < scope.asks
  /\ Publish(<<LinkEvent("invocation", t, AskTurn(t)), LinkEvent("question", t, AskTurn(t)),
               Event("submitted", AskTurn(t)), LinkEvent("awaiting", AskTurn(t), t)>>)

(* handleAnswerSessionTurn: the answer closes the question turn and the    *)
(* agent goes on under a turn of its own.                                  *)
Answer(t) ==
  /\ OpenQuestion(t)
  /\ Publish(<<LinkEvent("answered", AskTurn(t), t)>> \o UserSubmission(NextTurn))

(* handleInterruptSessionTurn, and the runner's terminals for it: a        *)
(* question is dismissed together with the turn that asked it.             *)
Stop(t) ==
  /\ Running(t) \/ \E u \in TurnsOf(ledger) : OpenQuestion(u) /\ t = AskTurn(u)
  /\ ~Has(ledger, "interruptReq", t)
  /\ Publish(<<Event("interruptReq", t)>>)

Stopped(t) ==
  /\ Has(ledger, "interruptReq", t) /\ ~Closed(ledger, t)
  /\ Publish(IF t[1] = "ask"
             THEN <<Event("interrupted", t), Event("interrupted", AskingTurn(t))>>
             ELSE <<Event("interrupted", t)>>)

(* session.status loading/ready, and the banners that stay on top: a       *)
(* failed status, a provider's banner, test_provision.updated.             *)
Notice(type) ==
  /\ Cardinality(OfTurn(ledger, NoTurn)) < scope.notices
  /\ Publish(<<Event(type, NoTurn)>>)

LedgerInit == ledger = {} /\ scope \in Scopes

LedgerNext ==
  \/ Submit
  \/ \E t \in TurnsOf(ledger) :
       \/ Start(t) \/ Reply(t) \/ TaskStart(t) \/ Complete(t) \/ Fail(t)
       \/ Ask(t) \/ Answer(t) \/ Stop(t) \/ Stopped(t)
  \/ \E k \in TasksOf(ledger) : TaskExit(k) \/ \E g \in 1 .. scope.gens : Wake(k, g)
  \/ \E type \in {"status", "banner"} : Notice(type)
=============================================================================
