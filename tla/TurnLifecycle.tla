--------------------------- MODULE TurnLifecycle ---------------------------
(***************************************************************************)
(* The life of a turn, from the browser's request to its durable terminal: *)
(* the enqueue, interrupt and answer handlers of the orchestrator, the two *)
(* command planes (a data plane that serializes submit_turn commands with  *)
(* max_ack_pending 1, and a control plane that must overtake it), the      *)
(* runner that accepts, pauses, rotates, stops and closes turns, and the   *)
(* stranded-turn sweep that closes what nobody else will.                  *)
(*                                                                         *)
(* One session.  Its ledger is a set of events <<id, type>>: event ids are *)
(* deterministic in the turn and the type, so a repeated write is the same *)
(* row.  The runner's own events reach the ledger through the persister:   *)
(* until then they are on the wire.                                        *)
(***************************************************************************)
EXTENDS Naturals, Sequences, FiniteSets, SequencesExt

CONSTANTS
  Turns,        \* turns submitted by the user, by a wake or by another session
  Asks,         \* the turns whose agent stops to ask a question (at most one each)
  Stops,        \* the turns whose Stop button is pressed, again and again
  MaxMishaps,   \* bound: Stop clicks, deaths of the runner process, failed or
                \* ambiguous publishes and lapsed deliveries, all together
  MaxDeliver,   \* max_deliver of the data-plane consumer
  MaxControlDeliver, \* max_deliver of the control-plane consumer
  None          \* no turn

ASSUME TurnsAssumption ==
  Asks \subseteq Turns /\ Stops \subseteq Turns /\ None \notin Turns
ASSUME BoundsAssumption ==
  /\ MaxMishaps \in Nat
  /\ MaxDeliver \in Nat \ {0} /\ MaxControlDeliver \in Nat \ {0}

VARIABLES
  ledger,       \* durable events of the session
  wire,         \* events the runner published and the persister has not stored
  failing,      \* turns whose submit publish failed, marker not yet written
  queue,        \* data plane: submit_turn commands not yet acked, oldest first
  deliveries,   \* how often the data plane delivered the command of a turn
  control,      \* control plane: <<kind, id>> commands to deliver (again)
  attempts,     \* how often the control plane delivered the interrupt of an id
                \* that is not acked yet
  held,         \* the head of the queue is out for delivery, its ack pending
  accepting,    \* runner: the delivery whose already-terminal check found nothing
  pendingTurns, \* runner: accepted turns, oldest first
  activeTurn,   \* runner: the turn the provider's frames are attributed to
  terminalEmitted, \* runner: owned turns whose terminal is published
  parked,       \* runner: owned turns whose terminal waits for a redelivery
  rotated,      \* runner: owned turns that continue under their answer's id
  pauses,       \* runner: turns paused in a question (pendingInputReplies)
  interrupts,   \* runner: buffered interrupts, by target id
  replies,      \* runner: parked answers, by asking turn
  sdk,          \* prompts the provider was fed and has not finished
  candidate,    \* the row the sweep has read and not yet failed, if any
  mishaps

ledgerVars == <<ledger, wire>>
planes     == <<queue, deliveries, control, attempts>>
runnerVars == <<held, accepting, pendingTurns, activeTurn, terminalEmitted, parked,
                rotated, pauses, interrupts, replies, sdk>>
vars == <<ledger, wire, failing, queue, deliveries, control, attempts, held,
          accepting, pendingTurns, activeTurn, terminalEmitted, parked, rotated,
          pauses, interrupts, replies, sdk, candidate, mishaps>>

(* A user turn, the question shell it may open and the turn of the answer. *)
Turn(t)     == <<t, "turn">>
Question(t) == <<t, "question">>
Answer(t)   == <<t, "answer">>
Ids == Turns \X {"turn", "question", "answer"}

TerminalTypes == {"completed", "failed", "command_failed", "interrupted"}
EventTypes == TerminalTypes \cup {"submitted", "interrupt_requested",
                                  "awaiting_input", "input_answered"}

FindTurnTerminal(id) == \E type \in TerminalTypes : <<id, type>> \in ledger
Published(id) ==
  \E type \in TerminalTypes : <<id, type>> \in ledger \cup Range(wire)

(* The id the runner publishes under: rotateTurnForInputReply moves a turn *)
(* to the id of the answer.                                                *)
CurrentId(t) == IF t \in rotated THEN Answer(t) ELSE Turn(t)

Owned == Range(pendingTurns) \cup ({activeTurn} \ {None}) \cup pauses

(* turnMatchesTarget and findTurnForKey: current and prior identities, and *)
(* the question shell while its pause is registered.                       *)
MatchesCurrentId(t, id) ==
  t \in Owned /\ (id = CurrentId(t) \/ (id = Question(t) /\ t \in pauses))

Matches(t, id) ==
  /\ t \in Owned
  /\ \/ id = Turn(t)
     \/ id = Answer(t) /\ t \in rotated
     \/ id = Question(t) /\ t \in pauses

Init ==
  /\ ledger = {} /\ wire = <<>> /\ failing = {}
  /\ queue = <<>> /\ deliveries = [t \in Turns |-> 0]
  /\ control = {} /\ attempts = [id \in Ids |-> 0]
  /\ held = FALSE /\ accepting = None
  /\ pendingTurns = <<>> /\ activeTurn = None
  /\ terminalEmitted = {} /\ parked = {} /\ rotated = {} /\ pauses = {}
  /\ interrupts = {} /\ replies = {} /\ sdk = <<>>
  /\ candidate = <<>>
  /\ mishaps = 0

Store(events) == ledger' = ledger \cup events

Publish(events) == wire' = wire \o events

Mishap == mishaps < MaxMishaps /\ mishaps' = mishaps + 1

-----------------------------------------------------------------------------
(* Orchestrator handlers *)

(* enqueueSDKTurn: the boundary events are durable before the command is   *)
(* published.  The publish has two legs; when the second one fails the     *)
(* command is already deliverable although the call returns an error.      *)
Enqueue(t) ==
  /\ <<Turn(t), "submitted">> \notin ledger
  /\ Store({<<Turn(t), "submitted">>})
  /\ \/ queue' = Append(queue, t) /\ UNCHANGED <<failing, mishaps>>
     \/ Mishap /\ failing' = failing \cup {t}
        /\ queue' \in {queue, Append(queue, t)}
  /\ UNCHANGED <<wire, deliveries, control, attempts, runnerVars, candidate>>

(* The error arm of the same call: turn.command_failed under the turn's id.*)
(* The write is best effort.                                               *)
EnqueueFailed(t) ==
  /\ t \in failing
  /\ failing' = failing \ {t}
  /\ \/ Store({<<Turn(t), "command_failed">>}) /\ UNCHANGED mishaps
     \/ Mishap /\ UNCHANGED ledger
  /\ UNCHANGED <<wire, planes, runnerVars, candidate>>

(* handleInterruptSessionTurn: nothing to do for a closed turn; otherwise  *)
(* turn.interrupt_requested is durable before the command.  When the       *)
(* publish fails the marker goes under the id of the interrupt itself, so  *)
(* the target keeps no trace of the failure.  Every Stop is a command of   *)
(* its own: two that target one turn are one element here, with the        *)
(* deliveries of the later.                                                *)
Interrupt(id) ==
  /\ id[1] \in Stops /\ Mishap
  /\ \E type \in {"submitted", "awaiting_input"} : <<id, type>> \in ledger
  /\ ~FindTurnTerminal(id)
  /\ Store({<<id, "interrupt_requested">>})
  /\ \/ UNCHANGED <<control, attempts>>
     \/ /\ control' = control \cup {<<"interrupt", id>>}
        /\ attempts' = [attempts EXCEPT ![id] = 0]
  /\ UNCHANGED <<wire, failing, queue, deliveries, runnerVars, candidate>>

(* turnAwaitingQuestionTarget: the question turn has its awaiting_input and *)
(* no terminal.                                                            *)
AwaitingInput(t) ==
  <<Question(t), "awaiting_input">> \in ledger /\ ~FindTurnTerminal(Question(t))

(* handleAnswerSessionTurn: input_answered on the question turn and the    *)
(* boundary of the continuation turn are durable before the input_reply.   *)
(* Every id is deterministic in the question, so a double submit collapses *)
(* in the ledger and in the stream's duplicate window.                     *)
AnswerBoundary(t) == {<<Question(t), "input_answered">>, <<Answer(t), "submitted">>}

AnswerQuestion(t) ==
  /\ AwaitingInput(t)
  /\ <<Question(t), "input_answered">> \notin ledger
  /\ \/ /\ Store(AnswerBoundary(t))
        /\ control' = control \cup {<<"reply", Turn(t)>>}
        /\ UNCHANGED mishaps
     \/ /\ Mishap
        /\ Store(AnswerBoundary(t) \cup {<<Question(t), "command_failed">>})
        /\ UNCHANGED control
  /\ UNCHANGED <<wire, failing, queue, deliveries, attempts, runnerVars, candidate>>

(* The event persister stores what the runner published, in its order. *)
Persist ==
  /\ wire # <<>>
  /\ Store({Head(wire)})
  /\ wire' = Tail(wire)
  /\ UNCHANGED <<failing, planes, runnerVars, candidate, mishaps>>

-----------------------------------------------------------------------------
(* Runner: data plane *)

(* An ack settles the message whichever delivery of it is acked, also one  *)
(* whose ack_wait lapsed; a nak hands it back.                             *)
IsHead(t) == queue # <<>> /\ Head(queue) = t
Settled(t) == RemoveFirst(queue, t)
Ack(t) == queue' = Settled(t) /\ held' = (held /\ ~IsHead(t))
Nak(t) == queue' = queue /\ held' = (held /\ ~IsHead(t))

Forget(t) ==
  /\ pendingTurns' = RemoveFirst(pendingTurns, t)
  /\ activeTurn' = IF activeTurn = t THEN None ELSE activeTurn

(* The data-plane consumer delivers one command at a time (max_ack_pending *)
(* 1), in order, and none more often than max_deliver.                     *)
UnserializedDelivery(t) == t \in Range(queue) /\ deliveries[t] < MaxDeliver
Deliverable(t) == IsHead(t) /\ ~held /\ deliveries[t] < MaxDeliver

(* acceptCommandTurn, first await: finalizeCommandIfAlreadyTerminal asks   *)
(* the ledger about the id the command was submitted under.                *)
CheckTerminal(t) ==
  /\ Deliverable(t) /\ accepting = None
  /\ deliveries' = [deliveries EXCEPT ![t] = @ + 1]
  /\ IF FindTurnTerminal(Turn(t))
     THEN /\ queue' = Settled(t) /\ UNCHANGED <<held, accepting>>
          /\ IF t \in parked \cap Owned
             THEN Forget(t) /\ parked' = parked \ {t}
                  /\ terminalEmitted' = terminalEmitted \cup {t}
             ELSE UNCHANGED <<pendingTurns, activeTurn, parked, terminalEmitted>>
     ELSE /\ held' = TRUE /\ accepting' = t
          /\ UNCHANGED <<queue, pendingTurns, activeTurn, parked, terminalEmitted>>
  /\ UNCHANGED <<ledgerVars, failing, control, attempts, rotated, pauses, interrupts,
                 replies, sdk, candidate, mishaps>>

(* reattachRedeliveredCommand: the terminal parked for this turn is        *)
(* published again, or the fresh delivery replaces the lapsed one.         *)
Reattach(t) ==
  /\ accepting = t /\ accepting' = None
  /\ Matches(t, Turn(t))
  /\ \/ /\ t \in parked
        /\ \/ /\ Publish(<<<<CurrentId(t), "failed">>>>)
              /\ terminalEmitted' = terminalEmitted \cup {t}
              /\ parked' = parked \ {t}
              /\ Forget(t) /\ Ack(t) /\ UNCHANGED mishaps
           \/ /\ Mishap /\ Nak(t)
              /\ UNCHANGED <<wire, terminalEmitted, parked, pendingTurns, activeTurn>>
     \/ /\ t \notin parked
        /\ UNCHANGED <<wire, terminalEmitted, parked, pendingTurns, activeTurn, queue,
                       held, mishaps>>
  /\ UNCHANGED <<ledger, failing, deliveries, control, attempts, rotated, pauses,
                 interrupts, replies, sdk, candidate>>

(* applyInterruptToTurn on a turn that is not closed: a pending question is *)
(* dismissed first, then turn.interrupted is published and both commands   *)
(* are acked.  When it cannot be published the fallback is turn.failed and *)
(* the interrupt is naked; when that fails as well the turn stays open and *)
(* only a redelivery of the interrupt tries again.  fails is the set of    *)
(* publishes that ran out of retries, rest the control plane without this  *)
(* delivery, the n-th of the interrupt.  A turn whose own terminal is      *)
(* parked holds no command to ack.                                         *)
StopTurn(t, id, rest, n) ==
  \E fails \in SUBSET {"shell", "interrupted", "failed"} :
    LET shell == IF t \in pauses /\ "shell" \notin fails
                 THEN <<<<Question(t), "interrupted">>>> ELSE <<>>
        type == IF "interrupted" \in fails THEN "failed" ELSE "interrupted"
    IN /\ IF fails = {} THEN UNCHANGED mishaps ELSE Mishap
       /\ pauses' = pauses \ {t}
       /\ IF type \notin fails
          THEN /\ Publish(Append(shell, <<CurrentId(t), type>>))
               /\ terminalEmitted' = terminalEmitted \cup {t}
               /\ IF t \in parked \cap Owned THEN UNCHANGED <<queue, held>> ELSE Ack(t)
          ELSE /\ Publish(shell)
               /\ terminalEmitted' = terminalEmitted \ {t}
               /\ UNCHANGED <<queue, held>>
       /\ IF "interrupted" \in fails
          THEN /\ control' = rest \cup {<<"interrupt", id>>}
               /\ attempts' = [attempts EXCEPT ![id] = n]
          ELSE /\ control' = rest
               /\ attempts' = [attempts EXCEPT ![id] = 0]

(* The rest of acceptCommandTurn: a new pending turn.  A buffered          *)
(* interrupt is applied to it before the provider sees the prompt; whether *)
(* or not that closes it, the turn stays in pendingTurns and is not fed.   *)
Accept(t) ==
  /\ accepting = t /\ accepting' = None
  /\ ~Matches(t, Turn(t))
  /\ pendingTurns' = Append(pendingTurns, t)
  /\ rotated' = rotated \ {t}
  /\ parked' = parked \ {t}
  /\ IF Turn(t) \in interrupts
     THEN /\ StopTurn(t, Turn(t), control, attempts[Turn(t)])
          /\ interrupts' = interrupts \ {Turn(t)}
          /\ UNCHANGED sdk
     ELSE /\ terminalEmitted' = terminalEmitted \ {t}
          /\ sdk' = Append(sdk, t)
          /\ UNCHANGED <<wire, queue, held, control, attempts, pauses, interrupts,
                         mishaps>>
  /\ UNCHANGED <<ledger, failing, deliveries, activeTurn, replies, candidate>>

(* ack_wait lapses (a blocked event loop, a NATS blip): the command will be*)
(* delivered again while the process still works on it.                    *)
Lapse ==
  /\ held /\ accepting = None /\ Mishap
  /\ held' = FALSE
  /\ UNCHANGED <<ledgerVars, failing, planes, accepting, pendingTurns, activeTurn,
                 terminalEmitted, parked, rotated, pauses, interrupts, replies, sdk,
                 candidate>>

(* max_deliver is reached: JetStream gives the command to nobody any more. *)
Exhaust(t) ==
  /\ IsHead(t) /\ ~held /\ deliveries[t] = MaxDeliver
  /\ queue' = Tail(queue)
  /\ UNCHANGED <<ledgerVars, failing, deliveries, control, attempts, runnerVars,
                 candidate, mishaps>>

-----------------------------------------------------------------------------
(* Runner: the provider's frames *)

(* ensureActiveTurn: the first frame of a prompt takes the oldest pending  *)
(* turn.                                                                   *)
FirstFrame ==
  /\ sdk # <<>> /\ activeTurn = None /\ pendingTurns # <<>>
  /\ activeTurn' = Head(pendingTurns)
  /\ pendingTurns' = Tail(pendingTurns)
  /\ UNCHANGED <<ledgerVars, failing, planes, held, accepting, terminalEmitted, parked,
                 rotated, pauses, interrupts, replies, sdk, candidate, mishaps>>

(* publishTurnTerminalOrDefer: the terminal is published and the command   *)
(* acked, or the terminal is parked and the command naked.                 *)
PublishTurnTerminalOrDefer(t, type) ==
  \/ /\ Publish(<<<<CurrentId(t), type>>>>)
     /\ terminalEmitted' = terminalEmitted \cup {t}
     /\ parked' = parked \ {t}
     /\ Ack(t) /\ UNCHANGED mishaps
  \/ /\ Mishap
     /\ parked' = parked \cup {t}
     /\ Nak(t) /\ UNCHANGED <<wire, terminalEmitted>>

(* handleEvent on the provider's result: a turn whose terminal is out is   *)
(* only forgotten; otherwise its natural terminal is published or parked,  *)
(* and the active turn is forgotten either way.                            *)
Result ==
  /\ sdk # <<>> /\ activeTurn \notin pauses
  /\ activeTurn = None => pendingTurns = <<>>
  /\ sdk' = Tail(sdk)
  /\ activeTurn' = None
  /\ IF activeTurn \in terminalEmitted \cup {None}
     THEN UNCHANGED <<wire, terminalEmitted, parked, queue, held, mishaps>>
     ELSE PublishTurnTerminalOrDefer(activeTurn, "completed")
  /\ UNCHANGED <<ledger, failing, deliveries, control, attempts, accepting,
                 pendingTurns, rotated, pauses, interrupts, replies, candidate>>

(* failTurnForProviderRateLimit on the active turn, and the retry stall on *)
(* the active turn or else the oldest pending one: turn.failed; here a turn *)
(* whose terminal could not be published stays where it is.                *)
RateLimit(t) ==
  /\ \/ t = activeTurn
     \/ activeTurn = None /\ sdk # <<>> /\ pendingTurns # <<>> /\ t = Head(pendingTurns)
  /\ t \notin terminalEmitted \cup parked \cup pauses
  /\ PublishTurnTerminalOrDefer(t, "failed")
  /\ IF t \in terminalEmitted' THEN Forget(t) ELSE UNCHANGED <<pendingTurns, activeTurn>>
  /\ UNCHANGED <<ledger, failing, deliveries, control, attempts, accepting, rotated,
                 pauses, interrupts, replies, sdk, candidate>>

(* rotateTurnForInputReply: the turn goes on under the id of its answer.   *)
Rotate(t) ==
  /\ rotated' = rotated \cup {t}
  /\ pauses' = pauses \ {t}

(* pauseTurnForInput: the question shell, one event here, is published,    *)
(* and an answer parked for this turn is delivered at once.                *)
(* When the pause cannot be published the turn fails instead.              *)
Ask ==
  /\ activeTurn \in Asks \ (terminalEmitted \cup parked \cup rotated \cup pauses)
  /\ LET t == activeTurn
     IN \/ /\ IF t \in replies
              THEN /\ Rotate(t)
                   /\ replies' = replies \ {t}
              ELSE /\ pauses' = pauses \cup {t}
                   /\ UNCHANGED <<rotated, replies>>
           /\ Publish(<<<<Question(t), "awaiting_input">>>>)
           /\ UNCHANGED <<terminalEmitted, queue, held, mishaps>>
        \/ /\ Mishap
           /\ Publish(<<<<CurrentId(t), "failed">>>>)
           /\ terminalEmitted' = terminalEmitted \cup {t}
           /\ Ack(t) /\ UNCHANGED <<pauses, rotated, replies>>
  /\ UNCHANGED <<ledger, failing, deliveries, control, attempts, accepting,
                 pendingTurns, activeTurn, parked, interrupts, sdk, candidate>>

-----------------------------------------------------------------------------
(* Runner: control plane *)

(* The control plane gives out a command that is not acked, at most        *)
(* max_deliver times.                                                      *)
DeliverInterrupt(id) ==
  <<"interrupt", id>> \in control /\ attempts[id] < MaxControlDeliver

Counted(id) == attempts' = [attempts EXCEPT ![id] = @ + 1]

(* A delivery that no handler sees (the process or its connection goes     *)
(* away with it) is counted like any other.                                *)
LoseInterrupt(id) ==
  /\ DeliverInterrupt(id) /\ Counted(id)
  /\ UNCHANGED <<ledgerVars, failing, queue, deliveries, control, runnerVars, candidate,
                 mishaps>>

Taken(id) == control \ {<<"interrupt", id>>}

(* acceptInterrupt with a matching turn. *)
ApplyInterrupt(id, t) ==
  /\ DeliverInterrupt(id)
  /\ Matches(t, id)
  /\ IF t \in terminalEmitted
     THEN /\ control' = Taken(id)
          /\ attempts' = [attempts EXCEPT ![id] = 0]
          /\ UNCHANGED <<wire, terminalEmitted, pauses, queue, held, mishaps>>
     ELSE StopTurn(t, id, Taken(id), attempts[id] + 1)
  /\ UNCHANGED <<ledger, failing, deliveries, accepting, pendingTurns, activeTurn,
                 parked, rotated, interrupts, replies, sdk, candidate>>

(* acceptInterrupt without a matching turn: bufferInterrupt.               *)
DropInterrupt(id) ==
  /\ DeliverInterrupt(id) /\ Counted(id)
  /\ \A t \in Turns : ~Matches(t, id)
  /\ control' = Taken(id)
  /\ UNCHANGED <<ledgerVars, failing, queue, deliveries, runnerVars, candidate, mishaps>>

BufferInterrupt(id) ==
  /\ DeliverInterrupt(id) /\ Counted(id)
  /\ \A t \in Turns : ~Matches(t, id)
  /\ control' = Taken(id)
  /\ interrupts' = interrupts \cup {id}
  /\ UNCHANGED <<ledgerVars, failing, queue, deliveries, held, accepting, pendingTurns,
                 activeTurn, terminalEmitted, parked, rotated, pauses, replies, sdk,
                 candidate, mishaps>>

(* expireBufferedInterrupt: after INTERRUPT_BUFFER_MS a synthetic          *)
(* turn.failed closes the target, unless the ledger says it is closed (a   *)
(* lookup that fails counts as open).  When the turn.failed cannot be      *)
(* published the interrupt is naked.                                       *)
ExpireInterrupt(id) ==
  /\ id \in interrupts
  /\ interrupts' = interrupts \ {id}
  /\ \/ /\ IF FindTurnTerminal(id) THEN UNCHANGED wire ELSE Publish(<<<<id, "failed">>>>)
        /\ attempts' = [attempts EXCEPT ![id] = 0]
        /\ UNCHANGED <<control, mishaps>>
     \/ /\ Mishap
        /\ \/ /\ FindTurnTerminal(id)
              /\ Publish(<<<<id, "failed">>>>)
              /\ attempts' = [attempts EXCEPT ![id] = 0]
              /\ UNCHANGED control
           \/ /\ control' = control \cup {<<"interrupt", id>>}
              /\ UNCHANGED <<wire, attempts>>
  /\ UNCHANGED <<ledger, failing, queue, deliveries, held, accepting,
                 pendingTurns, activeTurn, terminalEmitted, parked, rotated, pauses,
                 replies, sdk, candidate>>

(* max_deliver is reached: nobody gets the interrupt any more. *)
ExhaustInterrupt(id) ==
  /\ <<"interrupt", id>> \in control
  /\ attempts[id] = MaxControlDeliver
  /\ control' = Taken(id)
  /\ attempts' = [attempts EXCEPT ![id] = 0]
  /\ UNCHANGED <<ledgerVars, failing, queue, deliveries, runnerVars, candidate, mishaps>>

(* acceptInputReply: the pause of the asking turn is resolved, a pause of  *)
(* a closed turn rejects the answer, and an answer without a pause is      *)
(* parked until the question is asked again.                               *)
InputReply(t) ==
  /\ <<"reply", Turn(t)>> \in control
  /\ control' = control \ {<<"reply", Turn(t)>>}
  /\ \/ /\ t \in pauses \ terminalEmitted
        /\ Rotate(t)
        /\ UNCHANGED replies
     \/ /\ t \in pauses \cap terminalEmitted
        /\ UNCHANGED <<rotated, pauses, replies>>
     \/ /\ t \notin pauses
        /\ replies' = replies \cup {t}
        /\ UNCHANGED <<rotated, pauses>>
  /\ UNCHANGED <<ledgerVars, failing, queue, deliveries, attempts, held, accepting,
                 pendingTurns, activeTurn, terminalEmitted, parked, interrupts, sdk,
                 candidate, mishaps>>

(* expireParkedInputReply: the parking window ends; the delivery is naked  *)
(* and, once the deliveries are used up, gone.                             *)
ExpireReply(t) ==
  /\ t \in replies
  /\ replies' = replies \ {t}
  /\ control' \in {control, control \cup {<<"reply", Turn(t)>>}}
  /\ UNCHANGED <<ledgerVars, failing, queue, deliveries, attempts, held, accepting,
                 pendingTurns, activeTurn, terminalEmitted, parked, rotated, pauses,
                 interrupts, sdk, candidate, mishaps>>

(* The process dies: everything in memory is gone and every command it had *)
(* not acked is delivered again.                                           *)
Crash ==
  /\ Mishap
  /\ control' = control \cup {<<"interrupt", id>> : id \in interrupts}
                        \cup {<<"reply", Turn(t)>> : t \in replies}
  /\ held' = FALSE /\ accepting' = None
  /\ pendingTurns' = <<>> /\ activeTurn' = None /\ sdk' = <<>>
  /\ terminalEmitted' = {} /\ parked' = {} /\ rotated' = {} /\ pauses' = {}
  /\ interrupts' = {} /\ replies' = {}
  /\ UNCHANGED <<ledgerVars, failing, queue, deliveries, attempts, candidate>>

-----------------------------------------------------------------------------
(* The stranded-turn sweep *)

(* No turn linked to a question pause is a strand.                         *)
PauseLinked(id) ==
  \E t \in Turns : /\ id \in {Turn(t), Question(t)}
                   /\ \E type \in {"awaiting_input", "input_answered"} :
                        <<Question(t), type>> \in ledger

FindStrandedTurns ==
  {id \in Ids : <<id, "submitted">> \in ledger /\ ~FindTurnTerminal(id)
                /\ ~PauseLinked(id)}

(* processStrandedTurns reads its rows once and fails them afterwards,     *)
(* without looking again; rows are independent, so one is followed at a    *)
(* time.  The age floors, the quiet window and the fleet-wide liveness     *)
(* gate are the environment's choice: in any state the session may have    *)
(* been silent for as long as they ask.                                    *)
SweepRead(id) ==
  /\ candidate = <<>> /\ id \in FindStrandedTurns
  /\ candidate' = id
  /\ UNCHANGED <<ledgerVars, failing, planes, runnerVars, mishaps>>

SweepFail ==
  /\ candidate # <<>>
  /\ candidate' = <<>>
  /\ Store({<<candidate, "command_failed">>})
  /\ UNCHANGED <<wire, failing, planes, runnerVars, mishaps>>

-----------------------------------------------------------------------------
Next ==
  \/ \E t \in Turns :
       \/ Enqueue(t) \/ EnqueueFailed(t) \/ AnswerQuestion(t)
       \/ CheckTerminal(t) \/ Reattach(t) \/ Accept(t) \/ Exhaust(t)
       \/ RateLimit(t) \/ InputReply(t) \/ ExpireReply(t)
  \/ \E id \in Ids :
       \/ Interrupt(id) \/ BufferInterrupt(id) \/ ExpireInterrupt(id)
       \/ LoseInterrupt(id) \/ ExhaustInterrupt(id) \/ SweepRead(id)
       \/ \E t \in Turns : ApplyInterrupt(id, t)
  \/ Persist \/ Lapse \/ FirstFrame \/ Result \/ Ask \/ Crash \/ SweepFail

Spec == Init /\ [][Next]_vars

-----------------------------------------------------------------------------
TypeOK ==
  /\ ledger \subseteq Ids \X EventTypes
  /\ Range(wire) \subseteq Ids \X EventTypes
  /\ failing \subseteq Turns
  /\ Range(queue) \subseteq Turns
  /\ deliveries \in [Turns -> 0..MaxDeliver]
  /\ control \subseteq {"interrupt", "reply"} \X Ids
  /\ attempts \in [Ids -> 0..MaxControlDeliver]
  /\ held \in BOOLEAN /\ accepting \in Turns \cup {None}
  /\ Range(pendingTurns) \subseteq Turns /\ activeTurn \in Turns \cup {None}
  /\ terminalEmitted \cup parked \cup rotated \cup pauses \cup replies \subseteq Turns
  /\ interrupts \subseteq Ids
  /\ Range(sdk) \subseteq Turns
  /\ candidate \in Ids \cup {<<>>}
  /\ mishaps \in 0..MaxMishaps

(* A prompt the provider still works on is not fed to it a second time     *)
(* before a terminal of its turn is out or parked: a redelivered           *)
(* submit_turn is reattached, also when the turn has rotated to the id of  *)
(* an answer (acceptCommandTurn, reattachRedeliveredCommand).              *)
NoDoubleFeed ==
  [][\A t \in Range(sdk) \ (terminalEmitted \cup parked) :
       Len(sdk') > Len(sdk) => Last(sdk') # t]_vars

TurnClosed(t) == \E id \in {Turn(t), Question(t), Answer(t)} : Published(id)

(* max_ack_pending 1 and the ack at the terminal serialize the turns of a  *)
(* session: of two turns the process works on, one had its last delivery   *)
(* or a terminal already (from the sweep, from an interrupt that expired,  *)
(* or its own while a redelivery was being checked).                       *)
Serialized ==
  \A t, u \in Owned \ terminalEmitted :
    t = u \/ \E v \in {t, u} : deliveries[v] = MaxDeliver \/ TurnClosed(v)

(* An answer turn the runner continues under was made durable first, with  *)
(* the answer itself (handleAnswerSessionTurn writes before it publishes). *)
AnswerBacked ==
  \A t \in rotated : /\ <<Answer(t), "submitted">> \in ledger
                      /\ <<Question(t), "input_answered">> \in ledger

(* A submit_turn leaves the data plane only with a published terminal of   *)
(* its turn, or of the answer turn that continues it, or after its last    *)
(* delivery: no prompt is acked away.                                      *)
AckedWhenClosed ==
  [][\A t \in Range(queue) \ Range(queue') :
       TurnClosed(t)' \/ deliveries[t] = MaxDeliver]_vars

(* An interrupt the control plane took comes to a terminal of the turn it  *)
(* stops ("four-outcome contract"): it is on the control plane or in the   *)
(* buffer until one is published.  The one way out without a terminal is a *)
(* redelivery that JetStream refuses because max_deliver is used up: no    *)
(* handler of the runner lets an interrupt go unresolved, not on its last  *)
(* delivery either.                                                        *)
Outstanding == interrupts \cup {id \in Ids : <<"interrupt", id>> \in control}
InterruptResolves ==
  [][\A id \in Outstanding \ Outstanding' :
       \/ TurnClosed(id[1])'
       \/ <<"interrupt", id>> \in control /\ attempts[id] = MaxControlDeliver]_vars

(* The turns of a session through redeliveries, restarts and stops: one at *)
(* a time, and an answer turn only after its answer is durable.            *)
TurnsSafe == TypeOK /\ Serialized /\ AnswerBacked

(* What a step of the runner or of the data plane may not do with a prompt: *)
(* feed it again while it is worked on, or lose it before it is closed.     *)
TurnStepsSafe == NoDoubleFeed /\ AckedWhenClosed
=============================================================================
