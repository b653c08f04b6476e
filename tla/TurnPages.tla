----------------------------- MODULE TurnPages -----------------------------
(***************************************************************************)
(* The detail of one turn: its events and those of the turns folded into   *)
(* it, split into pages, with the final answer and the page it opens on;   *)
(* and the cache of that projection, whose freshness is the largest order  *)
(* key of every turn that was read.                                        *)
(***************************************************************************)
EXTENDS TranscriptProjection

Seqs == INSTANCE SequencesExt

CONSTANTS
  PageLimit    \* turnPageEventLimit

ASSUME PageAssumption == PageLimit \in Nat \ {0}

VARIABLES
  fold,      \* foldAndStore in flight: the turns to read and what was read
  cached     \* the entry of turnActivityCache (bound: the cache holds one)

pageVars == <<fold, cached>>

-----------------------------------------------------------------------------
(* readUserFacingTurnEventsWithChain *)

(* backgroundWakeTurnIDsForParentEvents: the wake turns of the tasks of a  *)
(* turn that completed before them.  The id is that of the first wake.     *)
WakeTurnsFor(E, t) ==
  IF t \notin ContinuationTurns(E) THEN {}
  ELSE {WakeTurn(k, 1) : k \in {j \in TasksOf(E) : TaskTurn(E, j) = t}}

(* askUserQuestionAskingTurnID *)
AskingTurnOf(E, t) == {e.ref : e \in {a \in Of(E, "awaiting") : a.turn = t}}

(* The turns that the read of turn u adds to the walk that began at t: the *)
(* asking turn gives context only and is not walked on from.               *)
NextTurns(read, t, u) ==
  (IF u = t THEN AskingTurnOf(read, t) ELSE {})
  \cup (IF t[1] # "ask" \/ u = t THEN WakeTurnsFor(read, u) ELSE {})

(* A turn's own events, without the context copied from the asking turn    *)
(* (ownTurnPageEvents), and that context: its prompt and its replies.      *)
OwnEvents(read, t) == {e \in read : e.turn \notin AskingTurnOf(read, t)}
PromptContext(read, t) ==
  {e \in read : e.type = "user" /\ e.turn \in AskingTurnOf(read, t) \cup {t}}
FinalAnswerContext(read, t) ==
  {e \in read : e.type = "reply" /\ e.turn \in AskingTurnOf(read, t)}

(* The walk against a ledger that does not move: the turns in every set    *)
(* that holds t and what the read of its turns adds.                       *)
InReach(E, t) ==
  {t} \cup AskingTurnOf(ReadAllTurnEvents(E, t), t) \cup {WakeTurn(k, 1) : k \in TasksOf(E)}
Walked(E, t, A) == t \in A /\ \A u \in A : NextTurns(ReadAllTurnEvents(E, u), t, u) \subseteq A
Chain(E, t) ==
  {u \in InReach(E, t) : \A A \in SUBSET InReach(E, t) : Walked(E, t, A) => u \in A}
ReadChain(E, t) == UNION {ReadAllTurnEvents(E, u) : u \in Chain(E, t)}

-----------------------------------------------------------------------------
(* splitTurnEventsIntoSemanticPages *)

OrderedEvents(E) ==
  [i \in 1 .. Cardinality(E) |->
     CHOOSE e \in E : Cardinality({f \in E : f.key < e.key}) = i - 1]
TurnPage(kind, events) == [kind |-> kind, events |-> events]
HaveBody(E) == \E e \in E : e.type \notin {"submitted", "started", "user"}

Flush(s) == IF s.current = {} THEN s
            ELSE [s EXCEPT !.pages = Append(@, TurnPage("activity", s.current)), !.current = {}]
FlushQuestion(s, closing) ==
  [s EXCEPT !.pages = Append(@, TurnPage("question", s.pending \cup closing)), !.pending = {}]
Pending(s) == s.pending # {}
OfPending(s, e) == \E q \in s.pending : e.turn = q.turn

(* What belongs to the pending question: its answer, the terminal that     *)
(* dismisses it, and the request to stop that precedes that terminal.      *)
ClosesQuestion(s, e) ==
  OfPending(s, e) /\ e.type \in {"answered", "failed", "interrupted"}
HoldsQuestion(s, e) == OfPending(s, e) /\ e.type = "interruptReq"

Append1(s, e) ==
  LET t == [s EXCEPT !.current = @ \cup {e}]
  IN IF Cardinality(t.current) >= PageLimit THEN Flush(t) ELSE t

PageStep(s, e) ==
  IF Pending(s) /\ ClosesQuestion(s, e) THEN FlushQuestion(s, {e})
  ELSE IF Pending(s) /\ HoldsQuestion(s, e) THEN s
  ELSE LET t == IF Pending(s) THEN FlushQuestion(s, {}) ELSE s
       IN IF e.type = "awaiting"
          THEN [(IF HaveBody(t.current) THEN Flush(t) ELSE [t EXCEPT !.current = {}])
                  EXCEPT !.pending = {e}]
          ELSE Append1(t, e)

SemanticPages(E) ==
  LET s == Flush(Seqs!FoldLeft(PageStep, [pages |-> <<>>, current |-> {}, pending |-> {}],
                          OrderedEvents(E)))
  IN IF Pending(s) THEN FlushQuestion(s, {}).pages ELSE s.pages

(* projectPageBodyEntries: what a page shows.  Notices stay although the   *)
(* page may not hold their owner.                                          *)
PageBody(E) ==
  {x.id : x \in {y \in Flat(E) : y.kind \notin Hidden}}
  \cup {<<"status", e.key>> : e \in Of(E, "status")}

-----------------------------------------------------------------------------
(* projectTurnPages *)

Pages(read, t) == SemanticPages(OwnEvents(read, t))

(* The shell is folded from every event that was read. *)
DetailBody(read, t) ==
  LET E == OwnEvents(read, t)
      B == Bodies(E, Flat(E))
  IN MergedEntries(E, B, t)

(* finalAnswerIDsFromTurnEvents: the last completed terminal of the chain  *)
(* owns the answer.                                                        *)
FinalOfAll(E) == UNION {e.final : e \in Of(E, "completed")}
FinalAnswerIDs(E) ==
  LET done == Of(E, "completed") IN IF done = {} THEN {} ELSE Last(done).final

(* turnFinalAnswerEntries: without a marked answer the last reply stands   *)
(* in, unless the turn is a folded chain.                                  *)
FinalAnswerEntries(read, t) ==
  LET E == OwnEvents(read, t)
      replies == {x \in DetailBody(read, t) : x.kind = "reply"}
      marked == {x \in replies : x.id[2] \in FinalAnswerIDs(E)}
      single == Cardinality(Of(E, "completed")) = 1
  IN IF FinalAnswerIDs(E) # {} THEN marked
     ELSE IF single /\ replies # {} THEN {x \in replies : x.key = MaxOf({y.key : y \in replies})}
     ELSE {}

(* awaitingInputHandoffFinalAnswerEntries: a turn that only asked answers  *)
(* with its prose and the question.                                        *)
HandoffEntries(read, t) ==
  IF HandsOver(OwnEvents(read, t), t)
  THEN {x \in DetailBody(read, t) : x.kind \in {"reply", "question"}} ELSE {}

Finals(read, t) ==
  IF FinalAnswerEntries(read, t) # {} THEN FinalAnswerEntries(read, t) ELSE HandoffEntries(read, t)

(* turnActivityCollapseSummary *)
Collapsible(read, t) ==
  /\ Finals(read, t) # {}
  /\ \E x \in DetailBody(read, t) : x \notin Finals(read, t) /\ x.kind # "wakePrompt"

(* defaultTurnActivityPageNumber: the first unanswered question of a turn  *)
(* that needs input, else the last page.                                   *)
Unanswered(p) == p.kind = "question" /\ Of(p.events, "answered") = {}
DefaultPage(read, t) ==
  LET P == Pages(read, t)
      waiting == {i \in DOMAIN P : NeedsInput(OwnEvents(read, t)) /\ Unanswered(P[i])}
  IN IF waiting # {} THEN MinOf(waiting) ELSE Len(P)

-----------------------------------------------------------------------------
(* turnActivityCache *)

NoFold  == [turn |-> NoTurn, todo |-> {}, marks |-> {}, read |-> {}]
NoEntry == [turn |-> NoTurn, marks |-> {}, read |-> {}]

(* MaxOrderKeyForTurn *)
Mark(E, t) == <<t, MaxKey(OfTurn(E, t))>>

(* A miss or a stale entry starts the one fold of the key. *)
FoldStart(t) ==
  /\ scope.reader = "cache" /\ fold = NoFold
  /\ cached.turn # t \/ cached.marks # {Mark(ledger, m[1]) : m \in cached.marks}
  /\ fold' = [NoFold EXCEPT !.turn = t, !.todo = {t}]
  /\ UNCHANGED <<ledgerVars, cached>>

(* One turn of the chain is read to exhaustion. *)
OriginOnly(E, t, u) == IF t = u THEN {Mark(E, t)} ELSE {}
ObservedMarks(E, t, u) == {Mark(E, u)}
FoldRead(u) ==
  /\ u \in fold.todo
  /\ LET read == ReadAllTurnEvents(ledger, u)
         done == {m[1] : m \in fold.marks} \cup {u}
     IN fold' = [fold EXCEPT
                   !.read = @ \cup read,
                   !.marks = @ \cup ObservedMarks(ledger, fold.turn, u),
                   !.todo = (@ \cup NextTurns(read, fold.turn, u)) \ done]
  /\ UNCHANGED <<ledgerVars, cached>>

(* foldAndStore's last part, and evictLocked: the new entry stays. *)
FoldStore ==
  /\ fold # NoFold /\ fold.todo = {}
  /\ cached' = [turn |-> fold.turn, marks |-> fold.marks, read |-> fold.read]
  /\ fold' = NoFold
  /\ UNCHANGED ledgerVars

PagesInit == fold = NoFold /\ cached = NoEntry

PagesNext ==
  \/ \E t \in TurnsOf(ledger) : FoldStart(t)
  \/ \E u \in fold.todo : FoldRead(u)
  \/ FoldStore

-----------------------------------------------------------------------------
(* Properties *)

(* A hit serves the turn as it is: when the largest key of every turn that *)
(* was read is unchanged, so is everything the detail is made of.          *)
ServesHit == cached # NoEntry /\ cached.marks = {Mark(ledger, m[1]) : m \in cached.marks}
HitIsFresh == ServesHit => cached.read = ReadChain(ledger, cached.turn)

(* The detail holds what the shell on the transcript announces: every      *)
(* entry of its body that belongs to a turn the detail reads is on a page. *)
(* Startup notices may be missing, and the request to stop a question is   *)
(* kept off its page.                                                      *)
DetailShowsShell ==
  scope.reader = "pages" =>
    LET F == Flat(ledger)
        B == Bodies(ledger, F)
    IN \A b \in WithShell(ledger, B) :
         LET read == ReadChain(ledger, b.turn)
             P == Pages(read, b.turn)
         IN \A x \in MergedEntries(ledger, B, b.turn) :
              x.turn \in TurnsOf(read) /\ x.kind \notin {"status", "interruptReq"}
                => \E i \in DOMAIN P : x.id \in PageBody(P[i].events)

(* The turn of a question opens on the question, also while and after the  *)
(* user stops it.                                                          *)
OpensOnQuestion ==
  scope.reader = "pages" =>
    \A a \in Of(ledger, "awaiting") :
      LET read == ReadChain(ledger, a.turn)
      IN Pages(read, a.turn)[DefaultPage(read, a.turn)].kind = "question"

(* The final answer of a turn is not followed by a later reply of the      *)
(* turns folded into it, once they are all finished.                       *)
FinalAnswerIsLast ==
  scope.reader = "pages" =>
    \A t \in TurnsOf(ledger) :
      LET read == ReadChain(ledger, t)
      IN (\A u \in TurnsOf(OwnEvents(read, t)) : Has(ledger, "completed", u)) =>
           \A x \in Finals(read, t), y \in DetailBody(read, t) :
             y.kind = "reply" => y.key <= x.key

(* The detail of a turn holds what its shell announces, opens on the       *)
(* question and ends with the final answer.                                *)
DetailAgrees == DetailShowsShell /\ OpensOnQuestion /\ FinalAnswerIsLast
=============================================================================
