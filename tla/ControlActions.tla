--------------------------- MODULE ControlActions ---------------------------
(***************************************************************************)
(* control_action_events of one session: an append-only table that holds   *)
(* the requests agents make, the decisions people take on them, and what   *)
(* was done under a grant.  A decision handler looks whether a request is  *)
(* open and appends later; between the two another handler may decide it,  *)
(* and then a unique index refuses the insert.  GitHub and Azure requests  *)
(* follow the same steps; those for a test-slot model are outside the      *)
(* index, and can neither be denied nor decided several at a time.         *)
(*                                                                         *)
(* Decisions come by other ways too, and those tell the agent nothing: the *)
(* direct grants of a test-slot model, and the internal append route, which*)
(* takes a row of any kind.                                                *)
(*                                                                         *)
(* Grants expire after at most a day; the model lets a lookup find any of  *)
(* them live or past it.                                                   *)
(***************************************************************************)
EXTENDS Naturals, FiniteSets, Sequences

CONSTANTS Deciders,     \* decision handlers
          Branches,
          Window,       \* rows a grant lookup reads (200 in the code)
          MaxRows,      \* bound on the rows of the session
          MaxSilent,    \* bound: rows appended by a way that has no notification
          MaxErrors     \* bound: failed calls and crashes

ASSUME ActionsAssumption ==
  /\ Window \in Nat \ {0} /\ MaxRows \in Nat \ {0}
  /\ MaxSilent \in Nat /\ MaxErrors \in Nat

VARIABLES
  table,    \* the rows; an id is also the place in created_at order
  deciders,
  turns,    \* turns enqueued, by nonce: the requests (or grant) they tell of
  missed,   \* grants whose notification failed, or was never reached
  silent,   \* history: rows appended by a way that has no notification
  errors

avars == <<table, deciders, turns, missed, silent, errors>>

Ids == 1..MaxRows
NextId == Cardinality(table) + 1
Kinds == {"request", "model_request", "grant", "model_grant", "deny", "push"}
\* ref: the request of a decision, the grant of a push.  limit: branches of a
\* count-scoped grant, 0 when unlimited.
Row == [id : Ids, kind : Kinds, ref : 0..MaxRows, limit : 0..1,
        branches : SUBSET Branches]
Plain(kind) == [id |-> NextId, kind |-> kind, ref |-> 0, limit |-> 0, branches |-> {}]
NoDecider == [pc |-> "idle", decision |-> "approve", todo |-> 0, ready |-> <<>>, granted |-> <<>>]

ActionsTypeOK ==
  /\ table \subseteq Row
  /\ deciders \in [Deciders -> [pc : {"idle", "check", "append", "notify"},
                                decision : {"approve", "deny"},
                                todo : 0..MaxRows, ready : Seq(0..MaxRows),
                                granted : Seq(Ids)]]
  /\ turns \subseteq Seq(Ids) /\ missed \subseteq Ids /\ silent \subseteq Ids
  /\ errors \in 0..MaxErrors

ActionsInit ==
  /\ table = {} /\ deciders = [d \in Deciders |-> NoDecider]
  /\ turns = {} /\ missed = {} /\ silent = {} /\ errors = 0

AError == errors < MaxErrors /\ errors' = errors + 1
RowOf(id) == CHOOSE r \in table : r.id = id
Grant(r) == r.kind \in {"grant", "model_grant"}

-----------------------------------------------------------------------------
(* The store's queries                                                     *)

\* Mutant: the oldest rows of the session.
OldestBySession == {r \in table : Cardinality({q \in table : q.id < r.id}) < Window}

ListBySession == {r \in table : Cardinality({q \in table : q.id > r.id}) < Window}

BreakGlassDecisions(q) == {r \in table : r.kind \in {"grant", "deny"} /\ r.ref = q}
TestSlotModelDecisions(q) == {r \in table : r.kind = "model_grant" /\ r.ref = q}

CountBranches(rows, g) == Cardinality(UNION {r.branches : r \in {q \in rows : q.kind = "push" /\ q.ref = g}})

\* handleInternalGetGitBreakGlassGrant: the grants it would answer with.
ActiveGrants ==
  {r \in ListBySession :
     /\ r.kind = "grant"
     /\ r.limit > 0 => CountBranches(ListBySession, r.id) < r.limit}

\* activeTestSlotModelGrant
ActiveModelGrants == {r \in ListBySession : r.kind = "model_grant"}

-----------------------------------------------------------------------------
(* What agents append                                                      *)

Append1(row) ==
  /\ NextId \in Ids /\ table' = table \cup {row}
  /\ UNCHANGED <<deciders, turns, missed, silent, errors>>

\* handleInternalAppendControlAction, of a request.
AppendControlAction == Append1(Plain("request"))

\* A push under a grant names the grant and its branch.
AppendPush(g, b) ==
  /\ \E r \in table : r.id = g /\ r.kind = "grant"
  /\ Append1([Plain("push") EXCEPT !.ref = g, !.branches = {b}])

\* A test-slot session with an expensive model is refused with a request,
\* each time, while no grant is active or the one there is has expired.
RequireTestSlotLowCostRunConfig(gone) ==
  ActiveModelGrants \subseteq gone /\ Append1(Plain("model_request"))

-----------------------------------------------------------------------------
(* Decisions                                                               *)

Requests(kind) == {r.id : r \in {q \in table : q.kind = kind}}

Pending(q) == BreakGlassDecisions(q) = {}
IfPending(q) == IF Pending(q) THEN <<q>> ELSE <<>>

Begin(d, decision, pc, ready, todo) ==
  /\ deciders[d].pc = "idle"
  /\ deciders' = [deciders EXCEPT ![d] = [NoDecider EXCEPT !.pc = pc, !.decision = decision,
                                          !.ready = ready, !.todo = todo]]
  /\ UNCHANGED <<table, turns, missed, silent, errors>>

\* handleBreakGlassDecision: loaded, looked up, and prepared if undecided.
Decide(d, q, decision) ==
  q \in Requests("request") /\ Pending(q) /\ Begin(d, decision, "append", <<q>>, 0)

\* handleApproveTestSlotModelApprovalRequest
ApproveModel(d, q) ==
  /\ q \in Requests("model_request") /\ TestSlotModelDecisions(q) = {}
  /\ Begin(d, "approve", "append", <<q>>, 0)

\* handleApproveBreakGlassRequestsBatch, of two requests: each is looked up
\* in turn, those already decided are left out, then the rest is appended.
ApproveBatch(d, q1, q2) ==
  /\ {q1, q2} \subseteq Requests("request") /\ q1 # q2
  /\ Begin(d, "approve", "check", IfPending(q1), q2)

CheckNext(d) ==
  LET me == deciders[d]
      ready == me.ready \o IfPending(me.todo)
  IN /\ me.pc = "check"
     /\ deciders' = [deciders EXCEPT ![d] =
          IF ready = <<>> THEN NoDecider
          ELSE [me EXCEPT !.pc = "append", !.ready = ready, !.todo = 0]]
     /\ UNCHANGED <<table, turns, missed, silent, errors>>

\* The grant endpoints of an administrator: no request is looked at, even
\* when the body names one.  The grant a session that becomes an orchestration
\* hub gives itself is one that names none; its turn is the kick-off of the hub.
AdminGrant(d, q) ==
  q \in {0} \cup Requests("request") /\ Begin(d, "approve", "append", <<q>>, 0)

\* prepareBreakGlassGrantForRequest: the scope asked for or the approver's, as
\* far as it limits the number of branches.
BranchScopes == 0..1

DecisionRow(q, kind, limit) == [Plain(kind) EXCEPT !.ref = q, !.limit = limit]
DenyRow(q) == DecisionRow(q, "deny", 0)
GrantRow(q, limit) == DecisionRow(q, "grant", limit)
ModelGrantRow(q) == DecisionRow(q, "model_grant", 0)

DecisionRows(q, decision) ==
  CASE decision = "deny" -> {DenyRow(q)}
    [] decision = "approve" /\ q \in Requests("model_request") -> {ModelGrantRow(q)}
    [] OTHER -> {GrantRow(q, limit) : limit \in BranchScopes}

\* Mutant: the table has no index on the decisions of a request.
NoIndex(q) == TRUE

\* The unique index on decisions that name a request.
IndexAllows(q) == q = 0 \/ ~ \E r \in table : r.kind \in {"grant", "deny"} /\ r.ref = q

-----------------------------------------------------------------------------
(* Rows that no turn tells of                                              *)

AppendSilently(row) ==
  /\ Cardinality(silent) < MaxSilent /\ silent' = silent \cup {row.id}
  /\ NextId \in Ids /\ table' = table \cup {row}
  /\ UNCHANGED <<deciders, turns, missed, errors>>

\* handleInternalGrantTestSlotModelApproval, handleAdminGrantTestSlotModelApproval;
\* the append route takes the same row.  The body may name a request.
GrantTestSlotModel(q) ==
  q \in {0} \cup Requests("model_request") /\ AppendSilently(ModelGrantRow(q))

\* handleInternalAppendControlAction, of a decision on a request: controlActionFromJSON
\* takes grants and denials as well, and nothing is looked up.
AppendDecisionRow(q) ==
  /\ q \in Requests("request") /\ IndexAllows(q)
  /\ \E row \in {DenyRow(q)} \cup {GrantRow(q, limit) : limit \in BranchScopes} :
       AppendSilently(row)

-----------------------------------------------------------------------------
(* The steps of a decision                                                 *)

Told(granted) == {granted[i] : i \in DOMAIN granted}
Done(d) == deciders' = [deciders EXCEPT ![d] = NoDecider]

\* A denial is not announced.
AppendDecision(d) ==
  LET me == deciders[d]
      q == Head(me.ready)
      granted == IF me.decision = "deny" THEN <<>> ELSE Append(me.granted, NextId)
      last == Len(me.ready) = 1
  IN /\ me.pc = "append" /\ IndexAllows(q) /\ NextId \in Ids
     /\ \E row \in DecisionRows(q, me.decision) : table' = table \cup {row}
     /\ IF last /\ granted = <<>> THEN Done(d)
        ELSE deciders' = [deciders EXCEPT ![d] =
               [me EXCEPT !.ready = Tail(me.ready), !.granted = granted,
                          !.pc = IF last THEN "notify" ELSE "append"]]
     /\ UNCHANGED <<turns, missed, silent, errors>>

\* The insert fails, or the index refuses it because the request has been
\* decided since it was looked up.  The handler answers with the error; the
\* grants it appended before stay without a notification.
AppendFails(d) ==
  /\ deciders[d].pc = "append"
  /\ \/ ~IndexAllows(Head(deciders[d].ready)) /\ errors' = errors
     \/ AError
  /\ missed' = missed \cup Told(deciders[d].granted)
  /\ Done(d)
  /\ UNCHANGED <<table, turns, silent>>

\* What the nonce is made of: the request, or the grant when it has none.
Seed(g) == IF RowOf(g).ref = 0 THEN g ELSE RowOf(g).ref

\* One turn for all the grants of a batch.
ApprovalTurn(granted) == [i \in DOMAIN granted |-> Seed(granted[i])]

NotifyGrants(d) ==
  /\ deciders[d].pc = "notify"
  /\ \/ turns' = turns \cup {ApprovalTurn(deciders[d].granted)} /\ UNCHANGED <<missed, errors>>
     \/ AError /\ missed' = missed \cup Told(deciders[d].granted) /\ turns' = turns
  /\ Done(d)
  /\ UNCHANGED <<table, silent>>

\* The process ends.
CrashDecider(d) ==
  /\ deciders[d].pc # "idle" /\ AError
  /\ missed' = missed \cup Told(deciders[d].granted)
  /\ Done(d)
  /\ UNCHANGED <<table, turns, silent>>

-----------------------------------------------------------------------------

ActionsNext ==
  \/ AppendControlAction
  \/ RequireTestSlotLowCostRunConfig(table)
  \/ \E g \in Ids, b \in Branches : AppendPush(g, b)
  \/ \E q \in 0..MaxRows : GrantTestSlotModel(q) \/ AppendDecisionRow(q)
  \/ \E d \in Deciders :
       \/ \E q \in Ids, decision \in {"approve", "deny"} : Decide(d, q, decision)
       \/ \E q \in Ids : ApproveModel(d, q)
       \/ \E q1, q2 \in Ids : ApproveBatch(d, q1, q2)
       \/ \E q \in 0..MaxRows : AdminGrant(d, q)
       \/ CheckNext(d) \/ AppendDecision(d) \/ AppendFails(d) \/ NotifyGrants(d) \/ CrashDecider(d)

ActionsSpec == ActionsInit /\ [][ActionsNext]_avars

-----------------------------------------------------------------------------
(* Properties                                                              *)

\* A GitHub or Azure request has one decision, although handlers look before
\* they append, several may look at once, and a direct grant and an internal append
\* do not look: nobody is told of an approval that someone else was told is a denial.
DecidedOnce ==
  \A q \in Requests("request") : Cardinality(BreakGlassDecisions(q)) <= 1

\* A grant that is reported active has branches left over the whole table,
\* although the lookup reads only the newest rows: the rows that use a grant
\* are never outside a window that the grant is in.
LimitHolds ==
  \A g \in ActiveGrants : g.limit > 0 => CountBranches(table, g.id) < g.limit

\* Once no handler is under way every grant that a decision on a request, or a
\* direct break-glass grant, has appended has been told to the agent in a turn of
\* its own or of its batch, but for those whose turn could not be enqueued and those
\* of a batch that failed later in the list.  Direct grants of a test-slot model and
\* rows of the internal append route are told to nobody (silent).
GrantNotified ==
  (\A d \in Deciders : deciders[d].pc = "idle") =>
    \A r \in table : Grant(r) /\ r.id \notin missed \cup silent =>
      \E t \in turns : \E i \in DOMAIN t : t[i] = Seed(r.id)

\* Approvals through concurrent deciders: one decision a request, no grant beyond its
\* limit, every grant of a decision handler told.
ApprovalsSafe == ActionsTypeOK /\ DecidedOnce /\ LimitHolds /\ GrantNotified
=============================================================================
