------------------------- MODULE Operations_proof --------------------------
(***************************************************************************)
(* Proofs about attachment launches (PendingLaunch) and approvals          *)
(* (ControlActions), for any constants that satisfy their assumptions.     *)
(* The two do not share state, so each has its own invariant.              *)
(***************************************************************************)
EXTENDS PendingLaunch, ControlActions, FiniteSetTheorems, SequenceTheorems, TLAPS

-----------------------------------------------------------------------------
(* Attachment launches                                                     *)

\* What ties a replica's position in the dispatch to the durable state.
LoopInv ==
    \A r \in Replica :
        /\ loaded[r] \in {{}, Ordinal}
        /\ pc[r] \in {"claimed", "skip", "checked"} => status \in {"claiming"} \union TerminalRow
        /\ pc[r] \in {"submitted", "published"} => "submitted" \in ledger
        /\ pc[r] = "published" => command # {}

\* Strengthening of the safety invariants that is preserved by every step.
IndInv ==
    /\ TypeOK
    /\ status = "none" => blobs = {}
    /\ NoOrphanedBlobs
    /\ ClaimableHasAllBytes
    /\ AllOrNothingPayload
    /\ BoundaryBeforeCommand
    /\ DispatchedWasPublished
    /\ LoopInv

\* The starting state, before a launch is recorded, satisfies the invariant.
LEMMA InitIndInv == Init => IndInv
<1> SUFFICES ASSUME Init PROVE IndInv
  OBVIOUS
<1>1. TypeOK
  <2>1. leaseStale \in BOOLEAN /\ badTurn \in BOOLEAN
    BY Zenon DEF Init
  <2>2. att \in [Replica -> 0..MaxClaims] /\ attempts \in 0..MaxClaims /\ faults \in 0..MaxFaults
    BY CapAssumption DEF Init
  <2>3. loaded \in [Replica -> SUBSET Ordinal] /\ pc \in [Replica -> Control] /\ sweep \in [Replica -> {"idle", "found"}]
    BY DEF Init, Control
  <2>4. status \in {"none"} \union Live \union TerminalRow /\ age \in Ages /\ session \in {"Pending", "Active", "Gone"}
        /\ runner \in {"idle", "running", "done"}
    BY DEF Init, Live, TerminalRow, Ages
  <2>5. blobs \subseteq Ordinal /\ ledger \subseteq EventTypes /\ command \subseteq SUBSET Ordinal
    BY DEF Init
  <2> QED
    BY <2>1, <2>2, <2>3, <2>4, <2>5 DEF TypeOK
<1>2. NoOrphanedBlobs /\ ClaimableHasAllBytes /\ DispatchedWasPublished /\ (status = "none" => blobs = {})
  BY DEF Init, NoOrphanedBlobs, ClaimableHasAllBytes, DispatchedWasPublished, TerminalRow
<1>3. AllOrNothingPayload /\ BoundaryBeforeCommand
  BY DEF Init, AllOrNothingPayload, BoundaryBeforeCommand
<1>4. LoopInv
  BY DEF Init, LoopInv
<1> QED
  BY <1>1, <1>2, <1>3, <1>4 DEF IndInv

\* Every step keeps the variables in their types.
LEMMA NextTypeOK == TypeOK /\ [Next]_vars => TypeOK'
<1> SUFFICES ASSUME TypeOK, [Next]_vars PROVE TypeOK'
  OBVIOUS
<1> USE DEF TypeOK, Live, TerminalRow, Terminals, EventTypes, Ages, Control
<1>1. CASE PersistUserMessage
  BY <1>1 DEF PersistUserMessage, Persist, row, local
<1>2. CASE Register
  BY <1>2 DEF Register, row, local
<1>3. CASE RegisterFails
  BY <1>3, CapAssumption DEF RegisterFails, Fault, row, local
<1>4. ASSUME NEW o \in Ordinal, StageAttachment(o) PROVE TypeOK'
  BY <1>4 DEF StageAttachment, local
<1>5. CASE LeaseExpires
  BY <1>5 DEF LeaseExpires, row, local
<1>6. CASE GrowOlder
  BY <1>6 DEF GrowOlder, row, local
<1>7. CASE SessionChanges
  BY <1>7 DEF SessionChanges, row, local
<1>8. CASE RunnerAccepts
  BY <1>8 DEF RunnerAccepts, row, local
<1>9. CASE RunnerFinishes
  BY <1>9 DEF RunnerFinishes, Persist, row, local
<1>10. ASSUME NEW r \in Replica, ClaimReady(r) PROVE TypeOK'
  <2>1. attempts' \in 0..MaxClaims
    BY <1>10, CapAssumption DEF ClaimReady
  <2>2. att' \in [Replica -> 0..MaxClaims]
    BY <1>10, <2>1 DEF ClaimReady
  <2>3. pc' \in [Replica -> Control] /\ leaseStale' \in BOOLEAN /\ status' \in Live
    BY <1>10 DEF ClaimReady, Goto
  <2> QED
    BY <1>10, <2>1, <2>2, <2>3 DEF ClaimReady
<1>11. ASSUME NEW r \in Replica, CheckTerminal(r) PROVE TypeOK'
  BY <1>11 DEF CheckTerminal, Goto, row, local
<1>12. ASSUME NEW r \in Replica, SkipDispatch(r) PROVE TypeOK'
  BY <1>12 DEF SkipDispatch, Goto, Settle, row, local
<1>13. ASSUME NEW r \in Replica, LoadAttachments(r) PROVE TypeOK'
  BY <1>13 DEF LoadAttachments, Goto, row, local
<1>14. ASSUME NEW r \in Replica, PodNotReady(r) PROVE TypeOK'
  BY <1>14 DEF PodNotReady, AfterError, Goto, row, local
<1>15. ASSUME NEW r \in Replica, RejectTurn(r) PROVE TypeOK'
  BY <1>15 DEF RejectTurn, AfterError, Goto, row, local
<1>16. ASSUME NEW r \in Replica, SubmitTurn(r) PROVE TypeOK'
  BY <1>16 DEF SubmitTurn, Goto, Persist, row, local
<1>17. ASSUME NEW r \in Replica, PublishCommand(r) PROVE TypeOK'
  BY <1>17 DEF PublishCommand, Deliver, Goto, row, local
<1>18. ASSUME NEW r \in Replica, MarkPublishFailed(r) PROVE TypeOK'
  BY <1>18 DEF MarkPublishFailed, AfterError, Goto, Persist, row, local
<1>19. ASSUME NEW r \in Replica, MarkDispatched(r) PROVE TypeOK'
  BY <1>19 DEF MarkDispatched, Goto, Settle, row, local
<1>20. ASSUME NEW r \in Replica, FailMark(r) PROVE TypeOK'
  BY <1>20 DEF FailMark, Goto, Settle, row, local
<1>21. ASSUME NEW r \in Replica, FailEvent(r) PROVE TypeOK'
  BY <1>21 DEF FailEvent, Goto, Persist, row, local
<1>22. ASSUME NEW r \in Replica, FindStale(r) PROVE TypeOK'
  BY <1>22 DEF FindStale, Goto, row, local
<1>23. ASSUME NEW r \in Replica, PublishFails(r) PROVE TypeOK'
  BY <1>23, CapAssumption DEF PublishFails, Deliver, Fault, Goto, row, local
<1>24. ASSUME NEW r \in Replica, DispatchError(r) PROVE TypeOK'
  BY <1>24, CapAssumption DEF DispatchError, AfterError, Fault, Goto, row, local
<1>25. ASSUME NEW r \in Replica, FailError(r) PROVE TypeOK'
  BY <1>25, CapAssumption DEF FailError, Fault, Goto, row, local
<1>26. ASSUME NEW r \in Replica, Crash(r) PROVE TypeOK'
  BY <1>26, CapAssumption DEF Crash, Fault, Goto, row, local
<1>27. ASSUME NEW r \in Replica, FindStrandedLaunch(r) PROVE TypeOK'
  BY <1>27 DEF FindStrandedLaunch, row, local
<1>28. ASSUME NEW r \in Replica, FailStrandedLaunch(r) PROVE TypeOK'
  BY <1>28 DEF FailStrandedLaunch, Persist, row, local
<1>29. CASE UNCHANGED vars
  BY <1>29 DEF vars
<1> QED
  BY <1>1, <1>2, <1>3, <1>4, <1>5, <1>6, <1>7, <1>8, <1>9, <1>10, <1>11, <1>12, <1>13, <1>14,
     <1>15, <1>16, <1>17, <1>18, <1>19, <1>20, <1>21, <1>22, <1>23, <1>24, <1>25, <1>26, <1>27,
     <1>28, <1>29
  DEF Next, Environment, DispatchStep, Errors

\* The part of the invariant beyond types.
SafetyInv ==
    /\ status = "none" => blobs = {}
    /\ NoOrphanedBlobs /\ ClaimableHasAllBytes /\ AllOrNothingPayload
    /\ BoundaryBeforeCommand /\ DispatchedWasPublished /\ LoopInv

\* Every step preserves it.
LEMMA NextSafetyInv == TypeOK /\ SafetyInv /\ [Next]_vars => SafetyInv'
<1> SUFFICES ASSUME TypeOK, SafetyInv, [Next]_vars PROVE SafetyInv'
  OBVIOUS
<1> USE DEF TypeOK, Live, TerminalRow, Terminals, EventTypes, Ages, Control, SafetyInv,
            NoOrphanedBlobs, ClaimableHasAllBytes, AllOrNothingPayload,
            BoundaryBeforeCommand, DispatchedWasPublished, LoopInv
<1>1. CASE PersistUserMessage
  BY <1>1 DEF PersistUserMessage, Persist, row, local
<1>2. CASE Register
  BY <1>2 DEF Register, row, local
<1>3. CASE RegisterFails
  BY <1>3 DEF RegisterFails, Fault, row, local
<1>4. ASSUME NEW o \in Ordinal, StageAttachment(o) PROVE SafetyInv'
  BY <1>4 DEF StageAttachment, local
<1>5. CASE LeaseExpires
  BY <1>5 DEF LeaseExpires, row, local
<1>6. CASE GrowOlder
  BY <1>6 DEF GrowOlder, row, local
<1>7. CASE SessionChanges
  BY <1>7 DEF SessionChanges, row, local
<1>8. CASE RunnerAccepts
  BY <1>8 DEF RunnerAccepts, row, local
<1>9. CASE RunnerFinishes
  BY <1>9 DEF RunnerFinishes, Persist, row, local
<1>10. ASSUME NEW r \in Replica, ClaimReady(r) PROVE SafetyInv'
  BY <1>10 DEF ClaimReady, Goto, row, local
<1>11. ASSUME NEW r \in Replica, CheckTerminal(r) PROVE SafetyInv'
  BY <1>11 DEF CheckTerminal, Goto, row, local
<1>12. ASSUME NEW r \in Replica, SkipDispatch(r) PROVE SafetyInv'
  BY <1>12 DEF SkipDispatch, Goto, Settle, row, local
<1>13. ASSUME NEW r \in Replica, LoadAttachments(r) PROVE SafetyInv'
  BY <1>13 DEF LoadAttachments, Goto, row, local
<1>14. ASSUME NEW r \in Replica, PodNotReady(r) PROVE SafetyInv'
  BY <1>14 DEF PodNotReady, AfterError, Goto, row, local
<1>15. ASSUME NEW r \in Replica, RejectTurn(r) PROVE SafetyInv'
  BY <1>15 DEF RejectTurn, AfterError, Goto, row, local
<1>16. ASSUME NEW r \in Replica, SubmitTurn(r) PROVE SafetyInv'
  BY <1>16 DEF SubmitTurn, Goto, Persist, row, local
<1>17. ASSUME NEW r \in Replica, PublishCommand(r) PROVE SafetyInv'
  BY <1>17 DEF PublishCommand, Deliver, Goto, row, local
<1>18. ASSUME NEW r \in Replica, MarkPublishFailed(r) PROVE SafetyInv'
  BY <1>18 DEF MarkPublishFailed, AfterError, Goto, Persist, row, local
<1>19. ASSUME NEW r \in Replica, MarkDispatched(r) PROVE SafetyInv'
  BY <1>19 DEF MarkDispatched, Goto, Settle, row, local
<1>20. ASSUME NEW r \in Replica, FailMark(r) PROVE SafetyInv'
  BY <1>20 DEF FailMark, Goto, Settle, row, local
<1>21. ASSUME NEW r \in Replica, FailEvent(r) PROVE SafetyInv'
  BY <1>21 DEF FailEvent, Goto, Persist, row, local
<1>22. ASSUME NEW r \in Replica, FindStale(r) PROVE SafetyInv'
  BY <1>22 DEF FindStale, Goto, row, local
<1>23. ASSUME NEW r \in Replica, PublishFails(r) PROVE SafetyInv'
  BY <1>23 DEF PublishFails, Deliver, Fault, Goto, row, local
<1>24. ASSUME NEW r \in Replica, DispatchError(r) PROVE SafetyInv'
  BY <1>24 DEF DispatchError, AfterError, Fault, Goto, row, local
<1>25. ASSUME NEW r \in Replica, FailError(r) PROVE SafetyInv'
  BY <1>25 DEF FailError, Fault, Goto, row, local
<1>26. ASSUME NEW r \in Replica, Crash(r) PROVE SafetyInv'
  BY <1>26 DEF Crash, Fault, Goto, row, local
<1>27. ASSUME NEW r \in Replica, FindStrandedLaunch(r) PROVE SafetyInv'
  BY <1>27 DEF FindStrandedLaunch, row, local
<1>28. ASSUME NEW r \in Replica, FailStrandedLaunch(r) PROVE SafetyInv'
  BY <1>28 DEF FailStrandedLaunch, Persist, row, local
<1>29. CASE UNCHANGED vars
  BY <1>29 DEF vars
<1> QED
  BY <1>1, <1>2, <1>3, <1>4, <1>5, <1>6, <1>7, <1>8, <1>9, <1>10, <1>11, <1>12, <1>13, <1>14,
     <1>15, <1>16, <1>17, <1>18, <1>19, <1>20, <1>21, <1>22, <1>23, <1>24, <1>25, <1>26, <1>27,
     <1>28, <1>29
  DEF Next, Environment, DispatchStep, Errors

\* The strengthened invariant holds in every reachable state.
LEMMA Invariance == Spec => []IndInv
<1>1. IndInv /\ [Next]_vars => IndInv'
  BY NextTypeOK, NextSafetyInv DEF IndInv, SafetyInv
<1> QED
  BY InitIndInv, <1>1, PTL DEF Spec

\* Type correctness of the launch pipeline.
THEOREM TypeCorrect == Spec => []TypeOK
<1>1. IndInv => TypeOK
  BY DEF IndInv
<1> QED
  BY Invariance, <1>1, PTL

\* The staged bytes follow the row: none on a dispatched or failed launch,
\* all of them on one the dispatcher may act on.
THEOREM BlobsFollowRow == Spec => [](NoOrphanedBlobs /\ ClaimableHasAllBytes)
<1>1. IndInv => NoOrphanedBlobs /\ ClaimableHasAllBytes
  BY DEF IndInv
<1> QED
  BY Invariance, <1>1, PTL

\* A command on the stream names all attachments or none.
THEOREM PayloadAllOrNothing == Spec => []AllOrNothingPayload
<1>1. IndInv => AllOrNothingPayload
  BY DEF IndInv
<1> QED
  BY Invariance, <1>1, PTL

\* turn.submitted is durable before the command, the command before the
\* row is marked dispatched.
THEOREM DispatchOrder == Spec => [](BoundaryBeforeCommand /\ DispatchedWasPublished)
<1>1. IndInv => BoundaryBeforeCommand /\ DispatchedWasPublished
  BY DEF IndInv
<1> QED
  BY Invariance, <1>1, PTL

\* What a launch may never show, for any number of replicas, attachments, claims and
\* faults (dispatchReadyLaunches, StageAttachment and the stranded-launch sweep).
THEOREM LaunchIsSafe == Spec => []LaunchSafe
<1>1. TypeOK /\ (NoOrphanedBlobs /\ ClaimableHasAllBytes) /\ AllOrNothingPayload
        /\ (BoundaryBeforeCommand /\ DispatchedWasPublished) => LaunchSafe
  BY DEF LaunchSafe
<1> QED
  BY <1>1, TypeCorrect, BlobsFollowRow, PayloadAllOrNothing, DispatchOrder, PTL

\* No step of any replica, upload or scan makes a dispatched or failed row
\* live again, although the Mark writes do not look at the status.
THEOREM TerminalRowIsFinal == Spec => RowStaysTerminal
<1> DEFINE Stays == (status \in TerminalRow) => (status' \in TerminalRow)
<1>1. ASSUME Environment PROVE Stays
  BY <1>1 DEF Environment, PersistUserMessage, Register, RegisterFails, StageAttachment,
         LeaseExpires, GrowOlder, SessionChanges, RunnerAccepts, RunnerFinishes, row, TerminalRow
<1>2. ASSUME NEW r \in Replica, DispatchStep(r) PROVE Stays
  BY <1>2 DEF DispatchStep, CheckTerminal, SkipDispatch, LoadAttachments, PodNotReady,
         RejectTurn, SubmitTurn, PublishCommand, MarkPublishFailed, MarkDispatched, FailMark,
         FailEvent, Settle, row, TerminalRow
<1>3. ASSUME NEW r \in Replica, ClaimReady(r) \/ FindStale(r) \/ FindStrandedLaunch(r) \/ FailStrandedLaunch(r)
      PROVE Stays
  BY <1>3 DEF ClaimReady, FindStale, FindStrandedLaunch, FailStrandedLaunch, row, TerminalRow
<1>4. ASSUME NEW r \in Replica, Errors(r) PROVE Stays
  BY <1>4 DEF Errors, PublishFails, DispatchError, FailError, Crash, row
<1>5. [Next]_vars => [Stays]_vars
  BY <1>1, <1>2, <1>3, <1>4 DEF Next
<1> QED
  BY <1>5, PTL DEF Spec, RowStaysTerminal

-----------------------------------------------------------------------------
(* Approvals                                                               *)

USE ActionsAssumption DEF ActionsAssumption

\* The states of a decision handler.
DeciderStates == [pc : {"idle", "check", "append", "notify"}, decision : {"approve", "deny"},
                  todo : 0..MaxRows, ready : Seq(0..MaxRows), granted : Seq(Ids)]
\* The ids of a table.
IdsOf(tab) == {r.id : r \in tab}
\* The decisions that the unique index is on.
Closes(r) == r.kind \in {"grant", "deny"}
\* What the nonce of the turn about a grant is made of.
SeedOf(r) == IF r.ref = 0 THEN r.id ELSE r.ref

\* The table is a log: ids count its rows, a row refers to an older one only, and
\* the index lets one row close a request.
TableInv ==
  /\ IsFiniteSet(table)
  /\ \A r \in table : r.id <= Cardinality(table) /\ r.ref < r.id
  /\ \A r, s \in table : r.id = s.id => r = s
  /\ \A r, s \in table : Closes(r) /\ Closes(s) /\ r.ref = s.ref /\ r.ref # 0 => r = s

\* A handler that appends has a request to append, a handler that has appended
\* no grant has none to tell of, and what it holds refers to rows that exist.
InOrder(p, tab) ==
  /\ p.pc = "append" => p.ready # <<>>
  /\ p.pc \in {"idle", "check"} \/ p.decision = "deny" => p.granted = <<>>
  /\ p.todo <= Cardinality(tab) /\ \A i \in DOMAIN p.ready : p.ready[i] <= Cardinality(tab)
  /\ \A i \in DOMAIN p.granted : p.granted[i] \in IdsOf(tab)

\* So it is with every handler.
DeciderInv == \A d \in Deciders : InOrder(deciders[d], table)

\* A turn told the agent of the grant.
Announced(r) == \E t \in turns : \E i \in DOMAIN t : t[i] = SeedOf(r)
\* A grant was told, was missed, came by a way that tells nobody, or is in the hands
\* of the handler that appended it and will tell of it or miss it.
NoticeInv ==
  \A r \in table : Grant(r) =>
    \/ r.id \in missed \cup silent \/ Announced(r)
    \/ \E d \in Deciders : r.id \in Told(deciders[d].granted)

\* A step that puts q in the place of handler d and leaves the others alone.
HandsOver(d, q) ==
  /\ deciders' \in [Deciders -> DeciderStates] /\ deciders'[d] = q
  /\ \A e \in Deciders \ {d} : deciders'[e] = deciders[e]

\* The type invariant of the handlers, with the set named.
LEMMA DeciderType == ActionsTypeOK => deciders \in [Deciders -> DeciderStates]
  BY DEF ActionsTypeOK, DeciderStates

\* Replacing one handler is such a step.
LEMMA HandsOne ==
  ASSUME ActionsTypeOK, NEW d \in Deciders, NEW q \in DeciderStates,
         deciders' = [deciders EXCEPT ![d] = q]
  PROVE  HandsOver(d, q)
  BY DeciderType DEF HandsOver

\* A handler that is not running is in order.
LEMMA NobodyInOrder ==
  ASSUME TableInv
  PROVE  NoDecider \in DeciderStates /\ InOrder(NoDecider, table) /\ NoDecider.granted = <<>>
<1>1. Cardinality(table) \in Nat
  BY FS_CardinalityType DEF TableInv
<1>2. <<>> \in Seq(0..MaxRows) /\ <<>> \in Seq(Ids)
  OBVIOUS
<1>3. NoDecider \in DeciderStates
  BY <1>2 DEF NoDecider, DeciderStates
<1> QED
  BY <1>1, <1>3 DEF NoDecider, InOrder

\* A row appended with the next id keeps the table a log.
LEMMA AppendRow ==
  ASSUME ActionsTypeOK, TableInv, NEW entry \in Row, entry.id = NextId, table' = table \cup {entry},
         entry.ref <= Cardinality(table),
         Closes(entry) => IndexAllows(entry.ref)
  PROVE  TableInv' /\ Cardinality(table') = Cardinality(table) + 1
<1>1. Cardinality(table) \in Nat
  BY FS_CardinalityType DEF TableInv
<1>2. \A r \in table : r \in Row /\ r.id \in Nat /\ r.ref \in Nat
  BY DEF ActionsTypeOK, Row, Ids
<1>3. entry \notin table
  BY <1>1, <1>2 DEF TableInv, NextId
<1>4. IsFiniteSet(table') /\ Cardinality(table') = Cardinality(table) + 1
  BY <1>3, FS_AddElement DEF TableInv
<1>5. entry.id = Cardinality(table) + 1 /\ entry.ref \in Nat
  BY DEF NextId, Row
<1>6. \A r \in table' : r.id <= Cardinality(table') /\ r.ref < r.id
  BY <1>1, <1>2, <1>4, <1>5 DEF TableInv
<1>7. \A r, s \in table' : r.id = s.id => r = s
  BY <1>1, <1>2, <1>5 DEF TableInv
<1>8. \A r, s \in table' : Closes(r) /\ Closes(s) /\ r.ref = s.ref /\ r.ref # 0 => r = s
  BY DEF TableInv, Closes, IndexAllows
<1> QED
  BY <1>4, <1>6, <1>7, <1>8 DEF TableInv

\* A list of one request.
LEMMA OneLong ==
  ASSUME NEW q \in 0..MaxRows
  PROVE  <<q>> \in Seq(0..MaxRows) /\ <<q>> # <<>> /\ DOMAIN <<q>> = {1} /\ <<q>>[1] = q
<1>1. <<q>> \in Seq(0..MaxRows) /\ Len(<<q>>) = 1 /\ <<q>>[1] = q
  OBVIOUS
<1>2. DOMAIN <<q>> = 1..Len(<<q>>)
  BY <1>1, LenProperties
<1>3. 1..1 = {1}
  OBVIOUS
<1> QED
  BY <1>1, <1>2, <1>3, EmptySeq

\* The list of a request that is open is that request.
LEMMA PendingTyped ==
  ASSUME NEW q \in 0..MaxRows
  PROVE  IfPending(q) \in Seq(0..MaxRows) /\ \A i \in DOMAIN IfPending(q) : IfPending(q)[i] = q
<1>1. <<>> \in Seq(0..MaxRows) /\ DOMAIN <<>> = {}
  BY EmptySeq
<1> QED
  BY <1>1, OneLong DEF IfPending

\* The id of a request is the id of a row.
LEMMA RequestIds ==
  ASSUME ActionsTypeOK, TableInv, NEW kind, NEW q \in Requests(kind)
  PROVE  q \in Ids /\ q <= Cardinality(table) /\ q \in IdsOf(table)
  BY DEF ActionsTypeOK, TableInv, Requests, Row, IdsOf

\* A handler that begins is in order when the requests it begins with exist.
LEMMA BeginMoves ==
  ASSUME ActionsTypeOK, TableInv, DeciderInv, NEW d \in Deciders,
         NEW decision \in {"approve", "deny"}, NEW place \in {"check", "append"},
         NEW ready \in Seq(0..MaxRows), NEW todo \in 0..MaxRows,
         place = "append" => ready # <<>>, todo <= Cardinality(table),
         \A i \in DOMAIN ready : ready[i] <= Cardinality(table),
         Begin(d, decision, place, ready, todo)
  PROVE  \E q \in DeciderStates : HandsOver(d, q) /\ InOrder(q, table) /\ q.granted = deciders[d].granted
<1> DEFINE q == [NoDecider EXCEPT !.pc = place, !.decision = decision, !.ready = ready, !.todo = todo]
<1>1. <<>> \in Seq(Ids)
  OBVIOUS
<1>2. q.pc = place /\ q.decision = decision /\ q.todo = todo /\ q.ready = ready /\ q.granted = <<>>
  BY DEF NoDecider
<1>3. q \in DeciderStates
  BY <1>1 DEF DeciderStates, NoDecider
<1> HIDE DEF q
<1>4. InOrder(q, table)
  BY <1>2 DEF InOrder
<1>5. deciders[d].granted = <<>> /\ q.granted = <<>>
  BY <1>2 DEF Begin, DeciderInv, InOrder
<1>6. deciders' = [deciders EXCEPT ![d] = q]
  BY DEF Begin, q
<1> QED
  BY <1>3, <1>4, <1>5, <1>6, HandsOne

\* So is one that begins with a single request.
LEMMA BeginOne ==
  ASSUME ActionsTypeOK, TableInv, DeciderInv, NEW d \in Deciders,
         NEW decision \in {"approve", "deny"}, NEW q \in 0..MaxRows, q <= Cardinality(table),
         Begin(d, decision, "append", <<q>>, 0)
  PROVE  /\ \E z \in DeciderStates : HandsOver(d, z) /\ InOrder(z, table) /\ z.granted = deciders[d].granted
         /\ UNCHANGED <<table, turns, missed, silent, errors>>
<1>1. 0 \in 0..MaxRows /\ 0 <= Cardinality(table)
  BY FS_CardinalityType DEF TableInv
<1>2. \A i \in DOMAIN <<q>> : <<q>>[i] <= Cardinality(table)
  BY OneLong
<1>3. UNCHANGED <<table, turns, missed, silent, errors>>
  BY DEF Begin
<1>4. <<q>> \in Seq(0..MaxRows) /\ <<q>> # <<>>
  BY OneLong
<1> DEFINE ready == <<q>>
<1> HIDE DEF ready
<1>5. \E z \in DeciderStates : HandsOver(d, z) /\ InOrder(z, table) /\ z.granted = deciders[d].granted
  <2>1. /\ Begin(d, decision, "append", ready, 0) /\ ready \in Seq(0..MaxRows) /\ ready # <<>>
        /\ \A i \in DOMAIN ready : ready[i] <= Cardinality(table)
    BY <1>2, <1>4 DEF ready
  <2> QED
    BY <1>1, <2>1, BeginMoves
<1> QED
  BY <1>3, <1>5

\* Everything a handler does before it appends only looks at the table, and it
\* stays in order.
LEMMA LookMoves ==
  ASSUME ActionsTypeOK, TableInv, DeciderInv, NEW d \in Deciders,
         \/ \E q \in Ids, decision \in {"approve", "deny"} : Decide(d, q, decision)
         \/ \E q \in Ids : ApproveModel(d, q)
         \/ \E q1, q2 \in Ids : ApproveBatch(d, q1, q2)
         \/ \E q \in 0..MaxRows : AdminGrant(d, q)
         \/ CheckNext(d)
  PROVE  /\ \E q \in DeciderStates : HandsOver(d, q) /\ InOrder(q, table) /\ q.granted = deciders[d].granted
         /\ UNCHANGED <<table, turns, missed, silent, errors>>
<1>0. Cardinality(table) \in Nat /\ Ids \subseteq 0..MaxRows
  BY FS_CardinalityType DEF TableInv, Ids
<1>1. ASSUME NEW q \in Ids, NEW decision \in {"approve", "deny"}, Decide(d, q, decision)
      PROVE  /\ \E z \in DeciderStates : HandsOver(d, z) /\ InOrder(z, table) /\ z.granted = deciders[d].granted
             /\ UNCHANGED <<table, turns, missed, silent, errors>>
  <2>1. q \in Requests("request") /\ Begin(d, decision, "append", <<q>>, 0)
    BY <1>1 DEF Decide
  <2>2. q <= Cardinality(table)
    BY <2>1, <1>0, RequestIds
  <2> QED
    BY <1>0, <2>1, <2>2, BeginOne
<1>2. ASSUME NEW q \in Ids, ApproveModel(d, q)
      PROVE  /\ \E z \in DeciderStates : HandsOver(d, z) /\ InOrder(z, table) /\ z.granted = deciders[d].granted
             /\ UNCHANGED <<table, turns, missed, silent, errors>>
  <2>1. q \in Requests("model_request") /\ Begin(d, "approve", "append", <<q>>, 0)
    BY <1>2 DEF ApproveModel
  <2>2. q <= Cardinality(table)
    BY <2>1, <1>0, RequestIds
  <2> QED
    BY <1>0, <2>1, <2>2, BeginOne
<1>3. ASSUME NEW q1 \in Ids, NEW q2 \in Ids, ApproveBatch(d, q1, q2)
      PROVE  /\ \E z \in DeciderStates : HandsOver(d, z) /\ InOrder(z, table) /\ z.granted = deciders[d].granted
             /\ UNCHANGED <<table, turns, missed, silent, errors>>
  <2>1. {q1, q2} \subseteq Requests("request") /\ Begin(d, "approve", "check", IfPending(q1), q2)
    BY <1>3 DEF ApproveBatch
  <2>2. q1 <= Cardinality(table) /\ q2 <= Cardinality(table)
    BY <2>1, RequestIds
  <2>3. /\ IfPending(q1) \in Seq(0..MaxRows)
        /\ \A i \in DOMAIN IfPending(q1) : IfPending(q1)[i] <= Cardinality(table)
    BY <1>0, <2>2, PendingTyped
  <2> QED
    BY <1>0, <2>1, <2>2, <2>3, BeginMoves DEF Begin
<1>4. ASSUME NEW q \in 0..MaxRows, AdminGrant(d, q)
      PROVE  /\ \E z \in DeciderStates : HandsOver(d, z) /\ InOrder(z, table) /\ z.granted = deciders[d].granted
             /\ UNCHANGED <<table, turns, missed, silent, errors>>
  <2>1. q = 0 \/ q \in Requests("request")
    BY <1>4 DEF AdminGrant
  <2>2. q <= Cardinality(table)
    BY <2>1, <1>0, RequestIds
  <2>3. Begin(d, "approve", "append", <<q>>, 0)
    BY <1>4 DEF AdminGrant
  <2> QED
    BY <1>0, <2>3, <2>2, BeginOne
<1>5. ASSUME CheckNext(d)
      PROVE  /\ \E z \in DeciderStates : HandsOver(d, z) /\ InOrder(z, table) /\ z.granted = deciders[d].granted
             /\ UNCHANGED <<table, turns, missed, silent, errors>>
  <2> DEFINE me == deciders[d]
             rest == IfPending(me.todo)
             ready == me.ready \o rest
             q == [me EXCEPT !.pc = "append", !.ready = ready, !.todo = 0]
  <2>1. /\ me \in DeciderStates /\ InOrder(me, table) /\ me.granted = <<>> /\ me.pc = "check"
    BY <1>5, DeciderType DEF CheckNext, DeciderInv, InOrder
  <2>2. /\ me.ready \in Seq(0..MaxRows) /\ me.todo \in 0..MaxRows /\ me.todo <= Cardinality(table)
        /\ \A i \in DOMAIN me.ready : me.ready[i] <= Cardinality(table)
    BY <2>1 DEF DeciderStates, InOrder
  <2>3. rest \in Seq(0..MaxRows) /\ \A i \in DOMAIN rest : rest[i] <= Cardinality(table)
    BY <2>2, PendingTyped
  <2>4. /\ \/ ready = <<>> /\ deciders' = [deciders EXCEPT ![d] = NoDecider]
           \/ ready # <<>> /\ deciders' = [deciders EXCEPT ![d] = q]
        /\ UNCHANGED <<table, turns, missed, silent, errors>>
    BY <1>5 DEF CheckNext
  <2> HIDE DEF me, rest
  <2>5. ready \in Seq(0..MaxRows) /\ \A i \in DOMAIN ready : ready[i] <= Cardinality(table)
    BY <2>2, <2>3, ConcatProperties
  <2> HIDE DEF ready
  <2>6. q \in DeciderStates
    <3>1. me \in DeciderStates /\ 0 \in 0..MaxRows
      BY <2>1
    <3> QED
      BY <3>1, <2>5 DEF DeciderStates
  <2>9. q.pc = "append" /\ q.ready = ready /\ q.todo = 0 /\ q.granted = me.granted /\ q.decision = me.decision
    BY <2>1 DEF DeciderStates
  <2>10. ready # <<>> => InOrder(q, table)
    <3> HIDE DEF q
    <3> QED
      BY <1>0, <2>1, <2>5, <2>9 DEF InOrder
  <2>7. CASE ready = <<>>
    BY <2>1, <2>4, <2>7, NobodyInOrder, HandsOne DEF me
  <2>8. CASE ready # <<>>
    <3> HIDE DEF q
    <3> QED
      BY <2>4, <2>6, <2>8, <2>9, <2>10, HandsOne DEF me
  <2> QED
    BY <2>7, <2>8
<1> QED
  BY <1>1, <1>2, <1>3, <1>4, <1>5

\* The rows a decision may append.
LEMMA DecisionShape ==
  ASSUME NextId \in Ids, NEW q \in 0..MaxRows, NEW decision \in {"approve", "deny"},
         NEW entry \in DecisionRows(q, decision)
  PROVE  /\ entry \in Row /\ entry.id = NextId /\ entry.ref = q
         /\ decision = "deny" => ~Grant(entry)
<1> DEFINE Shape(kind, limit) == DecisionRow(q, kind, limit)
<1>1. ASSUME NEW kind \in Kinds, NEW limit \in 0..1
      PROVE  /\ Shape(kind, limit) \in Row /\ Shape(kind, limit).id = NextId
             /\ Shape(kind, limit).ref = q /\ Shape(kind, limit).kind = kind
  BY DEF DecisionRow, Plain, Row
<1>2. \/ entry = Shape("deny", 0)
      \/ entry = Shape("model_grant", 0) /\ decision = "approve" /\ q \in Requests("model_request")
      \/ \E limit \in 0..1 : entry = Shape("grant", limit) /\ decision = "approve"
  BY DEF DecisionRows, DenyRow, ModelGrantRow, GrantRow, BranchScopes
<1> HIDE DEF Shape
<1>3. {"deny", "model_grant", "grant"} \subseteq Kinds /\ 0 \in 0..1
  BY DEF Kinds
<1> QED
  BY <1>1, <1>2, <1>3 DEF Grant

\* A decision is appended where the index allows it, and a grant stays in the
\* hands of the handler.
LEMMA AppendMoves ==
  ASSUME ActionsTypeOK, TableInv, DeciderInv, NEW d \in Deciders, AppendDecision(d)
  PROVE  \E entry \in Row, q \in DeciderStates :
           /\ entry.id = NextId /\ table' = table \cup {entry} /\ entry.ref <= Cardinality(table)
           /\ Closes(entry) => IndexAllows(entry.ref)
           /\ HandsOver(d, q) /\ InOrder(q, table')
           /\ Told(deciders[d].granted) \subseteq Told(q.granted)
           /\ Grant(entry) => entry.id \in Told(q.granted)
<1> DEFINE me == deciders[d]
           granted == IF me.decision = "deny" THEN <<>> ELSE Append(me.granted, NextId)
           last == Len(me.ready) = 1
           left == Tail(me.ready)
           q == [me EXCEPT !.ready = left, !.granted = granted,
                           !.pc = IF last THEN "notify" ELSE "append"]
<1>1. me \in DeciderStates /\ InOrder(me, table) /\ me.pc = "append" /\ NextId \in Ids /\ IndexAllows(Head(me.ready))
  BY DeciderType DEF AppendDecision, DeciderInv
<1>2. PICK entry \in DecisionRows(Head(me.ready), me.decision) : table' = table \cup {entry}
  BY DEF AppendDecision
<1>3. \/ last /\ granted = <<>> /\ deciders' = [deciders EXCEPT ![d] = NoDecider]
      \/ ~(last /\ granted = <<>>) /\ deciders' = [deciders EXCEPT ![d] = q]
  BY DEF AppendDecision, Done
<1> HIDE DEF me
<1>4. /\ me.ready \in Seq(0..MaxRows) /\ me.ready # <<>> /\ me.granted \in Seq(Ids)
      /\ me.decision \in {"approve", "deny"}
      /\ \A i \in DOMAIN me.ready : me.ready[i] <= Cardinality(table)
      /\ \A i \in DOMAIN me.granted : me.granted[i] \in IdsOf(table)
      /\ me.decision = "deny" => me.granted = <<>>
  BY <1>1 DEF DeciderStates, InOrder
<1>5. Head(me.ready) \in 0..MaxRows /\ Head(me.ready) = me.ready[1] /\ 1 \in DOMAIN me.ready
  BY <1>4, HeadTailProperties, EmptySeq, LenProperties
<1>6. Head(me.ready) <= Cardinality(table)
  BY <1>4, <1>5
<1>7. /\ entry \in Row /\ entry.id = NextId /\ entry.ref = Head(me.ready)
      /\ me.decision = "deny" => ~Grant(entry)
  BY <1>1, <1>2, <1>4, <1>5, DecisionShape
<1>8. TableInv' /\ Cardinality(table') = Cardinality(table) + 1
  BY <1>1, <1>2, <1>6, <1>7, AppendRow
<1>9. Cardinality(table) \in Nat /\ IdsOf(table') = IdsOf(table) \cup {NextId}
  BY <1>2, <1>7, FS_CardinalityType DEF TableInv, IdsOf
<1>10. /\ left \in Seq(0..MaxRows) /\ \A i \in DOMAIN left : left[i] <= Cardinality(table')
       /\ ~last => left # <<>>
  <2>1. left \in Seq(0..MaxRows) /\ Len(left) = Len(me.ready) - 1 /\ Len(me.ready) \in Nat
    BY <1>4, HeadTailProperties, LenProperties
  <2>2. \A i \in 1..Len(left) : left[i] = me.ready[i + 1] /\ i + 1 \in DOMAIN me.ready
    BY <1>4, <2>1, HeadTailProperties, LenProperties
  <2>3. DOMAIN left = 1..Len(left) /\ \A i \in 1..Len(left) : left[i] \in 0..MaxRows
    BY <2>1, LenProperties, ElementOfSeq
  <2>4. Len(me.ready) \in Nat \ {0} /\ Len(<<>>) = 0
    BY <1>4, EmptySeq
  <2>5. ~last => Len(left) # 0
    BY <2>1, <2>4
  <2> HIDE DEF left
  <2>6. ~last => left # <<>>
    BY <2>4, <2>5
  <2>7. ASSUME NEW i \in DOMAIN left PROVE left[i] <= Cardinality(table')
    <3>1. left[i] <= Cardinality(table) /\ left[i] \in Nat
      BY <1>4, <2>2, <2>3
    <3> QED
      BY <1>8, <1>9, <3>1
  <2> QED
    BY <2>1, <2>6, <2>7
<1>11. /\ granted \in Seq(Ids) /\ \A i \in DOMAIN granted : granted[i] \in IdsOf(table')
       /\ Told(me.granted) \subseteq Told(granted)
       /\ me.decision # "deny" => NextId \in Told(granted) /\ granted # <<>>
       /\ me.decision = "deny" => granted = <<>>
  <2>1. CASE me.decision = "deny"
    <3>1. granted = <<>> /\ me.granted = <<>>
      BY <1>4, <2>1
    <3> QED
      BY <2>1, <3>1, EmptySeq
  <2>2. CASE me.decision # "deny"
    <3>1. granted = Append(me.granted, NextId)
      BY <2>2
    <3> HIDE DEF granted
    <3>2. /\ granted \in Seq(Ids) /\ granted # <<>> /\ Len(granted) = Len(me.granted) + 1
          /\ \A i \in 1..Len(me.granted) : granted[i] = me.granted[i]
          /\ granted[Len(me.granted) + 1] = NextId
      <4>1. me.granted \in Seq(Ids) /\ NextId \in Ids
        BY <1>1, <1>4
      <4>2. /\ Append(me.granted, NextId) \in Seq(Ids) /\ Append(me.granted, NextId) # <<>>
            /\ Len(Append(me.granted, NextId)) = Len(me.granted) + 1
            /\ \A i \in 1..Len(me.granted) : Append(me.granted, NextId)[i] = me.granted[i]
            /\ Append(me.granted, NextId)[Len(me.granted) + 1] = NextId
        BY <4>1, AppendProperties
      <4> QED
        BY <3>1, <4>2, Zenon
    <3>3. /\ Len(me.granted) \in Nat /\ DOMAIN me.granted = 1..Len(me.granted)
          /\ DOMAIN granted = 1..(Len(me.granted) + 1)
      BY <1>4, <3>2, LenProperties
    <3>4. ASSUME NEW i \in DOMAIN granted PROVE granted[i] \in IdsOf(table')
      BY <1>4, <1>9, <3>2, <3>3
    <3>5. Told(me.granted) \subseteq Told(granted)
      BY <3>2, <3>3 DEF Told
    <3>6. NextId \in Told(granted)
      BY <3>2, <3>3 DEF Told
    <3> QED
      BY <2>2, <3>2, <3>4, <3>5, <3>6
  <2> QED
    BY <2>1, <2>2
<1> HIDE DEF granted, left
<1>12. q \in DeciderStates
  BY <1>1, <1>10, <1>11 DEF DeciderStates
<1>13. /\ q.pc = (IF last THEN "notify" ELSE "append") /\ q.ready = left /\ q.granted = granted
       /\ q.todo = me.todo /\ q.decision = me.decision
  BY <1>1 DEF DeciderStates
<1> HIDE DEF q, last
<1>14. me.todo <= Cardinality(table') /\ me.todo \in Nat
  BY <1>1, <1>8, <1>9 DEF InOrder, DeciderStates
<1>15. InOrder(q, table')
  BY <1>10, <1>11, <1>12, <1>13, <1>14 DEF InOrder, DeciderStates
<1>16. CASE deciders' = [deciders EXCEPT ![d] = q]
  BY <1>1, <1>2, <1>6, <1>7, <1>11, <1>12, <1>13, <1>15, <1>16, HandsOne DEF me
<1>17. CASE granted = <<>> /\ deciders' = [deciders EXCEPT ![d] = NoDecider]
  <2>1. NoDecider \in DeciderStates /\ NoDecider.granted = <<>>
    BY NobodyInOrder
  <2>2. InOrder(NoDecider, table')
    BY <1>8, <1>9 DEF InOrder, NoDecider
  <2>3. me.decision = "deny"
    BY <1>11, <1>17
  <2> QED
    BY <1>1, <1>2, <1>6, <1>7, <1>11, <1>17, <2>1, <2>2, <2>3, HandsOne DEF me
<1> QED
  BY <1>3, <1>16, <1>17

\* The nonce of a grant is made from its row, which is the only one of its id.
LEMMA SeedIs ==
  ASSUME TableInv, NEW r \in table
  PROVE  Seed(r.id) = SeedOf(r)
<1>1. RowOf(r.id) \in table /\ RowOf(r.id).id = r.id
  BY DEF RowOf
<1>2. RowOf(r.id) = r
  BY <1>1 DEF TableInv
<1> QED
  BY <1>2 DEF Seed, SeedOf

\* The turn of a batch tells of each of its grants.
LEMMA TurnTells ==
  ASSUME ActionsTypeOK, TableInv, DeciderInv, NEW d \in Deciders
  PROVE  LET granted == deciders[d].granted
         IN /\ ApprovalTurn(granted) \in Seq(Ids) /\ Told(granted) \subseteq Ids
            /\ \A r \in table : r.id \in Told(granted) =>
                 \E i \in DOMAIN ApprovalTurn(granted) : ApprovalTurn(granted)[i] = SeedOf(r)
<1> DEFINE granted == deciders[d].granted
<1>1. granted \in Seq(Ids) /\ \A i \in DOMAIN granted : granted[i] \in IdsOf(table)
  BY DeciderType DEF DeciderInv, InOrder, DeciderStates
<1> HIDE DEF granted
<1>2. DOMAIN granted = 1..Len(granted) /\ Len(granted) \in Nat
  BY <1>1, LenProperties
<1>3. \A r \in table : SeedOf(r) \in Ids
  BY DEF ActionsTypeOK, Row, SeedOf, Ids
<1>4. \A i \in DOMAIN granted : Seed(granted[i]) \in Ids
  BY <1>1, <1>3, SeedIs DEF IdsOf
<1>5. ApprovalTurn(granted) = [i \in 1..Len(granted) |-> Seed(granted[i])]
  BY <1>2 DEF ApprovalTurn
<1>6. ApprovalTurn(granted) \in Seq(Ids)
  BY <1>2, <1>4, <1>5
<1>7. Told(granted) \subseteq Ids
  BY <1>1, <1>2, ElementOfSeq DEF Told
<1>8. \A r \in table : r.id \in Told(granted) =>
        \E i \in DOMAIN ApprovalTurn(granted) : ApprovalTurn(granted)[i] = SeedOf(r)
  BY <1>2, <1>5, SeedIs DEF Told
<1> QED
  BY <1>6, <1>7, <1>8 DEF granted

\* However a handler ends, the grants it still held are in a turn or are counted
\* as missed.
LEMMA EndMoves ==
  ASSUME ActionsTypeOK, TableInv, DeciderInv, NEW d \in Deciders,
         AppendFails(d) \/ NotifyGrants(d) \/ CrashDecider(d)
  PROVE  /\ table' = table /\ silent' = silent /\ errors' \in 0..MaxErrors /\ HandsOver(d, NoDecider)
         /\ turns' \subseteq Seq(Ids) /\ turns \subseteq turns'
         /\ missed' \subseteq Ids /\ missed \subseteq missed'
         /\ \A r \in table : r.id \in Told(deciders[d].granted) => r.id \in missed' \/ Announced(r)'
<1> DEFINE granted == deciders[d].granted
           turn == ApprovalTurn(granted)
<1>1. /\ turn \in Seq(Ids) /\ Told(granted) \subseteq Ids
      /\ \A r \in table : r.id \in Told(granted) => \E i \in DOMAIN turn : turn[i] = SeedOf(r)
  BY TurnTells
<1>2. deciders' = [deciders EXCEPT ![d] = NoDecider] /\ UNCHANGED <<table, silent>>
  BY DEF AppendFails, NotifyGrants, CrashDecider, Done
<1>3. HandsOver(d, NoDecider)
  BY <1>2, HandsOne, NobodyInOrder
<1>4. errors' \in 0..MaxErrors
  <2>1. errors' = errors \/ AError
    BY DEF AppendFails, NotifyGrants, CrashDecider
  <2> QED
    BY <2>1 DEF AError, ActionsTypeOK
<1>5. \/ turns' = turns \cup {turn} /\ missed' = missed
      \/ turns' = turns /\ missed' = missed \cup Told(granted)
  BY DEF AppendFails, NotifyGrants, CrashDecider
<1> HIDE DEF granted, turn
<1>6. /\ turns' \subseteq Seq(Ids) /\ turns \subseteq turns'
      /\ missed' \subseteq Ids /\ missed \subseteq missed'
  BY <1>1, <1>5 DEF ActionsTypeOK
<1>7. ASSUME NEW r \in table, r.id \in Told(granted) PROVE r.id \in missed' \/ Announced(r)'
  BY <1>1, <1>5, <1>7 DEF Announced, SeedOf
<1> QED
  BY <1>2, <1>3, <1>4, <1>6, <1>7 DEF granted

\* What agents append decides nothing.
LEMMA AgentAppends ==
  ASSUME ActionsTypeOK, TableInv,
         \/ AppendControlAction \/ RequireTestSlotLowCostRunConfig(table)
         \/ \E g \in Ids, b \in Branches : AppendPush(g, b)
  PROVE  \E entry \in Row : /\ entry.id = NextId /\ table' = table \cup {entry} /\ entry.ref <= Cardinality(table)
                            /\ entry.kind \in {"request", "model_request", "push"}
                            /\ UNCHANGED <<deciders, turns, missed, silent, errors>>
<1>0. Cardinality(table) \in Nat /\ NextId \in Ids
  BY FS_CardinalityType
  DEF TableInv, AppendControlAction, RequireTestSlotLowCostRunConfig, AppendPush, Append1
<1>1. ASSUME NEW kind \in {"request", "model_request"}, Append1(Plain(kind))
      PROVE  \E entry \in Row : /\ entry.id = NextId /\ table' = table \cup {entry} /\ entry.ref <= Cardinality(table)
                                /\ entry.kind \in {"request", "model_request", "push"}
                                /\ UNCHANGED <<deciders, turns, missed, silent, errors>>
  <2>1. /\ Plain(kind) \in Row /\ Plain(kind).id = NextId /\ Plain(kind).ref = 0
        /\ Plain(kind).kind = kind
    BY <1>0 DEF Plain, Row, Kinds
  <2> QED
    BY <1>0, <1>1, <2>1 DEF Append1
<1>2. ASSUME NEW g \in Ids, NEW b \in Branches, AppendPush(g, b)
      PROVE  \E entry \in Row : /\ entry.id = NextId /\ table' = table \cup {entry} /\ entry.ref <= Cardinality(table)
                                /\ entry.kind \in {"request", "model_request", "push"}
                                /\ UNCHANGED <<deciders, turns, missed, silent, errors>>
  <2> DEFINE entry == [Plain("push") EXCEPT !.ref = g, !.branches = {b}]
  <2>1. entry \in Row /\ entry.id = NextId /\ entry.ref = g /\ entry.kind = "push"
    <3> DEFINE p == Plain("push")
    <3>1. p \in Row /\ p.id = NextId /\ p.kind = "push"
      BY <1>0 DEF Plain, Row, Kinds
    <3>2. g \in 0..MaxRows /\ {b} \subseteq Branches
      BY DEF Ids
    <3> HIDE DEF p
    <3>3. entry = [p EXCEPT !.ref = g, !.branches = {b}]
      BY DEF p
    <3> HIDE DEF entry
    <3> QED
      BY <3>1, <3>2, <3>3 DEF Row
  <2>2. g <= Cardinality(table)
    BY <1>2 DEF AppendPush, TableInv
  <2>3. Append1(entry)
    BY <1>2 DEF AppendPush
  <2> HIDE DEF entry
  <2> QED
    BY <2>1, <2>2, <2>3 DEF Append1
<1> QED
  BY <1>1, <1>2 DEF AppendControlAction, RequireTestSlotLowCostRunConfig

\* A row that comes by the other ways: of a model grant, or where the index allows it.
LEMMA SilentAppends ==
  ASSUME ActionsTypeOK, TableInv, NEW q \in 0..MaxRows, GrantTestSlotModel(q) \/ AppendDecisionRow(q)
  PROVE  \E entry \in Row : /\ entry.id = NextId /\ table' = table \cup {entry}
                            /\ entry.ref <= Cardinality(table)
                            /\ Closes(entry) => IndexAllows(entry.ref)
                            /\ silent' = silent \cup {entry.id}
                            /\ UNCHANGED <<deciders, turns, missed, errors>>
<1>1. Cardinality(table) \in Nat /\ NextId \in Ids
  BY FS_CardinalityType DEF TableInv, GrantTestSlotModel, AppendDecisionRow, AppendSilently
<1>2. q <= Cardinality(table)
  <2>1. CASE q = 0
    BY <1>1, <2>1
  <2>2. CASE q # 0
    <3>1. q \in Requests("model_request") \/ q \in Requests("request")
      BY <2>2 DEF GrantTestSlotModel, AppendDecisionRow
    <3> QED
      BY <3>1, RequestIds
  <2> QED
    BY <2>1, <2>2
<1>3. PICK entry : /\ AppendSilently(entry)
                   /\ \/ entry = DecisionRow(q, "model_grant", 0)
                      \/ IndexAllows(q) /\ entry = DecisionRow(q, "deny", 0)
                      \/ IndexAllows(q) /\ \E limit \in 0..1 : entry = DecisionRow(q, "grant", limit)
  BY DEF GrantTestSlotModel, AppendDecisionRow, ModelGrantRow, DenyRow, GrantRow, BranchScopes
<1>4. ASSUME NEW kind \in Kinds, NEW limit \in 0..1
      PROVE  /\ DecisionRow(q, kind, limit) \in Row /\ DecisionRow(q, kind, limit).id = NextId
             /\ DecisionRow(q, kind, limit).ref = q /\ DecisionRow(q, kind, limit).kind = kind
  BY <1>1 DEF DecisionRow, Plain, Row
<1>5. {"deny", "model_grant", "grant"} \subseteq Kinds /\ 0 \in 0..1
  BY DEF Kinds
<1>6. /\ entry \in Row /\ entry.id = NextId /\ entry.ref = q
      /\ Closes(entry) => IndexAllows(q)
  BY <1>3, <1>4, <1>5 DEF Closes
<1> QED
  BY <1>2, <1>3, <1>6 DEF AppendSilently

\* A row more leaves the handlers in order.
LEMMA OrderKept ==
  ASSUME ActionsTypeOK, TableInv, DeciderInv, NEW entry \in Row, NEW d \in Deciders,
         table' = table \cup {entry}, Cardinality(table') = Cardinality(table) + 1
  PROVE  InOrder(deciders[d], table')
<1>1. Cardinality(table) \in Nat /\ IdsOf(table) \subseteq IdsOf(table')
  BY FS_CardinalityType DEF TableInv, IdsOf
<1>2. deciders[d] \in DeciderStates /\ InOrder(deciders[d], table)
  BY DeciderType DEF DeciderInv
<1>3. deciders[d].ready \in Seq(0..MaxRows) /\ deciders[d].todo \in 0..MaxRows
  BY <1>2 DEF DeciderStates
<1>4. \A i \in DOMAIN deciders[d].ready : deciders[d].ready[i] \in 0..MaxRows
  BY <1>3, LenProperties, ElementOfSeq
<1>5. deciders[d].todo <= Cardinality(table')
  BY <1>1, <1>2, <1>3 DEF InOrder
<1>6. \A i \in DOMAIN deciders[d].ready : deciders[d].ready[i] <= Cardinality(table')
  BY <1>1, <1>2, <1>4 DEF InOrder
<1> QED
  BY <1>1, <1>2, <1>5, <1>6 DEF InOrder

\* The inductive invariant.
ActionsInv == ActionsTypeOK /\ TableInv /\ DeciderInv /\ NoticeInv

\* Every step keeps it.
LEMMA ActionsStep == ASSUME ActionsInv, ActionsNext PROVE ActionsInv'
<1> USE DEF ActionsInv
<1>1. CASE \/ AppendControlAction \/ RequireTestSlotLowCostRunConfig(table)
           \/ \E g \in Ids, b \in Branches : AppendPush(g, b)
  <2>1. PICK entry \in Row : /\ entry.id = NextId /\ table' = table \cup {entry} /\ entry.ref <= Cardinality(table)
                             /\ entry.kind \in {"request", "model_request", "push"}
                             /\ UNCHANGED <<deciders, turns, missed, silent, errors>>
    BY <1>1, AgentAppends
  <2>2. TableInv' /\ Cardinality(table') = Cardinality(table) + 1
    BY <2>1, AppendRow DEF Closes
  <2>3. ActionsTypeOK'
    BY <2>1 DEF ActionsTypeOK
  <2>4. DeciderInv'
    BY <2>1, <2>2, OrderKept DEF DeciderInv
  <2>5. NoticeInv'
    BY <2>1 DEF NoticeInv, Grant, Announced, SeedOf
  <2> QED
    BY <2>2, <2>3, <2>4, <2>5
<1>2. ASSUME NEW d \in Deciders,
             \/ \E q \in Ids, decision \in {"approve", "deny"} : Decide(d, q, decision)
             \/ \E q \in Ids : ApproveModel(d, q)
             \/ \E q1, q2 \in Ids : ApproveBatch(d, q1, q2)
             \/ \E q \in 0..MaxRows : AdminGrant(d, q)
             \/ CheckNext(d)
      PROVE  ActionsInv'
  <2>1. PICK q \in DeciderStates : HandsOver(d, q) /\ InOrder(q, table) /\ q.granted = deciders[d].granted
    BY <1>2, LookMoves
  <2>2. UNCHANGED <<table, turns, missed, silent, errors>>
    BY <1>2, LookMoves
  <2>3. ActionsTypeOK'
    BY <2>1, <2>2 DEF ActionsTypeOK, HandsOver, DeciderStates
  <2>4. TableInv' /\ DeciderInv'
    BY <2>1, <2>2 DEF TableInv, DeciderInv, HandsOver, Requests
  <2>5. NoticeInv'
    BY <2>1, <2>2 DEF NoticeInv, HandsOver, Announced
  <2> QED
    BY <2>3, <2>4, <2>5
<1>3. ASSUME NEW d \in Deciders, AppendDecision(d) PROVE ActionsInv'
  <2>1. PICK entry \in Row, q \in DeciderStates :
           /\ entry.id = NextId /\ table' = table \cup {entry} /\ entry.ref <= Cardinality(table)
           /\ Closes(entry) => IndexAllows(entry.ref)
           /\ HandsOver(d, q) /\ InOrder(q, table')
           /\ Told(deciders[d].granted) \subseteq Told(q.granted)
           /\ Grant(entry) => entry.id \in Told(q.granted)
    BY <1>3, AppendMoves
  <2>2. TableInv' /\ Cardinality(table') = Cardinality(table) + 1
    BY <2>1, AppendRow
  <2>3. UNCHANGED <<turns, missed, silent, errors>>
    BY <1>3 DEF AppendDecision
  <2>4. ActionsTypeOK'
    BY <2>1, <2>3 DEF ActionsTypeOK, HandsOver, DeciderStates
  <2>5. DeciderInv'
    BY <2>1, <2>2, OrderKept DEF DeciderInv, HandsOver
  <2>6. NoticeInv'
    BY <2>1, <2>3 DEF NoticeInv, HandsOver, Announced
  <2> QED
    BY <2>2, <2>4, <2>5, <2>6
<1>4. ASSUME NEW d \in Deciders, AppendFails(d) \/ NotifyGrants(d) \/ CrashDecider(d) PROVE ActionsInv'
  <2>1. /\ table' = table /\ silent' = silent /\ errors' \in 0..MaxErrors /\ HandsOver(d, NoDecider)
        /\ turns' \subseteq Seq(Ids) /\ turns \subseteq turns'
        /\ missed' \subseteq Ids /\ missed \subseteq missed'
        /\ \A r \in table : r.id \in Told(deciders[d].granted) => r.id \in missed' \/ Announced(r)'
    BY <1>4, EndMoves
  <2>2. ActionsTypeOK'
    BY <2>1 DEF ActionsTypeOK, HandsOver, DeciderStates
  <2>3. TableInv' /\ DeciderInv'
    BY <2>1, NobodyInOrder DEF TableInv, DeciderInv, HandsOver, Requests
  <2>4. NoticeInv'
    BY <2>1 DEF NoticeInv, HandsOver, Announced
  <2> QED
    BY <2>2, <2>3, <2>4
<1>5. ASSUME NEW q \in 0..MaxRows, GrantTestSlotModel(q) \/ AppendDecisionRow(q) PROVE ActionsInv'
  <2>1. PICK entry \in Row : /\ entry.id = NextId /\ table' = table \cup {entry}
                             /\ entry.ref <= Cardinality(table)
                             /\ Closes(entry) => IndexAllows(entry.ref)
                             /\ silent' = silent \cup {entry.id}
                             /\ UNCHANGED <<deciders, turns, missed, errors>>
    BY <1>5, SilentAppends
  <2>2. TableInv' /\ Cardinality(table') = Cardinality(table) + 1
    BY <2>1, AppendRow
  <2>3. ActionsTypeOK'
    BY <2>1 DEF ActionsTypeOK, Row
  <2>4. DeciderInv'
    BY <2>1, <2>2, OrderKept DEF DeciderInv
  <2>5. NoticeInv'
    BY <2>1 DEF NoticeInv, Announced
  <2> QED
    BY <2>2, <2>3, <2>4, <2>5
<1> QED
  BY <1>1, <1>2, <1>3, <1>4, <1>5 DEF ActionsNext

\* A row that decides a request is one the index is on, so there is one at most.
LEMMA DecidedAtMostOnce == ActionsInv => DecidedOnce
<1> SUFFICES ASSUME ActionsInv, NEW q \in Requests("request")
             PROVE  Cardinality(BreakGlassDecisions(q)) <= 1
  BY DEF DecidedOnce
<1> DEFINE S == BreakGlassDecisions(q)
<1>1. q \in Ids /\ q # 0
  BY RequestIds DEF ActionsInv, Ids
<1>3. \A r \in S : r \in table /\ Closes(r) /\ r.ref = q
  BY DEF BreakGlassDecisions, Closes
<1> HIDE DEF S
<1>4. \A r, s \in S : r = s
  BY <1>1, <1>3 DEF ActionsInv, TableInv
<1> SUFFICES Cardinality(S) <= 1
  BY DEF S
<1>5. CASE S = {}
  BY <1>5, FS_EmptySet
<1>6. CASE S # {}
  <2>1. PICK r \in S : TRUE
    BY <1>6
  <2>2. S = {r}
    BY <1>4, <2>1
  <2>3. Cardinality({r}) = 1
    BY FS_Singleton
  <2> QED
    BY <2>2, <2>3
<1> QED
  BY <1>5, <1>6

\* A push is newer than the grant it uses, so a window of the newest rows with
\* the grant in it has all its pushes.
LEMMA WindowHoldsPushes == ActionsInv => LimitHolds
<1> SUFFICES ASSUME ActionsInv, NEW g \in ActiveGrants, g.limit > 0
             PROVE  CountBranches(table, g.id) < g.limit
  BY DEF LimitHolds
<1> DEFINE Newer(r) == {p \in table : p.id > r.id}
<1>1. /\ g \in table /\ Cardinality(Newer(g)) < Window
      /\ CountBranches(ListBySession, g.id) < g.limit
  BY DEF ActiveGrants, ListBySession
<1>2. ASSUME NEW r \in table, r.ref = g.id PROVE r \in ListBySession
  <2>1. g.id < r.id /\ \A p \in table : p.id \in Nat
    BY <1>2 DEF ActionsInv, TableInv, ActionsTypeOK, Row, Ids
  <2>2. Newer(r) \subseteq Newer(g)
    BY <1>1, <2>1
  <2>3. IsFiniteSet(Newer(g))
    BY FS_Subset DEF ActionsInv, TableInv
  <2>4. Cardinality(Newer(r)) <= Cardinality(Newer(g)) /\ IsFiniteSet(Newer(r))
    BY <2>2, <2>3, FS_Subset
  <2>5. Cardinality(Newer(r)) \in Nat /\ Cardinality(Newer(g)) \in Nat
    BY <2>3, <2>4, FS_CardinalityType
  <2>6. Cardinality(Newer(r)) < Window
    <3> HIDE DEF Newer
    <3> QED
      BY <1>1, <2>4, <2>5
  <2> QED
    BY <2>6 DEF ListBySession
<1>3. {r \in table : r.kind = "push" /\ r.ref = g.id} = {r \in ListBySession : r.kind = "push" /\ r.ref = g.id}
  BY <1>2 DEF ListBySession
<1> QED
  BY <1>1, <1>3 DEF CountBranches

\* With no handler under way nothing is in hand, so a grant was told or missed, or no
\* handler of a decision appended it.
LEMMA GrantsAreTold == ActionsInv => GrantNotified
<1> SUFFICES ASSUME ActionsInv, \A d \in Deciders : deciders[d].pc = "idle",
                    NEW r \in table, Grant(r), r.id \notin missed \cup silent
             PROVE  \E t \in turns : \E i \in DOMAIN t : t[i] = Seed(r.id)
  BY DEF GrantNotified
<1>1. \A d \in Deciders : deciders[d].granted = <<>>
  BY DEF ActionsInv, DeciderInv, InOrder
<1>2. Told(<<>>) = {}
  BY DEF Told
<1>3. Announced(r)
  BY <1>1, <1>2 DEF ActionsInv, NoticeInv
<1> QED
  BY <1>3, SeedIs DEF Announced, ActionsInv

\* The invariant holds of the empty table.
LEMMA ActionsStart == ActionsInit => ActionsInv
<1> SUFFICES ASSUME ActionsInit PROVE ActionsInv
  OBVIOUS
<1>1. IsFiniteSet(table)
  BY FS_EmptySet DEF ActionsInit
<1>2. TableInv
  BY <1>1 DEF TableInv, ActionsInit
<1>3. ActionsTypeOK
  BY <1>2, NobodyInOrder DEF ActionsInit, ActionsTypeOK, DeciderStates
<1>4. DeciderInv
  BY <1>2, NobodyInOrder DEF ActionsInit, DeciderInv
<1>5. NoticeInv
  BY DEF NoticeInv, ActionsInit
<1> QED
  BY <1>2, <1>3, <1>4, <1>5 DEF ActionsInv

\* One decision a request, no grant reported active beyond its limit, every grant of
\* a decision handler told or counted as missed, for any handlers, branches, window and
\* number of rows, whatever the direct model grants and the append route add
\* (handleBreakGlassDecision, the batch approval, the index of
\* control_action_events, and the grant lookup).
THEOREM ApprovalsAreSafe == ActionsSpec => []ApprovalsSafe
<1>1. ActionsInit => ActionsInv
  BY ActionsStart
<1>2. ActionsInv /\ [ActionsNext]_avars => ActionsInv'
  <2> SUFFICES ASSUME ActionsInv, [ActionsNext]_avars PROVE ActionsInv'
    OBVIOUS
  <2>1. CASE ActionsNext
    BY <2>1, ActionsStep
  <2>2. CASE UNCHANGED avars
    BY <2>2
    DEF avars, ActionsInv, ActionsTypeOK, TableInv, DeciderInv, NoticeInv, Requests, Announced
  <2> QED
    BY <2>1, <2>2
<1>3. ActionsInv => ApprovalsSafe
  BY DecidedAtMostOnce, WindowHoldsPushes, GrantsAreTold DEF ApprovalsSafe, ActionsInv
<1> QED
  BY <1>1, <1>2, <1>3, PTL DEF ActionsSpec
=============================================================================
