------------------------- MODULE Automations_proof -------------------------
(***************************************************************************)
(* Proofs about two automations that start turns on their own.  The wakes  *)
(* of a background task (BackgroundTaskWake) keep one prompt a generation; *)
(* a run (Orchestration) never gets ahead of its merges.  For any constants *)
(* that satisfy their assumptions; the two share no state.                 *)
(***************************************************************************)
EXTENDS BackgroundTaskWake, Orchestration, FiniteSetTheorems, SequenceTheorems,
        WellFoundedInduction, TLAPS

-----------------------------------------------------------------------------
(* BackgroundTaskWake                                                      *)


USE TaskWakeAssumption DEF TaskWakeAssumption

\* What is durable at each place of a fire, and of a generation that has fired: a
\* row is fired only with a turn, which is what re-arming relies on.
FireInv ==
    /\ \A r \in Replica :
         /\ pc[r] # "idle" => Exists(held[r])
         /\ pc[r] = "publish" => "submitted" \in ledger[held[r]]
         /\ pc[r] = "mark_fired" => ledger[held[r]] # {}
    /\ \A g \in Generation : status[g] = "fired" => ledger[g] # {}

\* The invariant about turns, beyond the types.
TurnInv == OnePromptPerGeneration /\ RearmAfterTurn /\ FireInv

\* The fires that will give an attempt on g back.
Deferred(g) == {r \in Replica : pc[r] = "defer" /\ held[r] = g}

\* Counting a part of a finite set, and of one with an element more.
LEMMA PartCount ==
    ASSUME NEW S, NEW T, NEW n \in Nat, IsFiniteSet(S), T \subseteq S, Cardinality(S) <= n
    PROVE  Cardinality(T) <= n
<1>1. Cardinality(S) \in Nat /\ Cardinality(T) \in Nat /\ Cardinality(T) <= Cardinality(S)
  BY FS_Subset, FS_CardinalityType
<1> QED
  BY <1>1

LEMMA PartCountOneMore ==
    ASSUME NEW S, NEW T, NEW x, NEW n \in Nat, IsFiniteSet(S), T \subseteq S \union {x},
           Cardinality(S) <= n
    PROVE  Cardinality(T) <= n + 1
<1>1. Cardinality(S) \in Nat
  BY FS_CardinalityType
<1>2. IsFiniteSet(S \union {x}) /\ Cardinality(S \union {x}) <= Cardinality(S) + 1
  BY <1>1, FS_AddElement
<1>3. Cardinality(S \union {x}) \in Nat /\ Cardinality(T) \in Nat
  BY <1>2, FS_CardinalityType, FS_Subset
<1>4. Cardinality(T) <= Cardinality(S \union {x})
  BY <1>2, FS_Subset
<1> QED
  BY <1>1, <1>2, <1>3, <1>4

\* A task with no wake yet.
LEMMA TaskWakeInit == WakesInit => WakesTypeOK /\ TurnInv /\ RefundsAreBacked
<1> SUFFICES ASSUME WakesInit PROVE WakesTypeOK /\ TurnInv /\ RefundsAreBacked
  OBVIOUS
<1>1. leaseStale \in [Generation -> BOOLEAN] /\ identified \in [Generation -> BOOLEAN] /\ busy \in BOOLEAN
  BY Zenon DEF WakesInit
<1>2. /\ pc \in [Replica -> Control] /\ held \in [Replica -> Generation]
      /\ sent \in [Generation -> Nat] /\ attempts \in [Generation -> 0..AttemptCap]
  BY DEF WakesInit, Control, Generation
<1>3. WakesTypeOK
  BY <1>1, <1>2 DEF WakesInit, WakesTypeOK
<1>4. TurnInv
  BY DEF WakesInit, TurnInv, OnePromptPerGeneration, RearmAfterTurn, FireInv, Exists
<1>5. \A g \in Generation : Deferred(g) = {} /\ attempts[g] = 0
  BY DEF WakesInit, Deferred
<1>6. RefundsAreBacked
  BY <1>5, FS_EmptySet DEF RefundsAreBacked, Deferred
<1> QED
  BY <1>3, <1>4, <1>6

\* Every step keeps the variables in their types.
LEMMA TaskWakeTypeStep == ASSUME WakesTypeOK, WakesNext PROVE WakesTypeOK'
<1> USE DEF WakesTypeOK, Generation, Pending, Decided, Control, wakeRow
<1>1. ASSUME NEW hasId \in BOOLEAN, RegisterFirst(hasId) PROVE WakesTypeOK'
  BY <1>1 DEF RegisterFirst, Arm
<1>2. CASE RegisterRefresh
  BY <1>2 DEF RegisterRefresh
<1>3. CASE RegisterRearm
  BY <1>3 DEF RegisterRearm, Arm
<1>4. CASE CancelPending
  BY <1>4 DEF CancelPending
<1>5. CASE SessionChanges
  BY <1>5 DEF SessionChanges
<1>6. CASE ActivityChanges
  BY <1>6 DEF ActivityChanges
<1>7. ASSUME NEW g \in Generation, LeaseExpires(g) PROVE WakesTypeOK'
  BY <1>7 DEF LeaseExpires
<1>8. ASSUME NEW r \in Replica, NEW g \in Generation, ClaimDue(r, g) PROVE WakesTypeOK'
  BY <1>8 DEF ClaimDue, Goto, Ladder, Unheld
<1>9. ASSUME NEW r \in Replica, NEW g \in Generation, FailExceeded(r, g) PROVE WakesTypeOK'
  BY <1>9 DEF FailExceeded, Goto, Overwrite, Unheld
<1>10. ASSUME NEW r \in Replica, ReleaseRetainingAttempt(r) PROVE WakesTypeOK'
  BY <1>10 DEF ReleaseRetainingAttempt, Overwrite, Done, Goto
<1>11. ASSUME NEW r \in Replica, Release(r) PROVE WakesTypeOK'
  BY <1>11 DEF Release, Overwrite, Done, Goto
<1>12. ASSUME NEW r \in Replica, LedgerGuard(r) PROVE WakesTypeOK'
  BY <1>12 DEF LedgerGuard, Goto
<1>13. ASSUME NEW r \in Replica, EnqueueRejected(r) PROVE WakesTypeOK'
  BY <1>13 DEF EnqueueRejected, Goto
<1>14. ASSUME NEW r \in Replica, PersistSubmitted(r) PROVE WakesTypeOK'
  BY <1>14 DEF PersistSubmitted, Persist, Goto
<1>15. ASSUME NEW r \in Replica, PublishCommand(r) PROVE WakesTypeOK'
  BY <1>15 DEF PublishCommand, Deliver, Goto
<1>16. ASSUME NEW r \in Replica, MarkFired(r) PROVE WakesTypeOK'
  BY <1>16 DEF MarkFired, Overwrite, Done, Goto
<1>17. ASSUME NEW r \in Replica, MarkFailed(r) PROVE WakesTypeOK'
  BY <1>17 DEF MarkFailed, Overwrite, Goto
<1>18. ASSUME NEW r \in Replica, Ring(r) PROVE WakesTypeOK'
  BY <1>18 DEF Ring, Persist, Done, Goto
<1>19. ASSUME NEW r \in Replica, LedgerReadFails(r) PROVE WakesTypeOK'
  BY <1>19 DEF LedgerReadFails, WakeFault, Goto
<1>20. ASSUME NEW r \in Replica, EnqueueFails(r) PROVE WakesTypeOK'
  <2>1. sent' = sent \/ sent' = [sent EXCEPT ![held[r]] = 1]
    BY <1>20 DEF EnqueueFails, Deliver
  <2>2. sent' \in [Generation -> Nat]
    <3>1. CASE sent' = sent
      BY <3>1
    <3>2. CASE sent' = [sent EXCEPT ![held[r]] = 1]
      BY <3>2
    <3> QED
      BY <2>1, <3>1, <3>2
  <2>3. UNCHANGED <<wakeRow, ledger, session, busy, held>> /\ wakeFaults' \in 0..MaxWakeFaults
    BY <1>20 DEF EnqueueFails, WakeFault
  <2>4. pc' \in [Replica -> Control]
    BY <1>20 DEF EnqueueFails, Goto
  <2> QED
    BY <2>2, <2>3, <2>4
<1>21. ASSUME NEW r \in Replica, Abandon(r) PROVE WakesTypeOK'
  BY <1>21 DEF Abandon, WakeFault, Done, Goto
<1> QED
  BY <1>1, <1>2, <1>3, <1>4, <1>5, <1>6, <1>7, <1>8, <1>9, <1>10, <1>11, <1>12, <1>13, <1>14,
     <1>15, <1>16, <1>17, <1>18, <1>19, <1>20, <1>21
  DEF WakesNext, Runner, Scan, FireStep

\* Every step keeps the invariant about turns.
LEMMA TurnStep == ASSUME WakesTypeOK, TurnInv, WakesNext PROVE TurnInv'
<1> USE DEF WakesTypeOK, Generation, Pending, Decided, Control, wakeRow, TurnInv, OnePromptPerGeneration,
            RearmAfterTurn, FireInv, Exists, IsLatest
<1>1. ASSUME NEW hasId \in BOOLEAN, RegisterFirst(hasId) PROVE TurnInv'
  BY <1>1 DEF RegisterFirst, Arm
<1>2. CASE RegisterRefresh
  BY <1>2 DEF RegisterRefresh
<1>3. CASE RegisterRearm
  BY <1>3 DEF RegisterRearm, Arm
<1>4. CASE CancelPending
  BY <1>4 DEF CancelPending
<1>5. CASE SessionChanges
  BY <1>5 DEF SessionChanges
<1>6. CASE ActivityChanges
  BY <1>6 DEF ActivityChanges
<1>7. ASSUME NEW g \in Generation, LeaseExpires(g) PROVE TurnInv'
  BY <1>7 DEF LeaseExpires
<1>8. ASSUME NEW r \in Replica, NEW g \in Generation, ClaimDue(r, g) PROVE TurnInv'
  BY <1>8 DEF ClaimDue, Goto, Ladder, Unheld
<1>9. ASSUME NEW r \in Replica, NEW g \in Generation, FailExceeded(r, g) PROVE TurnInv'
  BY <1>9 DEF FailExceeded, Goto, Overwrite, Unheld
<1>10. ASSUME NEW r \in Replica, ReleaseRetainingAttempt(r) PROVE TurnInv'
  BY <1>10 DEF ReleaseRetainingAttempt, Overwrite, Done, Goto
<1>11. ASSUME NEW r \in Replica, Release(r) PROVE TurnInv'
  BY <1>11 DEF Release, Overwrite, Done, Goto
<1>12. ASSUME NEW r \in Replica, LedgerGuard(r) PROVE TurnInv'
  BY <1>12 DEF LedgerGuard, Goto
<1>13. ASSUME NEW r \in Replica, EnqueueRejected(r) PROVE TurnInv'
  BY <1>13 DEF EnqueueRejected, Goto
<1>14. ASSUME NEW r \in Replica, PersistSubmitted(r) PROVE TurnInv'
  BY <1>14 DEF PersistSubmitted, Persist, Goto
<1>15. ASSUME NEW r \in Replica, PublishCommand(r) PROVE TurnInv'
  BY <1>15 DEF PublishCommand, Deliver, Goto
<1>16. ASSUME NEW r \in Replica, MarkFired(r) PROVE TurnInv'
  BY <1>16 DEF MarkFired, Overwrite, Done, Goto
<1>17. ASSUME NEW r \in Replica, MarkFailed(r) PROVE TurnInv'
  BY <1>17 DEF MarkFailed, Overwrite, Goto
<1>18. ASSUME NEW r \in Replica, Ring(r) PROVE TurnInv'
  BY <1>18 DEF Ring, Persist, Done, Goto
<1>19. ASSUME NEW r \in Replica, LedgerReadFails(r) PROVE TurnInv'
  BY <1>19 DEF LedgerReadFails, WakeFault, Goto
<1>20. ASSUME NEW r \in Replica, EnqueueFails(r) PROVE TurnInv'
  <2>1. sent' = sent \/ (sent' = [sent EXCEPT ![held[r]] = 1] /\ pc[r] = "publish")
    BY <1>20 DEF EnqueueFails, Deliver
  <2>2. OnePromptPerGeneration'
    <3>1. ledger' = ledger
      BY <1>20 DEF EnqueueFails
    <3>2. CASE sent' = sent
      BY <3>1, <3>2
    <3>3. CASE sent' = [sent EXCEPT ![held[r]] = 1] /\ pc[r] = "publish"
      BY <3>1, <3>3
    <3> QED
      BY <2>1, <3>2, <3>3
  <2>3. RearmAfterTurn' /\ FireInv'
    BY <1>20 DEF EnqueueFails, Goto
  <2> QED
    BY <2>2, <2>3
<1>21. ASSUME NEW r \in Replica, Abandon(r) PROVE TurnInv'
  BY <1>21 DEF Abandon, WakeFault, Done, Goto
<1> QED
  BY <1>1, <1>2, <1>3, <1>4, <1>5, <1>6, <1>7, <1>8, <1>9, <1>10, <1>11, <1>12, <1>13, <1>14,
     <1>15, <1>16, <1>17, <1>18, <1>19, <1>20, <1>21
  DEF WakesNext, Runner, Scan, FireStep

\* Every step keeps the refunds backed: a claim counts an attempt before it can be
\* deferred, and only the deferred claim itself takes the attempt back.
LEMMA RefundStep == ASSUME WakesTypeOK, RefundsAreBacked, WakesNext PROVE RefundsAreBacked'
<1> USE DEF WakesTypeOK, Generation
<1>1. SUFFICES ASSUME NEW g \in Generation PROVE Cardinality(Deferred(g)') <= attempts'[g]
  BY DEF RefundsAreBacked, Deferred
<1>0. /\ IsFiniteSet(Deferred(g)) /\ Cardinality(Deferred(g)) \in Nat
      /\ Cardinality(Deferred(g)) <= attempts[g] /\ attempts[g] \in Nat
  BY FS_Subset, FS_CardinalityType DEF Deferred, RefundsAreBacked
<1>4. ASSUME Deferred(g)' \subseteq Deferred(g), attempts'[g] = attempts[g]
      PROVE  Cardinality(Deferred(g)') <= attempts'[g]
  BY <1>0, <1>4, PartCount
<1>2. ASSUME NEW r \in Replica, NEW h \in Generation, ClaimDue(r, h)
      PROVE  Cardinality(Deferred(g)') <= attempts'[g]
  <2>1. CASE g = h
    <3>1. Deferred(g)' \subseteq Deferred(g) \union {r} /\ attempts'[g] = attempts[g] + 1
      BY <1>2, <2>1 DEF ClaimDue, Goto, Deferred
    <3> QED
      <4>1. Cardinality(Deferred(g)') <= attempts[g] + 1
        <5> HIDE DEF WakesTypeOK, Generation
        <5> QED
          BY <1>0, <3>1, PartCountOneMore
      <4> QED
        BY <3>1, <4>1
  <2>2. CASE g # h
    <3>1. Deferred(g)' \subseteq Deferred(g) /\ attempts'[g] = attempts[g]
      BY <1>2, <2>2 DEF ClaimDue, Goto, Deferred
    <3> QED
      BY <1>4, <3>1
  <2> QED
    BY <2>1, <2>2
<1>3. ASSUME NEW r \in Replica, Release(r) PROVE Cardinality(Deferred(g)') <= attempts'[g]
  <2>1. CASE g = held[r]
    <3>1. r \in Deferred(g) /\ Deferred(g)' = Deferred(g) \ {r}
      BY <1>3, <2>1 DEF Release, Done, Goto, Deferred
    <3>2. Cardinality(Deferred(g)') = Cardinality(Deferred(g)) - 1
      BY <1>0, <3>1, FS_RemoveElement
    <3>3. attempts'[g] = IF attempts[g] = 0 THEN 0 ELSE attempts[g] - 1
      BY <1>3, <2>1 DEF Release
    <3>4. Cardinality(Deferred(g)) # 0
      BY <1>0, <3>1, FS_EmptySet
    <3> QED
      BY <1>0, <3>2, <3>3, <3>4
  <2>2. CASE g # held[r]
    <3>1. Deferred(g)' \subseteq Deferred(g) /\ attempts'[g] = attempts[g]
      BY <1>3, <2>2 DEF Release, Done, Goto, Deferred
    <3> QED
      BY <1>4, <3>1
  <2> QED
    BY <2>1, <2>2
<1>5. CASE Runner \/ SessionChanges \/ ActivityChanges \/ \E h \in Generation : LeaseExpires(h)
  BY <1>4, <1>5 DEF Runner, RegisterFirst, RegisterRefresh, RegisterRearm, CancelPending, Arm,
     SessionChanges, ActivityChanges, LeaseExpires, wakeRow, Deferred
<1>6. ASSUME NEW r \in Replica, NEW h \in Generation, FailExceeded(r, h)
      PROVE  Cardinality(Deferred(g)') <= attempts'[g]
  BY <1>4, <1>6 DEF FailExceeded, Goto, Deferred
<1>7. ASSUME NEW r \in Replica,
             ReleaseRetainingAttempt(r) \/ MarkFired(r) \/ Ring(r) \/ Abandon(r)
      PROVE  Cardinality(Deferred(g)') <= attempts'[g]
  BY <1>4, <1>7 DEF ReleaseRetainingAttempt, MarkFired, Ring, Abandon, Done, Goto, wakeRow, Deferred
<1>8. ASSUME NEW r \in Replica,
             \/ LedgerGuard(r) \/ EnqueueRejected(r) \/ PersistSubmitted(r) \/ PublishCommand(r)
             \/ MarkFailed(r) \/ LedgerReadFails(r) \/ EnqueueFails(r)
      PROVE  Cardinality(Deferred(g)') <= attempts'[g]
  BY <1>4, <1>8 DEF LedgerGuard, EnqueueRejected, PersistSubmitted, PublishCommand, MarkFailed,
     LedgerReadFails, EnqueueFails, Goto, wakeRow, Deferred
<1> QED
  BY <1>2, <1>3, <1>5, <1>6, <1>7, <1>8 DEF WakesNext, Scan, FireStep

\* Each generation of a task's wakes has one prompt, is armed only after the one before
\* it had a turn, and gives back only attempts that were counted, for any replicas,
\* generations and cap (Register, fireBackgroundTaskWake and Release).
THEOREM WakesAreSafe == WakesSpec => []WakesSafe
<1> DEFINE IInv == WakesTypeOK /\ TurnInv /\ RefundsAreBacked
<1>1. IInv /\ [WakesNext]_wakeVars => IInv'
  <2> SUFFICES ASSUME IInv, [WakesNext]_wakeVars PROVE IInv'
    OBVIOUS
  <2>1. CASE WakesNext
    BY <2>1, TaskWakeTypeStep, TurnStep, RefundStep
  <2>2. CASE UNCHANGED wakeVars
    BY <2>2 DEF wakeVars, WakesTypeOK, TurnInv, OnePromptPerGeneration, RearmAfterTurn, FireInv, Exists,
                RefundsAreBacked
  <2> QED
    BY <2>1, <2>2
<1>2. IInv => WakesSafe
  BY DEF TurnInv, WakesSafe
<1> QED
  BY TaskWakeInit, <1>1, <1>2, PTL DEF WakesSpec
HIDE TaskWakeAssumption DEF TaskWakeAssumption

-----------------------------------------------------------------------------
(* Orchestration                                                           *)

\* The states of a pass.
Passes ==
  [pc : {"idle", "forward", "load", "drive", "dispatch", "spawn", "attach", "settle", "write"},
   i : 0..Len(Order), cur : Row, snap : [Phases -> Row], new : 0..MaxSpokes,
   to : RunState \cup {"none"}]

\* Every phase p depends on has a merged pull request.
DepsMerged(p) == \A d \in Deps[p] : MergedPhase(d)
\* Every phase of the plan has one.
AllMerged == \A p \in Phases : MergedPhase(p)
\* Session n was created for phase p.
IsSpoke(n, p) == n \in DOMAIN spawned /\ spawned[n] = p

\* What a row says has happened: success is a merged pull request, a phase that
\* is no longer pending has its dependencies merged, and its spoke and its pull
\* request are those of a session created for it.
RowOK(p, row) ==
  /\ Success(row.status) => MergedPhase(p)
  /\ row.status # "pending" => DepsMerged(p)
  /\ row.spoke # 0 => IsSpoke(row.spoke, p)
  /\ row.pr # 0 => IsSpoke(row.pr, p)
\* So it is with every row of a table: the phases, or the snapshot of a pass.
TableOK(t) == \A p \in Phases : RowOK(p, t[p])

\* A pass holds a table that was right when it was read, works on a phase whose
\* dependencies merged, attaches a session created for that phase, and writes a
\* finished state only when everything merged.
PassOK(q) ==
  /\ TableOK(q.snap)
  /\ q.pc \in {"drive", "dispatch", "spawn", "attach"} =>
       q.i \in DOMAIN Order /\ DepsMerged(Order[q.i])
  /\ q.pc = "attach" => IsSpoke(q.new, Order[q.i])
  /\ q.pc = "write" => q.to # "none" /\ (q.to \in {"awaiting_review", "done"} => AllMerged)

\* The requests of a spoke.
Requests == [kind : {"none", "link", "block"}, phase : Phases \cup {"none"}]
\* A request that a spoke has under way names the phase the spoke was created for.
ReqOK(n) == req[n].kind # "none" => IsSpoke(n, req[n].phase)

\* The invariant.  Nothing in it says that a row or a snapshot is current: what
\* they say stays true because merges and sessions are never taken back.
RunInv ==
  /\ TypeOK /\ SpawnedAfterDeps /\ FinishedMeansMerged
  /\ worker \in [Workers -> Passes] /\ \A w \in Workers : PassOK(worker[w])
  /\ TableOK(phase)
  /\ \A n \in Spokes : ReqOK(n)
  /\ \A n \in hooks : pr[n] = "merged"

USE PlanAssumption DEF PlanAssumption

\* A set of naturals with an element has a least one, the CHOOSE of Onward.
LEMMA Least ==
  ASSUME NEW T, T \subseteq Nat, T # {}
  PROVE  \E x \in T : \A y \in T : x <= y
<1> DEFINE R == OpToRel(<, Nat)
<1>1. IsWellFoundedOn(R, Nat)
  BY NatLessThanWellFounded
<1>2. \A x, y \in Nat : x < y => <<x, y>> \in R
  BY DEF OpToRel
<1> HIDE DEF R
<1>3. PICK x \in T : \A y \in T : ~(<<y, x>> \in R)
  BY <1>1, WFMin
<1>4. ASSUME NEW y \in T PROVE ~(y < x)
  <2>1. y \in Nat /\ x \in Nat
    OBVIOUS
  <2> QED
    BY <1>2, <1>3, <2>1, Zenon
<1>5. \A y \in T : x <= y
  <2>1. \A y \in T : y \in Nat /\ x \in Nat
    OBVIOUS
  <2> QED
    BY <1>4, <2>1
<1> QED
  BY <1>5

\* Merges and spokes stay.
Grows ==
  /\ spawned' = spawned \/ \E p \in Phases : spawned' = Append(spawned, p)
  /\ \A n \in Spokes : pr[n] = "merged" => pr'[n] = "merged"

\* The plan is a sequence of phases.
LEMMA PlanTyped ==
  /\ Len(Order) \in Nat /\ DOMAIN Order = 1..Len(Order)
  /\ \A i \in DOMAIN Order : Order[i] \in Phases /\ i \in 0..Len(Order)
  BY LenProperties, ElementOfSeq

\* The spokes are numbered from 1, each for a phase.
LEMMA SpawnedTyped ==
  ASSUME TypeOK
  PROVE  /\ Len(spawned) \in Nat /\ DOMAIN spawned = 1..Len(spawned) /\ DOMAIN spawned \subseteq Spokes
         /\ \A n \in DOMAIN spawned : spawned[n] \in Phases
<1>1. spawned \in Seq(Phases) /\ Len(spawned) <= MaxSpokes
  BY DEF TypeOK
<1>2. Len(spawned) \in Nat /\ DOMAIN spawned = 1..Len(spawned)
  BY <1>1, LenProperties
<1> QED
  BY <1>1, <1>2, ElementOfSeq DEF Spokes

\* What has merged, and who is a spoke, stays so.
LEMMA Monotone ==
  ASSUME TypeOK, Grows
  PROVE  /\ \A n, p : IsSpoke(n, p) => IsSpoke(n, p)'
         /\ \A p : MergedPhase(p) => MergedPhase(p)'
         /\ \A p : DepsMerged(p) => DepsMerged(p)'
<1>1. \A n \in DOMAIN spawned : n \in DOMAIN spawned' /\ spawned'[n] = spawned[n]
  <2>1. CASE spawned' = spawned
    BY <2>1
  <2>2. CASE \E p \in Phases : spawned' = Append(spawned, p)
    <3>1. PICK p \in Phases : spawned' = Append(spawned, p)
      BY <2>2
    <3>2. spawned \in Seq(Phases)
      BY DEF TypeOK
    <3>3. /\ spawned' \in Seq(Phases) /\ Len(spawned') = Len(spawned) + 1
          /\ \A n \in 1..Len(spawned) : spawned'[n] = spawned[n]
      BY <3>1, <3>2, AppendProperties
    <3>4. DOMAIN spawned' = 1..(Len(spawned) + 1)
      BY <3>3, LenProperties
    <3> QED
      BY <3>3, <3>4, SpawnedTyped
  <2> QED
    BY <2>1, <2>2 DEF Grows
<1>2. \A n, p : IsSpoke(n, p) => IsSpoke(n, p)'
  BY <1>1 DEF IsSpoke
<1>3. ASSUME NEW p, MergedPhase(p) PROVE MergedPhase(p)'
  <2>1. PICK n \in DOMAIN spawned : spawned[n] = p /\ pr[n] = "merged"
    BY <1>3 DEF MergedPhase
  <2>2. n \in Spokes
    BY <2>1, SpawnedTyped
  <2> QED
    BY <1>1, <2>1, <2>2 DEF MergedPhase, Grows
<1>4. \A p : DepsMerged(p) => DepsMerged(p)'
  BY <1>3 DEF DepsMerged
<1> QED
  BY <1>2, <1>3, <1>4

\* So does what a row says,
LEMMA RowKept == ASSUME TypeOK, Grows, NEW p, NEW row, RowOK(p, row) PROVE RowOK(p, row)'
  BY Monotone DEF RowOK

\* and what a pass holds, however old its snapshot is.
LEMMA PassKept == ASSUME TypeOK, Grows, NEW q \in Passes, PassOK(q) PROVE PassOK(q)'
<1>1. TableOK(q.snap)'
  BY RowKept DEF PassOK, TableOK
<1> QED
  BY <1>1, Monotone DEF PassOK, AllMerged

\* The phases are rows.
LEMMA RowTyped ==
  ASSUME TypeOK
  PROVE  phase \in [Phases -> Row]
  BY DEF TypeOK

\* A pass that is idle, or is about to read, holds nothing that could be wrong.
LEMMA IdleOK ==
  /\ Idle \in Passes /\ PassOK(Idle)
  /\ \A c \in {"idle", "forward", "load", "settle"} :
       [Idle EXCEPT !.pc = c] \in Passes /\ PassOK([Idle EXCEPT !.pc = c])
<1> DEFINE r0 == [status |-> "pending", spoke |-> 0, pr |-> 0]
           t0 == [p \in Phases |-> r0]
<1>1. r0 \in Row /\ t0 \in [Phases -> Row]
  BY DEF Row, Status
<1>2. \A p \in Phases : RowOK(p, r0)
  BY DEF RowOK, Success
<1>3. TableOK(t0)
  BY <1>2 DEF TableOK
<1>4. Idle = [pc |-> "idle", i |-> 0, cur |-> r0, snap |-> t0, new |-> 0, to |-> "none"]
  BY DEF Idle
<1> HIDE DEF r0, t0
<1>5. Idle \in Passes
  BY <1>1, <1>4, PlanTyped DEF Passes
<1>6. PassOK(Idle)
  BY <1>3, <1>4 DEF PassOK
<1>7. ASSUME NEW c \in {"idle", "forward", "load", "settle"}
      PROVE  [Idle EXCEPT !.pc = c] \in Passes /\ PassOK([Idle EXCEPT !.pc = c])
  <2> DEFINE q == [Idle EXCEPT !.pc = c]
  <2>1. q \in Passes /\ q.pc = c /\ q.snap = Idle.snap
    BY <1>5 DEF Passes
  <2>2. Idle.snap = t0
    BY <1>4
  <2> HIDE DEF q
  <2>3. PassOK(q)
    BY <1>3, <2>1, <2>2 DEF PassOK
  <2> QED
    BY <2>1, <2>3 DEF q
<1> QED
  BY <1>5, <1>6, <1>7

\* The next phase with something to do has its dependencies merged: the snapshot
\* shows it past pending, or shows them succeeded.
LEMMA OnwardOK ==
  ASSUME NEW w, NEW i \in 0..Len(Order), NEW snap \in [Phases -> Row], TableOK(snap)
  PROVE  Onward(w, i, snap) \in Passes /\ PassOK(Onward(w, i, snap))
<1> DEFINE later == {j \in DOMAIN Order : j > i /\ Todo(Order[j], snap)}
           least == CHOOSE j \in later : \A k \in later : j <= k
           go == [Idle EXCEPT !.pc = "drive", !.i = least, !.cur = snap[Order[least]], !.snap = snap]
<1>1. CASE later = {}
  <2>1. Onward(w, i, snap) = [Idle EXCEPT !.pc = "settle"]
    BY <1>1 DEF Onward
  <2> QED
    BY <2>1, IdleOK
<1>2. CASE later # {}
  <2>1. Onward(w, i, snap) = go
    BY <1>2 DEF Onward
  <2>2. later \subseteq Nat
    BY PlanTyped
  <2>3. least \in later
    <3> HIDE DEF later
    <3>1. \E x \in later : \A y \in later : x <= y
      BY <1>2, <2>2, Least
    <3> QED
      BY <3>1
  <2>4. least \in DOMAIN Order /\ Todo(Order[least], snap)
    BY <2>3
  <2> HIDE DEF later, least
  <2>5. Order[least] \in Phases /\ least \in 0..Len(Order)
    BY <2>4, PlanTyped
  <2>6. RowOK(Order[least], snap[Order[least]]) /\ snap[Order[least]] \in Row
    BY <2>5 DEF TableOK
  <2>7. DepsMerged(Order[least])
    <3>1. CASE snap[Order[least]].status # "pending"
      BY <2>6, <3>1 DEF RowOK
    <3>2. CASE snap[Order[least]].status = "pending"
      <4>1. PhaseDepsSatisfied(Order[least], snap)
        BY <2>4, <3>2 DEF Todo
      <4>2. \A d \in Deps[Order[least]] : d \in Phases /\ RowOK(d, snap[d])
        BY <2>5 DEF TableOK
      <4> QED
        BY <4>1, <4>2 DEF PhaseDepsSatisfied, DepsMerged, RowOK
    <3> QED
      BY <3>1, <3>2
  <2>8. Idle \in Passes
    BY IdleOK
  <2>9. /\ go.pc = "drive" /\ go.i = least /\ go.snap = snap /\ go \in Passes
    BY <2>5, <2>6, <2>8 DEF Passes
  <2> HIDE DEF go
  <2>10. PassOK(go)
    BY <2>4, <2>7, <2>9 DEF PassOK
  <2> QED
    BY <2>1, <2>9, <2>10
<1> QED
  BY <1>1, <1>2

\* A step of a pass that creates no spoke: it writes at most one row, and both
\* the row and what the pass goes on with are right.
Good(w) ==
  /\ worker' = worker \/ \E q \in Passes : PassOK(q) /\ worker' = [worker EXCEPT ![w] = q]
  /\ \/ phase' = phase
     \/ \E p \in Phases, row \in Row : RowOK(p, row) /\ phase' = [phase EXCEPT ![p] = row]
  /\ run' \in RunState /\ (run' \in {"awaiting_review", "done"} => AllMerged)
  /\ UNCHANGED <<spawned, pr, regs, req>>
  /\ hooks' \subseteq hooks /\ faults' \in 0..MaxFaults

\* Such a step keeps the invariant, of the other passes too.
LEMMA GoodStep == ASSUME RunInv, NEW w \in Workers, Good(w) PROVE RunInv'
<1> USE DEF RunInv
<1>1. Grows
  BY DEF Grows, Good
<1>2. worker' \in [Workers -> Passes] /\ \A v \in Workers : PassOK(worker'[v])
  <2>1. CASE worker' = worker
    BY <2>1
  <2>2. CASE \E q \in Passes : PassOK(q) /\ worker' = [worker EXCEPT ![w] = q]
    BY <2>2
  <2> QED
    BY <2>1, <2>2 DEF Good
<1>3. \A v \in Workers : PassOK(worker[v])'
  <2>1. ASSUME NEW v \in Workers PROVE PassOK(worker[v])'
    <3>1. PICK q \in Passes : q = worker'[v] /\ PassOK(q)
      BY <1>2
    <3>2. PassOK(q)'
      BY <1>1, <3>1, PassKept
    <3> QED
      BY <3>1, <3>2 DEF PassOK
  <2> QED
    BY <2>1
<1>4. phase' \in [Phases -> Row] /\ \A p \in Phases : RowOK(p, phase'[p])
  <2>1. CASE phase' = phase
    BY <2>1, RowTyped DEF TableOK
  <2>2. CASE \E p \in Phases, row \in Row : RowOK(p, row) /\ phase' = [phase EXCEPT ![p] = row]
    BY <2>2, RowTyped DEF TableOK
  <2> QED
    BY <2>1, <2>2 DEF Good
<1>5. TableOK(phase)'
  <2>1. ASSUME NEW p \in Phases PROVE RowOK(p, phase[p])'
    <3>1. PICK row : row = phase'[p] /\ RowOK(p, row)
      BY <1>4
    <3>2. RowOK(p, row)'
      BY <1>1, <3>1, RowKept
    <3> QED
      BY <3>1, <3>2 DEF RowOK
  <2> QED
    BY <2>1 DEF TableOK
<1>6. TypeOK'
  BY <1>2, <1>4 DEF TypeOK, Good, Passes
<1>7. SpawnedAfterDeps'
  BY DEF SpawnedAfterDeps, MergedPhase, Good
<1>8. FinishedMeansMerged'
  BY DEF FinishedMeansMerged, MergedPhase, Good, AllMerged
<1>9. (\A n \in Spokes : ReqOK(n))' /\ (\A n \in hooks : pr[n] = "merged")'
  BY DEF ReqOK, IsSpoke, Good
<1> QED
  BY <1>2, <1>3, <1>5, <1>6, <1>7, <1>8, <1>9

\* What the invariant says of the pass of one worker.
LEMMA PassHere ==
  ASSUME RunInv, NEW w \in Workers
  PROVE  /\ worker[w] \in Passes /\ PassOK(worker[w])
         /\ worker[w].i \in 0..Len(Order) /\ worker[w].snap \in [Phases -> Row] /\ TableOK(worker[w].snap)
         /\ Past(w) \in Passes /\ PassOK(Past(w))
<1>1. worker[w] \in Passes /\ PassOK(worker[w])
  BY DEF RunInv
<1>2. worker[w].i \in 0..Len(Order) /\ worker[w].snap \in [Phases -> Row] /\ TableOK(worker[w].snap)
  BY <1>1 DEF Passes, PassOK
<1>3. Past(w) \in Passes /\ PassOK(Past(w))
  BY <1>2, OnwardOK DEF Past
<1> QED
  BY <1>1, <1>2, <1>3

\* A pass at a phase is at one of the plan, with its dependencies merged.
LEMMA AtPhase ==
  ASSUME RunInv, NEW w \in Workers, worker[w].pc \in {"drive", "dispatch", "spawn", "attach"}
  PROVE  /\ worker[w].i \in DOMAIN Order /\ At(w) \in Phases /\ DepsMerged(At(w))
         /\ phase[At(w)] \in Row /\ RowOK(At(w), phase[At(w)])
<1>1. worker[w].i \in DOMAIN Order /\ DepsMerged(At(w))
  BY PassHere DEF PassOK, At
<1>2. At(w) \in Phases
  BY <1>1, PlanTyped DEF At
<1> QED
  BY <1>1, <1>2 DEF RunInv, TypeOK, TableOK

\* A pass goes on with its state changed in pc and cur only.
LEMMA GoesOn ==
  ASSUME RunInv, NEW w \in Workers, worker[w].pc \in {"drive", "dispatch"},
         NEW row \in Row
  PROVE  /\ [worker[w] EXCEPT !.pc = "dispatch", !.cur = row] \in Passes
         /\ PassOK([worker[w] EXCEPT !.pc = "dispatch", !.cur = row])
         /\ [worker[w] EXCEPT !.pc = "spawn"] \in Passes
         /\ PassOK([worker[w] EXCEPT !.pc = "spawn"])
<1> DEFINE o == worker[w]
           q == [o EXCEPT !.pc = "dispatch", !.cur = row]
           r == [o EXCEPT !.pc = "spawn"]
<1>1. o \in Passes /\ PassOK(o) /\ o.pc \in {"drive", "dispatch"}
  BY PassHere
<1> HIDE DEF o
<1>2. /\ q \in Passes /\ q.pc = "dispatch" /\ q.i = o.i /\ q.snap = o.snap
      /\ r \in Passes /\ r.pc = "spawn" /\ r.i = o.i /\ r.snap = o.snap
  BY <1>1 DEF Passes
<1> HIDE DEF q, r
<1>3. PassOK(q) /\ PassOK(r)
  BY <1>1, <1>2 DEF PassOK
<1> QED
  BY <1>2, <1>3 DEF q, r, o

\* A row of a phase whose dependencies merged may go to any status but success.
LEMMA StatusOK ==
  ASSUME NEW p, NEW row \in Row, RowOK(p, row), DepsMerged(p),
         NEW st \in {"ready", "running", "blocked", "pr_open"}
  PROVE  [row EXCEPT !.status = st] \in Row /\ RowOK(p, [row EXCEPT !.status = st])
<1> DEFINE q == [row EXCEPT !.status = st]
<1>1. q \in Row /\ q.status = st /\ q.spoke = row.spoke /\ q.pr = row.pr
  BY DEF Row, Status
<1> HIDE DEF q
<1>2. RowOK(p, q)
  BY <1>1 DEF RowOK, Success
<1> QED
  BY <1>1, <1>2 DEF q

\* The run and the faults, where a step leaves them alone.
LEMMA Frame ==
  ASSUME RunInv
  PROVE  /\ run \in RunState /\ (run \in {"awaiting_review", "done"} => AllMerged)
         /\ faults \in 0..MaxFaults /\ (Fault => faults' \in 0..MaxFaults)
  BY DEF RunInv, TypeOK, FinishedMeansMerged, AllMerged, Fault

\* The snapshot is the table, which is right now.
LEMMA LoadGood == ASSUME RunInv, NEW w \in Workers, Load(w) PROVE Good(w)
<1>1. TableOK(phase) /\ phase \in [Phases -> Row] /\ 0 \in 0..Len(Order)
  BY PlanTyped DEF RunInv, TypeOK
<1>2. \E q \in Passes : PassOK(q) /\ worker' = [worker EXCEPT ![w] = q]
  BY <1>1, OnwardOK, IdleOK DEF Load, Go
<1> QED
  BY <1>2, Frame DEF Load, Good, rows, spokeState

\* pending becomes ready only where the pass saw the dependencies succeed.
LEMMA ReadyGood == ASSUME RunInv, NEW w \in Workers, MarkPhaseReady(w) PROVE Good(w)
<1> DEFINE p == At(w)
           old == phase[p]
           row == [old EXCEPT !.status = IF old.status = "pending" THEN "ready" ELSE old.status]
<1>1. worker[w].pc = "drive" /\ phase' = [phase EXCEPT ![p] = row]
  BY DEF MarkPhaseReady
<1>2. p \in Phases /\ DepsMerged(p) /\ old \in Row /\ RowOK(p, old)
  BY <1>1, AtPhase
<1>3. row \in Row /\ RowOK(p, row)
  <2> HIDE DEF old, p
  <2>1. CASE old.status = "pending"
    BY <1>2, <2>1, StatusOK
  <2>2. CASE old.status # "pending"
    <3>1. row = old
      BY <1>2, <2>2 DEF Row
    <3> QED
      BY <1>2, <3>1
  <2> QED
    BY <2>1, <2>2
<1>4. \/ worker' = [worker EXCEPT ![w] = [worker[w] EXCEPT !.pc = "dispatch", !.cur = row]]
      \/ worker' = [worker EXCEPT ![w] = Past(w)]
  BY DEF MarkPhaseReady, Go
<1> HIDE DEF row, p, old
<1>5. \E q \in Passes : PassOK(q) /\ worker' = [worker EXCEPT ![w] = q]
  BY <1>1, <1>3, <1>4, GoesOn, PassHere
<1> QED
  BY <1>1, <1>2, <1>3, <1>5, Frame DEF MarkPhaseReady, Good, rows, spokeState

\* A claim without a spoke goes back to ready.
LEMMA RequeueGood == ASSUME RunInv, NEW w \in Workers, RequeuePhaseForRespawn(w) PROVE Good(w)
<1> DEFINE p == At(w)
           row == [phase[p] EXCEPT !.status = "ready"]
<1>1. worker[w].pc \in {"drive", "dispatch"}
  BY DEF RequeuePhaseForRespawn
<1>2. p \in Phases /\ row \in Row /\ RowOK(p, row) /\ phase \in [Phases -> Row]
  BY <1>1, AtPhase, StatusOK DEF RunInv, TypeOK
<1>3. \/ /\ phase' = [phase EXCEPT ![p] = row]
         /\ worker' = [worker EXCEPT ![w] = [worker[w] EXCEPT !.pc = "dispatch", !.cur = phase'[p]]]
      \/ phase' = phase /\ worker' = [worker EXCEPT ![w] = Past(w)]
  BY DEF RequeuePhaseForRespawn, Go
<1> HIDE DEF row, p
<1>4. \E q \in Passes : PassOK(q) /\ worker' = [worker EXCEPT ![w] = q]
  <2>1. CASE /\ phase' = [phase EXCEPT ![p] = row]
             /\ worker' = [worker EXCEPT ![w] = [worker[w] EXCEPT !.pc = "dispatch", !.cur = phase'[p]]]
    <3>1. phase'[p] = row
      BY <1>2, <2>1
    <3> QED
      BY <1>1, <1>2, <2>1, <3>1, GoesOn
  <2>2. CASE worker' = [worker EXCEPT ![w] = Past(w)]
    BY <2>2, PassHere
  <2> QED
    BY <1>3, <2>1, <2>2
<1>5. phase' = phase \/ \E x \in Phases, y \in Row : RowOK(x, y) /\ phase' = [phase EXCEPT ![x] = y]
  BY <1>2, <1>3
<1> QED
  BY <1>4, <1>5, Frame DEF RequeuePhaseForRespawn, Good, rows, spokeState

\* ready becomes running.
LEMMA ClaimGood == ASSUME RunInv, NEW w \in Workers, ClaimPhaseForSpawn(w) PROVE Good(w)
<1> DEFINE p == At(w)
           row == [phase[p] EXCEPT !.status = "running"]
<1>1. worker[w].pc \in {"drive", "dispatch"}
  BY DEF ClaimPhaseForSpawn
<1>2. p \in Phases /\ row \in Row /\ RowOK(p, row)
  BY <1>1, AtPhase, StatusOK
<1>3. \/ /\ phase' = [phase EXCEPT ![p] = row]
         /\ worker' = [worker EXCEPT ![w] = [worker[w] EXCEPT !.pc = "spawn"]]
      \/ phase' = phase /\ worker' = [worker EXCEPT ![w] = Past(w)]
  BY DEF ClaimPhaseForSpawn, Go
<1> HIDE DEF row, p
<1>4. \E q \in Passes : PassOK(q) /\ worker' = [worker EXCEPT ![w] = q]
  BY <1>1, <1>2, <1>3, GoesOn, PassHere
<1>5. phase' = phase \/ \E x \in Phases, y \in Row : RowOK(x, y) /\ phase' = [phase EXCEPT ![x] = y]
  BY <1>2, <1>3
<1> QED
  BY <1>4, <1>5, Frame DEF ClaimPhaseForSpawn, Good, rows, spokeState

\* A claim that is rolled back is ready again.
LEMMA SpawnFailsGood == ASSUME RunInv, NEW w \in Workers, SpawnFails(w) PROVE Good(w)
<1> DEFINE p == At(w)
           row == [phase[p] EXCEPT !.status = "ready"]
<1>1. worker[w].pc = "spawn" /\ Fault
  BY DEF SpawnFails
<1>2. p \in Phases /\ row \in Row /\ RowOK(p, row)
  BY <1>1, AtPhase, StatusOK
<1>3. phase' = [phase EXCEPT ![p] = row] \/ phase' = phase
  BY DEF SpawnFails
<1>4. worker' = [worker EXCEPT ![w] = Past(w)]
  BY DEF SpawnFails, Go
<1> HIDE DEF row, p
<1>5. \E q \in Passes : PassOK(q) /\ worker' = [worker EXCEPT ![w] = q]
  BY <1>4, PassHere
<1>6. phase' = phase \/ \E x \in Phases, y \in Row : RowOK(x, y) /\ phase' = [phase EXCEPT ![x] = y]
  BY <1>2, <1>3
<1> QED
  BY <1>1, <1>5, <1>6, Frame DEF SpawnFails, Good, rows, spokeState

\* The attach has no guard, and may take a merged row back to running: what the
\* row says is weaker, and still true.
LEMMA AttachGood ==
  ASSUME RunInv, NEW w \in Workers, AttachPhaseSpoke(w) \/ AttachFails(w)
  PROVE  Good(w)
<1>1. worker[w].pc = "attach" /\ worker' = [worker EXCEPT ![w] = Past(w)]
  BY DEF AttachPhaseSpoke, AttachFails, Go
<1>2. \E q \in Passes : PassOK(q) /\ worker' = [worker EXCEPT ![w] = q]
  BY <1>1, PassHere
<1>3. CASE AttachPhaseSpoke(w)
  <2> DEFINE p == At(w)
             old == phase[p]
             n == worker[w].new
             row == [old EXCEPT !.spoke = n, !.status = "running"]
  <2>1. p \in Phases /\ old \in Row /\ RowOK(p, old) /\ DepsMerged(p)
    BY <1>1, AtPhase
  <2>2. n \in 0..MaxSpokes /\ IsSpoke(n, p)
    BY <1>1, PassHere DEF PassOK, Passes, At
  <2>3. phase' = [phase EXCEPT ![p] = row]
    BY <1>3 DEF AttachPhaseSpoke
  <2> HIDE DEF p, old, n
  <2>4. row \in Row /\ row.spoke = n /\ row.status = "running" /\ row.pr = old.pr
    BY <2>1, <2>2 DEF Row, Status
  <2> HIDE DEF row
  <2>5. RowOK(p, row)
    BY <2>1, <2>2, <2>4 DEF RowOK, Success
  <2> QED
    BY <1>2, <1>3, <2>1, <2>3, <2>4, <2>5, Frame DEF AttachPhaseSpoke, Good, rows, spokeState
<1>4. CASE AttachFails(w)
  BY <1>2, <1>4, Frame DEF AttachFails, Good, rows, spokeState
<1> QED
  BY <1>3, <1>4

\* A finished state is written down for the write only when every row succeeded.
LEMMA SettleGood == ASSUME RunInv, NEW w \in Workers, SettleRead(w) PROVE Good(w)
<1>1. CASE Active /\ Settled # "none"
  <2> DEFINE q == [Idle EXCEPT !.pc = "write", !.to = Settled]
  <2>1. worker' = [worker EXCEPT ![w] = q]
    BY <1>1 DEF SettleRead, Go
  <2>2. Settled \in RunState \cup {"none"}
    BY DEF Settled, RunState
  <2>3. Settled \in {"awaiting_review", "done"} => AllMerged
    BY DEF Settled, RunInv, TableOK, RowOK, AllMerged
  <2>4. Idle \in Passes /\ TableOK(Idle.snap)
    BY IdleOK DEF PassOK
  <2>5. q \in Passes /\ q.pc = "write" /\ q.to = Settled /\ q.snap = Idle.snap
    BY <2>2, <2>4 DEF Passes
  <2> HIDE DEF q
  <2>6. PassOK(q)
    BY <1>1, <2>3, <2>4, <2>5 DEF PassOK
  <2> QED
    BY <2>1, <2>5, <2>6, Frame DEF SettleRead, Good, rows, spokeState
<1>2. CASE ~(Active /\ Settled # "none")
  <2>1. worker' = [worker EXCEPT ![w] = Idle]
    BY <1>2 DEF SettleRead, Go
  <2> QED
    BY <2>1, IdleOK, Frame DEF SettleRead, Good, rows, spokeState
<1> QED
  BY <1>1, <1>2

\* The write has no guard: what was read stays true.
LEMMA StateGood == ASSUME RunInv, NEW w \in Workers, UpdateState(w) PROVE Good(w)
<1>1. worker[w].to \in RunState /\ (worker[w].to \in {"awaiting_review", "done"} => AllMerged)
  BY PassHere DEF UpdateState, PassOK, Passes
<1>2. run' = worker[w].to /\ worker' = [worker EXCEPT ![w] = Idle]
  BY DEF UpdateState, Go
<1> QED
  BY <1>1, <1>2, IdleOK, Frame DEF UpdateState, Good, rows, spokeState

\* A failed merge forward fails the run; a pass that dies leaves nothing.
LEMMA ForwardGood ==
  ASSUME RunInv, NEW w \in Workers, MergeForward(w) \/ WorkerDies(w)
  PROVE  Good(w)
<1>1. worker' = [worker EXCEPT ![w] = Idle] \/ worker' = [worker EXCEPT ![w] = [Idle EXCEPT !.pc = "load"]]
  BY DEF MergeForward, WorkerDies, Go
<1>2. \E q \in Passes : PassOK(q) /\ worker' = [worker EXCEPT ![w] = q]
  BY <1>1, IdleOK
<1>3. run' = run \/ run' = "failed"
  BY DEF MergeForward, WorkerDies, rows
<1>4. faults' \in 0..MaxFaults
  BY Frame DEF MergeForward, WorkerDies
<1>5. run' \in RunState /\ (run' \in {"awaiting_review", "done"} => AllMerged)
  BY <1>3, Frame DEF RunState
<1> QED
  BY <1>2, <1>4, <1>5 DEF MergeForward, WorkerDies, Good, rows, spokeState

\* The row found by its pull request is the phase the merged request's spoke was
\* created for.
LEMMA AdvanceGood ==
  ASSUME RunInv, NEW w \in Workers, NEW n \in Spokes, AdvanceOnMerge(w, n)
  PROVE  Good(w)
<1> DEFINE owner == {p \in Phases : phase[p].pr = n}
           p == CHOOSE p \in owner : TRUE
<1>1. CASE owner = {}
  BY <1>1, Frame DEF AdvanceOnMerge, Good, rows, spokeState
<1>2. CASE owner # {}
  <2>1. p \in owner
    BY <1>2
  <2>2. /\ phase' = [phase EXCEPT ![p].status = "merged"]
        /\ \/ worker' = [worker EXCEPT ![w] = [Idle EXCEPT !.pc = "forward"]]
           \/ worker' = [worker EXCEPT ![w] = [Idle EXCEPT !.pc = "load"]]
    BY <1>2 DEF AdvanceOnMerge, Go
  <2> HIDE DEF p
  <2>3. p \in Phases /\ phase[p].pr = n
    BY <2>1
  <2> HIDE DEF owner
  <2> DEFINE old == phase[p]
             row == [old EXCEPT !.status = "merged"]
  <2>4. old \in Row /\ RowOK(p, old)
    BY <2>3 DEF RunInv, TypeOK, TableOK
  <2>5. IsSpoke(n, p)
    <3>1. n # 0
      BY DEF Spokes
    <3> QED
      BY <2>3, <2>4, <3>1 DEF RowOK
  <2>6. pr[n] = "merged"
    BY DEF AdvanceOnMerge, RunInv
  <2>7. MergedPhase(p) /\ DepsMerged(p)
    BY <2>5, <2>6 DEF IsSpoke, MergedPhase, RunInv, SpawnedAfterDeps, DepsMerged
  <2>8. phase' = [phase EXCEPT ![p] = row]
    BY <2>2
  <2> HIDE DEF old
  <2>9. row \in Row /\ row.status = "merged" /\ row.spoke = old.spoke /\ row.pr = old.pr
    BY <2>4 DEF Row, Status
  <2> HIDE DEF row
  <2>10. RowOK(p, row)
    BY <2>4, <2>7, <2>9 DEF RowOK
  <2>11. \E q \in Passes : PassOK(q) /\ worker' = [worker EXCEPT ![w] = q]
    BY <2>2, IdleOK
  <2>12. hooks' \subseteq hooks /\ UNCHANGED <<run, spawned, pr, regs, req, faults>>
    BY DEF AdvanceOnMerge, spokeState
  <2> QED
    BY <2>3, <2>8, <2>9, <2>10, <2>11, <2>12, Frame DEF Good
<1> QED
  BY <1>1, <1>2

\* A new spoke is of the phase the pass is at, and the next number was nobody's.
LEMMA SpawnKeeps == ASSUME RunInv, NEW w \in Workers, SpawnPhaseSpoke(w) PROVE RunInv'
<1> DEFINE p == At(w)
           n == Len(spawned) + 1
           o == worker[w]
           q == [o EXCEPT !.pc = "attach", !.new = n]
<1>0. TypeOK
  BY DEF RunInv
<1>1. /\ o.pc = "spawn" /\ Len(spawned) < MaxSpokes /\ spawned' = Append(spawned, p)
      /\ worker' = [worker EXCEPT ![w] = q]
      /\ UNCHANGED <<run, phase, pr, regs, req, hooks, faults>>
  BY DEF SpawnPhaseSpoke, Go, rows
<1>2. p \in Phases /\ DepsMerged(p) /\ p = Order[o.i] /\ o.i \in DOMAIN Order
  BY <1>1, AtPhase DEF At
<1>3. o \in Passes /\ PassOK(o)
  BY PassHere
<1> HIDE DEF p, o
<1>4. spawned \in Seq(Phases)
  BY <1>0 DEF TypeOK
<1>5. /\ spawned' \in Seq(Phases) /\ Len(spawned') = n
      /\ \A m \in 1..Len(spawned) : spawned'[m] = spawned[m]
      /\ spawned'[n] = p
  BY <1>1, <1>2, <1>4, AppendProperties
<1>6. DOMAIN spawned' = 1..n /\ n \in 1..n /\ n \in 0..MaxSpokes
  <2>1. DOMAIN spawned' = 1..n
    BY <1>5, LenProperties
  <2> QED
    BY <1>0, <1>1, <2>1, SpawnedTyped
<1>7. Grows
  BY <1>1, <1>2 DEF Grows
<1>8. q \in Passes /\ q.pc = "attach" /\ q.new = n /\ q.i = o.i /\ q.snap = o.snap
  BY <1>3, <1>6 DEF Passes
<1>10. spawned'[n] = p /\ n \in DOMAIN spawned'
  BY <1>5, <1>6
<1>11. (\A v \in Workers : PassOK(worker[v]))' /\ worker' \in [Workers -> Passes]
  <2> HIDE DEF q
  <2>1. worker' \in [Workers -> Passes]
    BY <1>1, <1>8 DEF RunInv
  <2>2. ASSUME NEW v \in Workers PROVE PassOK(worker[v])'
    <3>1. CASE v # w
      <4>1. PICK r \in Passes : r = worker[v] /\ PassOK(r)
        BY DEF RunInv
      <4>2. PassOK(r)'
        BY <1>0, <1>7, <4>1, PassKept
      <4>3. worker'[v] = r
        BY <1>1, <3>1, <4>1 DEF RunInv
      <4> QED
        BY <4>2, <4>3 DEF PassOK
    <3>2. CASE v = w
      <4>1. PICK r \in Passes : r = q
        BY <1>8
      <4>2. TableOK(r.snap)'
        <5>1. \A x \in Phases : RowOK(x, r.snap[x])
          BY <1>3, <1>8, <4>1 DEF PassOK, TableOK
        <5> QED
          BY <1>0, <1>7, <5>1, RowKept DEF TableOK
      <4>3. r.pc = "attach" /\ r.i \in DOMAIN Order /\ Order[r.i] = p /\ r.new = n
        BY <1>2, <1>8, <4>1
      <4>4. DepsMerged(Order[r.i])'
        <5>1. DepsMerged(Order[r.i])
          BY <1>2, <4>3
        <5> QED
          BY <1>0, <1>7, <5>1, Monotone
      <4>5. IsSpoke(r.new, Order[r.i])'
        BY <1>10, <4>3 DEF IsSpoke
      <4>6. PassOK(r)'
        BY <4>2, <4>3, <4>4, <4>5 DEF PassOK
      <4>7. worker'[v] = r
        BY <1>1, <3>2, <4>1 DEF RunInv
      <4> QED
        BY <4>6, <4>7 DEF PassOK
    <3> QED
      BY <3>1, <3>2
  <2> QED
    BY <2>1, <2>2
<1>12. TableOK(phase)'
  <2>1. \A x \in Phases : RowOK(x, phase[x])
    BY DEF RunInv, TableOK
  <2>2. ASSUME NEW x \in Phases PROVE RowOK(x, phase[x])'
    <3>1. PICK row : row = phase[x] /\ RowOK(x, row)
      BY <2>1
    <3>2. RowOK(x, row)'
      BY <1>0, <1>7, <3>1, RowKept
    <3> QED
      BY <1>1, <3>1, <3>2 DEF RowOK
  <2> QED
    BY <2>2 DEF TableOK
<1>13. SpawnedAfterDeps'
  <2>1. ASSUME NEW m \in DOMAIN spawned' PROVE \A d \in Deps[spawned'[m]] : MergedPhase(d)'
    <3>1. PICK x : x = spawned'[m] /\ DepsMerged(x)
      <4>1. CASE m = n
        BY <1>2, <1>5, <4>1
      <4>2. CASE m # n
        <5>1. m \in 1..Len(spawned)
          BY <1>0, <1>6, <4>2, SpawnedTyped
        <5>2. m \in DOMAIN spawned /\ spawned'[m] = spawned[m]
          BY <1>0, <1>5, <5>1, SpawnedTyped
        <5> QED
          BY <5>2 DEF RunInv, SpawnedAfterDeps, DepsMerged
      <4> QED
        BY <4>1, <4>2
    <3>2. DepsMerged(x)'
      BY <1>0, <1>7, <3>1, Monotone
    <3> QED
      BY <3>1, <3>2 DEF DepsMerged
  <2> QED
    BY <2>1 DEF SpawnedAfterDeps
<1>14. FinishedMeansMerged'
  BY <1>0, <1>1, <1>7, Monotone DEF RunInv, FinishedMeansMerged
<1>15. (\A m \in Spokes : ReqOK(m))'
  <2>1. ASSUME NEW m \in Spokes, req[m].kind # "none" PROVE IsSpoke(m, req[m].phase)'
    <3>1. PICK x : x = req[m].phase /\ IsSpoke(m, x)
      BY <2>1 DEF RunInv, ReqOK
    <3>2. IsSpoke(m, x)'
      BY <1>0, <1>7, <3>1, Monotone
    <3> QED
      BY <1>1, <3>1, <3>2 DEF IsSpoke
  <2> QED
    BY <1>1, <2>1 DEF ReqOK
<1>16. TypeOK'
  <2>1. Len(spawned') <= MaxSpokes
    BY <1>5, <1>6
  <2> QED
    BY <1>0, <1>1, <1>5, <1>11, <2>1 DEF TypeOK, Passes
<1>17. (\A m \in hooks : pr[m] = "merged")'
  BY <1>1 DEF RunInv
<1> QED
  BY <1>11, <1>12, <1>13, <1>14, <1>15, <1>16, <1>17 DEF RunInv

\* A step outside the passes: no spoke is created and no pass moves.
Outside ==
  /\ UNCHANGED <<spawned, worker>>
  /\ \A n \in Spokes : pr[n] = "merged" => pr'[n] = "merged"
  /\ \/ phase' = phase
     \/ \E p \in Phases, row \in Row : RowOK(p, row) /\ phase' = [phase EXCEPT ![p] = row]
  /\ run' \in RunState /\ (run' \in {"awaiting_review", "done"} => AllMerged)
  /\ pr' \in [Spokes -> {"none", "open", "merged"}]
  /\ regs' \in [Spokes -> 0..MaxRegs]
  /\ req' \in [Spokes -> Requests]
  /\ \A n \in Spokes : req'[n].kind # "none" => IsSpoke(n, req'[n].phase)
  /\ hooks' \subseteq Spokes /\ (\A n \in hooks' : pr'[n] = "merged") /\ faults' \in 0..MaxFaults

\* Such a step keeps the invariant.
LEMMA OutsideStep == ASSUME RunInv, Outside PROVE RunInv'
<1>0. TypeOK
  BY DEF RunInv
<1>1. Grows
  BY DEF Grows, Outside
<1>2. worker' = worker /\ worker' \in [Workers -> Passes]
  BY DEF Outside, RunInv
<1>3. (\A v \in Workers : PassOK(worker[v]))'
  <2>1. ASSUME NEW v \in Workers PROVE PassOK(worker[v])'
    <3>1. PICK q \in Passes : q = worker[v] /\ PassOK(q)
      BY DEF RunInv
    <3>2. PassOK(q)'
      BY <1>0, <1>1, <3>1, PassKept
    <3> QED
      BY <1>2, <3>1, <3>2 DEF PassOK
  <2> QED
    BY <2>1
<1>4. phase' \in [Phases -> Row] /\ \A p \in Phases : RowOK(p, phase'[p])
  <2>1. CASE phase' = phase
    BY <1>0, <2>1, RowTyped DEF TableOK, RunInv
  <2>2. CASE \E p \in Phases, row \in Row : RowOK(p, row) /\ phase' = [phase EXCEPT ![p] = row]
    BY <1>0, <2>2, RowTyped DEF TableOK, RunInv
  <2> QED
    BY <2>1, <2>2 DEF Outside
<1>5. TableOK(phase)'
  <2>1. ASSUME NEW p \in Phases PROVE RowOK(p, phase[p])'
    <3>1. PICK row : row = phase'[p] /\ RowOK(p, row)
      BY <1>4
    <3>2. RowOK(p, row)'
      BY <1>0, <1>1, <3>1, RowKept
    <3> QED
      BY <3>1, <3>2 DEF RowOK
  <2> QED
    BY <2>1 DEF TableOK
<1>6. TypeOK'
  BY <1>0, <1>2, <1>4 DEF TypeOK, Outside, Requests
<1>7. SpawnedAfterDeps'
  <2>1. \A n \in DOMAIN spawned : DepsMerged(spawned[n])
    BY DEF RunInv, SpawnedAfterDeps, DepsMerged
  <2>2. \A x : DepsMerged(x) => DepsMerged(x)'
    BY <1>0, <1>1, Monotone
  <2>3. spawned' = spawned
    BY DEF Outside
  <2> QED
    BY <2>1, <2>2, <2>3 DEF SpawnedAfterDeps, DepsMerged
<1>8. FinishedMeansMerged'
  BY <1>0, <1>1, Monotone DEF FinishedMeansMerged, Outside, AllMerged
<1>9. (\A n \in Spokes : ReqOK(n))' /\ (\A n \in hooks : pr[n] = "merged")'
  BY DEF ReqOK, IsSpoke, Outside
<1> QED
  BY <1>2, <1>3, <1>5, <1>6, <1>7, <1>8, <1>9 DEF RunInv

\* What the invariant says of everything a step outside may leave alone.
LEMMA OutsideFrame ==
  ASSUME RunInv
  PROVE  /\ run \in RunState /\ (run \in {"awaiting_review", "done"} => AllMerged)
         /\ pr \in [Spokes -> {"none", "open", "merged"}] /\ regs \in [Spokes -> 0..MaxRegs]
         /\ req \in [Spokes -> Requests]
         /\ \A n \in Spokes : req[n].kind # "none" => IsSpoke(n, req[n].phase)
         /\ hooks \subseteq Spokes /\ (\A n \in hooks : pr[n] = "merged") /\ faults \in 0..MaxFaults
  BY Frame DEF RunInv, TypeOK, ReqOK, Requests

\* Approving the plan starts the run, approving the review ends a finished one.
LEMMA ReviewKeeps == ASSUME RunInv, Approve \/ ApproveReview PROVE RunInv'
<1>1. UNCHANGED <<phase, spawned, pr, regs, req, hooks, worker, faults>>
  BY DEF Approve, ApproveReview, spokeState
<1>2. run' \in RunState /\ (run' \in {"awaiting_review", "done"} => AllMerged)
  BY OutsideFrame DEF Approve, ApproveReview, RunState
<1>3. Outside
  BY <1>1, <1>2, OutsideFrame DEF Outside
<1> QED
  BY <1>3, OutsideStep

\* A pull request opens, or merges and sends its webhook.
LEMMA PRKeeps == ASSUME RunInv, NEW n \in Spokes, OpenPR(n) \/ MergePR(n) PROVE RunInv'
<1>1. UNCHANGED <<run, phase, spawned, regs, req, worker, faults>>
  BY DEF OpenPR, MergePR, rows
<1>2. /\ pr' \in [Spokes -> {"none", "open", "merged"}]
      /\ \A m \in Spokes : pr[m] = "merged" => pr'[m] = "merged"
      /\ hooks' \subseteq Spokes /\ \A m \in hooks' : pr'[m] = "merged"
  BY OutsideFrame DEF OpenPR, MergePR
<1>3. Outside
  BY <1>1, <1>2, OutsideFrame DEF Outside
<1> QED
  BY <1>3, OutsideStep

\* A spoke finds the phase whose row names it, and it was created for that one.
LEMMA ReadKeeps == ASSUME RunInv, NEW n \in Spokes, LinkRead(n) \/ BlockRead(n) PROVE RunInv'
<1>1. UNCHANGED <<run, phase, spawned, pr, hooks, worker, faults>>
  BY DEF LinkRead, BlockRead, rows
<1>2. regs' \in [Spokes -> 0..MaxRegs]
  <2>1. CASE BlockRead(n)
    BY <2>1, OutsideFrame DEF BlockRead
  <2>2. CASE LinkRead(n)
    <3>1. regs' = [regs EXCEPT ![n] = regs[n] + 1] /\ regs[n] < MaxRegs
      BY <2>2 DEF LinkRead
    <3>2. regs \in [Spokes -> 0..MaxRegs]
      BY OutsideFrame
    <3>3. regs[n] + 1 \in 0..MaxRegs
      BY <3>1, <3>2
    <3> QED
      BY <3>1, <3>2, <3>3
  <2> QED
    BY <2>1, <2>2
<1>3. PICK r : /\ r = req'[n] /\ req' = [req EXCEPT ![n] = r] /\ r \in Requests
               /\ r = NoReq \/ r.phase \in OfSpoke(n)
  <2>1. CASE LinkRead(n)
    <3> DEFINE p == CHOOSE p \in OfSpoke(n) : TRUE
    <3>1. \/ req' = [req EXCEPT ![n] = NoReq]
          \/ OfSpoke(n) # {} /\ req' = [req EXCEPT ![n] = [kind |-> "link", phase |-> p]]
      BY <2>1 DEF LinkRead
    <3>2. OfSpoke(n) # {} => p \in OfSpoke(n)
      OBVIOUS
    <3> HIDE DEF p
    <3>3. OfSpoke(n) \subseteq Phases
      BY DEF OfSpoke
    <3>4. n \in DOMAIN req
      BY OutsideFrame
    <3> DEFINE b == [kind |-> "link", phase |-> p]
    <3>5. NoReq \in Requests
      BY DEF NoReq, Requests
    <3>6. OfSpoke(n) # {} => b.phase \in OfSpoke(n) /\ b \in Requests
      BY <3>2, <3>3 DEF Requests
    <3>7. req' = [req EXCEPT ![n] = NoReq] \/ (OfSpoke(n) # {} /\ req' = [req EXCEPT ![n] = b])
      BY <3>1
    <3> HIDE DEF b
    <3> QED
      BY <3>4, <3>5, <3>6, <3>7
  <2>2. CASE BlockRead(n)
    <3>1. PICK p \in OfSpoke(n) : req' = [req EXCEPT ![n] = [kind |-> "block", phase |-> p]]
      BY <2>2 DEF BlockRead
    <3>2. p \in Phases /\ n \in DOMAIN req
      BY OutsideFrame DEF OfSpoke
    <3> DEFINE b == [kind |-> "block", phase |-> p]
    <3>3. req'[n] = b /\ req' = [req EXCEPT ![n] = b]
      BY <3>1, <3>2
    <3>4. b.kind = "block" /\ b.phase = p /\ b \in Requests
      BY <3>2 DEF Requests
    <3> HIDE DEF b
    <3> QED
      BY <3>3, <3>4
  <2> QED
    BY <2>1, <2>2
<1>4. r \in Requests /\ (r.kind # "none" => IsSpoke(n, r.phase))
  <2>1. CASE r = NoReq
    BY <2>1 DEF NoReq, Requests
  <2>2. CASE r.phase \in OfSpoke(n)
    <3>1. r.phase \in Phases /\ phase[r.phase].spoke = n /\ n # 0
      BY <2>2 DEF OfSpoke, Spokes
    <3>2. RowOK(r.phase, phase[r.phase])
      BY <3>1 DEF RunInv, TableOK
    <3>3. r \in Requests
      BY <1>3 DEF NoReq, Requests
    <3> QED
      BY <3>1, <3>2, <3>3 DEF RowOK
  <2> QED
    BY <1>3, <2>1, <2>2
<1>5. /\ req' \in [Spokes -> Requests]
      /\ \A m \in Spokes : req'[m].kind # "none" => IsSpoke(m, req'[m].phase)
  BY <1>3, <1>4, OutsideFrame DEF Requests
<1>6. Outside
  BY <1>1, <1>2, <1>5, OutsideFrame DEF Outside
<1> QED
  BY <1>6, OutsideStep

\* The write of a request has no guard on the row: it takes it to pr_open or to
\* blocked, whatever it was by then.
LEMMA WriteKeeps == ASSUME RunInv, NEW n \in Spokes, MarkPhasePROpen(n) \/ BlockWrite(n) PROVE RunInv'
<1> DEFINE p == req[n].phase
           old == phase[p]
<1>1. UNCHANGED <<run, spawned, pr, regs, hooks, worker, faults>> /\ req' = [req EXCEPT ![n] = NoReq]
  BY DEF MarkPhasePROpen, BlockWrite
<1>2. IsSpoke(n, p)
  BY OutsideFrame DEF MarkPhasePROpen, BlockWrite
<1>3. p \in Phases /\ DepsMerged(p)
  <2>1. n \in DOMAIN spawned /\ p = spawned[n] /\ TypeOK
    BY <1>2 DEF IsSpoke, RunInv
  <2>2. p \in Phases
    BY <2>1, SpawnedTyped
  <2> QED
    BY <2>1, <2>2 DEF RunInv, SpawnedAfterDeps, DepsMerged
<1>4. old \in Row /\ RowOK(p, old)
  BY <1>3 DEF RunInv, TypeOK, TableOK
<1>5. \/ phase' = [phase EXCEPT ![p] = [old EXCEPT !.status = "pr_open", !.pr = n]]
      \/ phase' = [phase EXCEPT ![p] = [old EXCEPT !.status = "blocked"]]
  BY DEF MarkPhasePROpen, BlockWrite
<1> HIDE DEF old, p
<1>6. [old EXCEPT !.status = "blocked"] \in Row /\ RowOK(p, [old EXCEPT !.status = "blocked"])
  BY <1>3, <1>4, StatusOK
<1>7. /\ [old EXCEPT !.status = "pr_open", !.pr = n] \in Row
      /\ RowOK(p, [old EXCEPT !.status = "pr_open", !.pr = n])
  <2> DEFINE row == [old EXCEPT !.status = "pr_open", !.pr = n]
  <2>1. row \in Row /\ row.status = "pr_open" /\ row.pr = n /\ row.spoke = old.spoke
    <3>1. n \in 0..MaxSpokes
      BY DEF Spokes
    <3> QED
      BY <1>4, <3>1 DEF Row, Status
  <2> HIDE DEF row
  <2>2. RowOK(p, row)
    BY <1>2, <1>3, <1>4, <2>1 DEF RowOK, Success
  <2> QED
    BY <2>1, <2>2 DEF row
<1>8. \E x \in Phases, row \in Row : RowOK(x, row) /\ phase' = [phase EXCEPT ![x] = row]
  BY <1>3, <1>5, <1>6, <1>7
<1>9. /\ req' \in [Spokes -> Requests]
      /\ \A m \in Spokes : req'[m].kind # "none" => IsSpoke(m, req'[m].phase)
  BY <1>1, OutsideFrame DEF NoReq, Requests
<1>10. Outside
  BY <1>1, <1>8, <1>9, OutsideFrame DEF Outside
<1> QED
  BY <1>10, OutsideStep

\* Webhooks are lost, or repeated for requests that merged.
LEMMA HookKeeps == ASSUME RunInv, NEW n \in Spokes, LoseHook(n) \/ RepeatHook(n) PROVE RunInv'
<1>1. UNCHANGED <<run, phase, spawned, pr, regs, req, worker>>
  BY DEF LoseHook, RepeatHook, rows, spokeState
<1>2. hooks' \subseteq Spokes /\ (\A m \in hooks' : pr'[m] = "merged") /\ faults' \in 0..MaxFaults
  BY <1>1, OutsideFrame, Frame DEF LoseHook, RepeatHook
<1>3. Outside
  BY <1>1, <1>2, OutsideFrame DEF Outside
<1> QED
  BY <1>3, OutsideStep

\* The invariant holds of a draft.
LEMMA RunStart == Init => RunInv
<1> SUFFICES ASSUME Init PROVE RunInv
  OBVIOUS
<1> DEFINE r0 == [status |-> "pending", spoke |-> 0, pr |-> 0]
<1>1. phase = [p \in Phases |-> r0] /\ worker = [w \in Workers |-> Idle]
  BY DEF Init
<1>2. r0 \in Row /\ \A p \in Phases : RowOK(p, r0)
  BY DEF Row, Status, RowOK, Success
<1> HIDE DEF r0
<1>3. phase \in [Phases -> Row] /\ TableOK(phase)
  BY <1>1, <1>2 DEF TableOK
<1>4. worker \in [Workers -> Passes] /\ \A w \in Workers : PassOK(worker[w])
  BY <1>1, IdleOK
<1>5. spawned = <<>> /\ spawned \in Seq(Phases) /\ Len(spawned) = 0 /\ DOMAIN spawned = {}
  BY EmptySeq DEF Init
<1>6. req \in [Spokes -> Requests]
      /\ \A n \in Spokes : ReqOK(n)
  BY DEF Init, NoReq, ReqOK, Requests
<1>7. TypeOK
  BY <1>3, <1>4, <1>5, <1>6 DEF Init, TypeOK, RunState, Passes, Requests
<1> QED
  BY <1>3, <1>4, <1>5, <1>6, <1>7 DEF Init, RunInv, SpawnedAfterDeps, FinishedMeansMerged

\* Every step keeps it.
LEMMA RunStep == RunInv /\ [Next]_vars => RunInv'
<1> SUFFICES ASSUME RunInv, [Next]_vars PROVE RunInv'
  OBVIOUS
<1>1. ASSUME NEW w \in Workers,
             Load(w) \/ MarkPhaseReady(w) \/ RequeuePhaseForRespawn(w) \/ ClaimPhaseForSpawn(w)
             \/ AttachPhaseSpoke(w) \/ SettleRead(w) \/ UpdateState(w) \/ MergeForward(w)
             \/ SpawnFails(w) \/ AttachFails(w) \/ WorkerDies(w) \/ \E n \in Spokes : AdvanceOnMerge(w, n)
      PROVE  RunInv'
  BY <1>1, LoadGood, ReadyGood, RequeueGood, ClaimGood, AttachGood, SettleGood, StateGood,
     ForwardGood,
     SpawnFailsGood, AdvanceGood, GoodStep
<1>2. ASSUME NEW w \in Workers, SpawnPhaseSpoke(w) PROVE RunInv'
  BY <1>2, SpawnKeeps
<1>3. ASSUME NEW n \in Spokes,
             OpenPR(n) \/ MergePR(n) \/ LinkRead(n) \/ MarkPhasePROpen(n)
             \/ BlockRead(n) \/ BlockWrite(n) \/ LoseHook(n) \/ RepeatHook(n)
      PROVE  RunInv'
  BY <1>3, PRKeeps, ReadKeeps, WriteKeeps, HookKeeps
<1>4. CASE Approve \/ ApproveReview
  BY <1>4, ReviewKeeps
<1>5. CASE UNCHANGED vars
  <2>1. Outside
    BY <1>5, OutsideFrame DEF vars, Outside
  <2> QED
    BY <2>1, OutsideStep
<1> QED
  BY <1>1, <1>2, <1>3, <1>4, <1>5 DEF Next, Pass

\* RunInv holds in every reachable state.
THEOREM RunInvariant == Spec => []RunInv
<1> QED
  BY RunStart, RunStep, PTL DEF Spec

\* No spoke starts before its dependencies merged and no run is finished before
\* its phases did, for any plan, any number of workers, spokes and faults
\* (reconcileRun, settleRunState, advanceOnMerge).
THEOREM RunIsSafe == Spec => []RunSafe
<1>1. RunInv => RunSafe
  BY DEF RunInv, RunSafe
<1> QED
  BY <1>1, RunInvariant, PTL
=============================================================================
