-------------------------- MODULE Services_proof ---------------------------
(***************************************************************************)
(* Proofs about scheduled wakeups (ScheduledWakeup), provider-health       *)
(* banners (ProviderHealth), turn numbers (TurnNumbers) and avatars        *)
(* (AvatarDeck), for any constants that satisfy their assumptions.  The four *)
(* do not share state, so each has its own invariant.                      *)
(***************************************************************************)
EXTENDS ScheduledWakeup, ProviderHealth, TurnNumbers, AvatarDeck, FiniteSetTheorems,
        SequenceTheorems, TLAPS

-----------------------------------------------------------------------------
(* Scheduled wakeups                                                       *)

\* What is durable at each place of a fire.
FireInv ==
    \A r \in Replica :
        /\ pc[r] \in {"submit", "publish"} => "user_message" \in ledger
        /\ pc[r] = "publish" => "submitted" \in ledger
        /\ pc[r] = "mark_fired" => ledger # {}

\* While the ledger could be read, a fire that may still publish has a turn that was
\* never sent, or whose message id the stream remembers: only the first claim goes
\* past the ledger guard, and it finds nothing sent.
SendInv ==
    /\ attempts = 0 => commands = 0 /\ \A r \in Replica : pc[r] = "idle"
    /\ \/ readFailed \/ commands = 0 \/ dedupe
       \/ \A r \in Replica : pc[r] \notin {"enqueue", "submit", "publish"}

\* The invariant beyond the types.
SendsOnce ==
    BoundaryBeforeCommand /\ FiredHasTurn /\ OneCommandPerWake /\ RunsOnce /\ FireInv /\ SendInv

USE WakeAssumption DEF WakeAssumption

\* It holds of a wake that is not registered.
LEMMA WakeInit == Init => TypeOK /\ SendsOnce
<1> SUFFICES ASSUME Init PROVE TypeOK /\ SendsOnce
  OBVIOUS
<1>1. leaseStale \in BOOLEAN /\ due \in BOOLEAN /\ dedupe \in BOOLEAN /\ readFailed \in BOOLEAN
  BY Zenon DEF Init
<1>2. pc \in [Replica -> Control] /\ att \in [Replica -> 0..AttemptCap] /\ faults \in 0..MaxFaults
  BY DEF Init, Control
<1>3. TypeOK
  BY <1>1, <1>2 DEF Init, TypeOK, Sessions
<1>4. SendsOnce
  BY
  DEF Init, SendsOnce, BoundaryBeforeCommand, FiredHasTurn, OneCommandPerWake, RunsOnce, FireInv,
     SendInv
<1> QED
  BY <1>3, <1>4

\* Every step keeps the variables in their types.
LEMMA WakeTypeStep == ASSUME TypeOK, Next PROVE TypeOK'
<1> USE DEF TypeOK, Pending, TerminalRow, Terminals, Sessions, Firing, Control
<1>1. CASE Register
  BY <1>1 DEF Register, bus
<1>2. CASE Cancel
  BY <1>2 DEF Cancel, Overwrite, bus
<1>3. CASE BecomeDue
  BY <1>3 DEF BecomeDue, row, bus
<1>4. CASE LeaseExpires
  BY <1>4 DEF LeaseExpires, bus
<1>5. CASE DedupeExpires
  BY <1>5 DEF DedupeExpires, row
<1>6. CASE SessionChanges
  BY <1>6 DEF SessionChanges, row, bus
<1>7. CASE RunnerTakes
  BY <1>7 DEF RunnerTakes, Terminated, row
<1>8. CASE RunnerFinishes
  BY <1>8 DEF RunnerFinishes, Persist, row, bus
<1>9. ASSUME NEW r \in Replica, ClaimDue(r) PROVE TypeOK'
  <2>1. attempts' \in 0..AttemptCap
    BY <1>9 DEF ClaimDue
  <2>2. att' \in [Replica -> 0..AttemptCap]
    BY <1>9, <2>1 DEF ClaimDue
  <2>3. Ladder(session, attempts') \in Control
    BY DEF Ladder
  <2>4. pc' \in [Replica -> Control]
    BY <1>9, <2>3 DEF ClaimDue, Goto
  <2>5. leaseStale' \in BOOLEAN /\ status' \in Pending
    BY <1>9 DEF ClaimDue
  <2> QED
    BY <1>9, <2>1, <2>2, <2>4, <2>5 DEF ClaimDue, bus
<1>10. ASSUME NEW r \in Replica, FailExceeded(r) PROVE TypeOK'
  BY <1>10 DEF FailExceeded, Goto, Overwrite, bus
<1>11. ASSUME NEW r \in Replica, ReleaseRetainingAttempt(r) PROVE TypeOK'
  BY <1>11 DEF ReleaseRetainingAttempt, Goto, Overwrite, bus
<1>12. ASSUME NEW r \in Replica, LedgerGuard(r) PROVE TypeOK'
  BY <1>12 DEF LedgerGuard, Goto, row, bus
<1>13. ASSUME NEW r \in Replica, EnqueueRejected(r) PROVE TypeOK'
  BY <1>13 DEF EnqueueRejected, Goto, row, bus
<1>14. ASSUME NEW r \in Replica, PersistUserMessage(r) PROVE TypeOK'
  BY <1>14 DEF PersistUserMessage, Persist, Goto, row, bus
<1>15. ASSUME NEW r \in Replica, PersistSubmitted(r) PROVE TypeOK'
  BY <1>15 DEF PersistSubmitted, Persist, Goto, row, bus
<1>16. ASSUME NEW r \in Replica, PublishCommand(r) PROVE TypeOK'
  BY <1>16 DEF PublishCommand, Deliver, Goto, row
<1>17. ASSUME NEW r \in Replica, MarkFired(r) PROVE TypeOK'
  BY <1>17 DEF MarkFired, Overwrite, Goto, bus
<1>18. ASSUME NEW r \in Replica, MarkFailed(r) PROVE TypeOK'
  BY <1>18 DEF MarkFailed, Overwrite, Goto, bus
<1>19. ASSUME NEW r \in Replica, Ring(r) PROVE TypeOK'
  BY <1>19 DEF Ring, Persist, Goto, row, bus
<1>20. ASSUME NEW r \in Replica, LedgerReadFails(r) PROVE TypeOK'
  BY <1>20 DEF LedgerReadFails, Fault, Goto, row, bus
<1>21. ASSUME NEW r \in Replica, EnqueueFails(r) PROVE TypeOK'
  <2>1. commands' \in Nat /\ taken' \in 0..commands' /\ runs' \in 0..taken'
    BY <1>21 DEF EnqueueFails, Deliver, bus
  <2>2. dedupe' \in BOOLEAN
    BY <1>21 DEF EnqueueFails, Deliver, bus
  <2>3. faults' \in 0..MaxFaults /\ pc' \in [Replica -> Control]
    BY <1>21 DEF EnqueueFails, Fault, Goto
  <2> QED
    BY <1>21, <2>1, <2>2, <2>3 DEF EnqueueFails, row
<1>22. ASSUME NEW r \in Replica, Abandon(r) PROVE TypeOK'
  BY <1>22 DEF Abandon, Fault, Goto, row, bus
<1> QED
  BY <1>1, <1>2, <1>3, <1>4, <1>5, <1>6, <1>7, <1>8, <1>9, <1>10, <1>11, <1>12, <1>13,
     <1>14, <1>15, <1>16, <1>17, <1>18, <1>19, <1>20, <1>21, <1>22
  DEF Next, Environment, FireStep

\* Every step keeps the rest of the invariant.
LEMMA WakeSafeStep == ASSUME TypeOK, SendsOnce, Next PROVE SendsOnce'
<1> USE DEF TypeOK, Pending, TerminalRow, Terminals, Sessions, Firing, Control, SendsOnce,
            BoundaryBeforeCommand, FiredHasTurn, OneCommandPerWake, RunsOnce, FireInv, SendInv
<1>1. CASE Register
  BY <1>1 DEF Register, bus
<1>2. CASE Cancel
  BY <1>2 DEF Cancel, Overwrite, bus
<1>3. CASE BecomeDue
  BY <1>3 DEF BecomeDue, row, bus
<1>4. CASE LeaseExpires
  BY <1>4 DEF LeaseExpires, bus
<1>5. CASE DedupeExpires
  BY <1>5 DEF DedupeExpires, row
<1>6. CASE SessionChanges
  BY <1>6 DEF SessionChanges, row, bus
<1>7. CASE RunnerTakes
  BY <1>7 DEF RunnerTakes, Terminated, row
<1>8. CASE RunnerFinishes
  BY <1>8 DEF RunnerFinishes, Persist, row, bus
<1>9. ASSUME NEW r \in Replica, ClaimDue(r) PROVE SendsOnce'
  BY <1>9 DEF ClaimDue, Goto, Ladder, bus
<1>10. ASSUME NEW r \in Replica, FailExceeded(r) PROVE SendsOnce'
  BY <1>10 DEF FailExceeded, Goto, Overwrite, bus
<1>11. ASSUME NEW r \in Replica, ReleaseRetainingAttempt(r) PROVE SendsOnce'
  BY <1>11 DEF ReleaseRetainingAttempt, Goto, Overwrite, bus
<1>12. ASSUME NEW r \in Replica, LedgerGuard(r) PROVE SendsOnce'
  BY <1>12 DEF LedgerGuard, Goto, row, bus
<1>13. ASSUME NEW r \in Replica, EnqueueRejected(r) PROVE SendsOnce'
  BY <1>13 DEF EnqueueRejected, Goto, row, bus
<1>14. ASSUME NEW r \in Replica, PersistUserMessage(r) PROVE SendsOnce'
  BY <1>14 DEF PersistUserMessage, Persist, Goto, row, bus
<1>15. ASSUME NEW r \in Replica, PersistSubmitted(r) PROVE SendsOnce'
  BY <1>15 DEF PersistSubmitted, Persist, Goto, row, bus
<1>16. ASSUME NEW r \in Replica, PublishCommand(r) PROVE SendsOnce'
  BY <1>16 DEF PublishCommand, Deliver, Goto, row
<1>17. ASSUME NEW r \in Replica, MarkFired(r) PROVE SendsOnce'
  BY <1>17 DEF MarkFired, Overwrite, Goto, bus
<1>18. ASSUME NEW r \in Replica, MarkFailed(r) PROVE SendsOnce'
  BY <1>18 DEF MarkFailed, Overwrite, Goto, bus
<1>19. ASSUME NEW r \in Replica, Ring(r) PROVE SendsOnce'
  BY <1>19 DEF Ring, Persist, Goto, row, bus
<1>20. ASSUME NEW r \in Replica, LedgerReadFails(r) PROVE SendsOnce'
  BY <1>20 DEF LedgerReadFails, Fault, Goto, row, bus
<1>21. ASSUME NEW r \in Replica, EnqueueFails(r) PROVE SendsOnce'
  BY <1>21 DEF EnqueueFails, Deliver, Fault, Goto, row, bus
<1>22. ASSUME NEW r \in Replica, Abandon(r) PROVE SendsOnce'
  BY <1>22 DEF Abandon, Fault, Goto, row, bus
<1> QED
  BY <1>1, <1>2, <1>3, <1>4, <1>5, <1>6, <1>7, <1>8, <1>9, <1>10, <1>11, <1>12, <1>13,
     <1>14, <1>15, <1>16, <1>17, <1>18, <1>19, <1>20, <1>21, <1>22
  DEF Next, Environment, FireStep

\* A wake has its turn before its command, is not marked fired without a turn, is
\* sent once while the ledger can be read and runs once, for any replicas, cap and
\* faults (fireScheduledWakeup, its ledger guard and finalizeCommandIfAlreadyTerminal).
THEOREM WakeIsSafe == Spec => []WakeSafe
<1>1. TypeOK /\ SendsOnce /\ [Next]_vars => (TypeOK /\ SendsOnce)'
  <2> SUFFICES ASSUME TypeOK, SendsOnce, [Next]_vars PROVE (TypeOK /\ SendsOnce)'
    OBVIOUS
  <2>1. CASE Next
    BY <2>1, WakeTypeStep, WakeSafeStep
  <2>2. CASE UNCHANGED vars
    BY <2>2 DEF vars, TypeOK, SendsOnce, BoundaryBeforeCommand, FiredHasTurn, OneCommandPerWake,
                RunsOnce, FireInv, SendInv
  <2> QED
    BY <2>1, <2>2
<1>2. TypeOK /\ SendsOnce => WakeSafe
  BY DEF SendsOnce, WakeSafe
<1> QED
  BY WakeInit, <1>1, <1>2, PTL DEF Spec

HIDE WakeAssumption DEF WakeAssumption

-----------------------------------------------------------------------------
(* Provider health                                                         *)

\* A fan-out of its scope that has yet to reach a session.
Owed(s) == \E r \in Pollers : /\ Scope[r] = Scope[s]
                              /\ poll[r].pc = "list" \/ s \in poll[r].todo

\* A poll tells nobody before it has won its write and listed the sessions, and a
\* session that does not exist yet has no banner and is on no list.
FanOutInv ==
    /\ \A r \in Pollers : poll[r].pc # "emit" => poll[r].todo = {}
    /\ \A s \in Clients : client[s] = "none" =>
         /\ shown[s] = "none" /\ banner[s] = "none"
         /\ \A r \in Pollers : s \notin poll[r].todo

\* A session in the window between its creation and its read of the health row: what
\* it shows is right, or will be once it has read the row.
ReadingInv ==
    \A s \in Clients \ astray :
        client[s] = "reading" => Owed(s) \/ health.status = "failed" \/ shown[s] # "failed"

\* The invariant beyond the types.
BannerInv == BannersAgree /\ FanOutInv /\ ReadingInv

\* The states of a poll, and a step that puts one of them, q, in place of r's.
Polls == [pc : {"idle", "read", "write", "insert", "list", "emit"},
          want : Statuses, seen : Nat, todo : SUBSET Clients]

Moves(r, q) == q \in Polls /\ poll' = [poll EXCEPT ![r] = q]

USE HealthAssumption DEF HealthAssumption

\* It leaves the other polls alone.
LEMMA MovesOne ==
    ASSUME HealthTypeOK, NEW r \in Pollers, NEW q \in Polls, Moves(r, q)
    PROVE  poll'[r] = q /\ \A p \in Pollers \ {r} : poll'[p] = poll[p]
<1>1. poll \in [Pollers -> Polls]
  BY DEF HealthTypeOK, Polls
<1> QED
  BY <1>1 DEF Moves

\* A poll starts with nobody to tell.
LEMMA FetchMoves ==
    ASSUME HealthTypeOK, NEW r \in Pollers, Fetch(r)
    PROVE  \E q \in Polls : Moves(r, q) /\ q.pc = "read" /\ q.todo = {}
<1> DEFINE q == [NoPoll EXCEPT !.pc = "read", !.want = ClassifySnapshot(proxy)]
<1>1. q \in Polls /\ q.pc = "read" /\ q.todo = {}
  BY DEF NoPoll, Polls, ClassifySnapshot, Statuses
<1> QED
  BY <1>1 DEF Fetch, Moves

\* Its read of the row ends it, or leaves a write to do.
LEMMA GetMoves ==
    ASSUME HealthTypeOK, NEW r \in Pollers, Get(r)
    PROVE  \E q \in Polls : /\ Moves(r, q) /\ q.pc \in {"idle", "write"}
                            /\ q.todo \in {{}, poll[r].todo}
<1> DEFINE q == [poll[r] EXCEPT !.pc = "write", !.seen = health.version]
<1>0. poll[r] \in Polls
  BY DEF HealthTypeOK, Polls
<1>1. q \in Polls /\ q.pc = "write" /\ q.todo = poll[r].todo
  <2>1. health.version \in Nat
    BY DEF HealthTypeOK
  <2> QED
    BY <1>0, <2>1 DEF Polls
<1>2. NoPoll \in Polls /\ NoPoll.pc = "idle" /\ NoPoll.todo = {}
  BY DEF NoPoll, Polls, Statuses
<1>3. poll' = [poll EXCEPT ![r] = NoPoll] \/ poll' = [poll EXCEPT ![r] = q]
  BY DEF Get
<1> HIDE DEF q
<1> QED
  BY <1>1, <1>2, <1>3 DEF Moves

\* Its write is won, and the sessions are to be listed, or the row stays as it is.
LEMMA UpsertMoves ==
    ASSUME HealthTypeOK, NEW r \in Pollers, UpsertTransition(r)
    PROVE  \E q \in Polls : /\ Moves(r, q) /\ q.todo \in {{}, poll[r].todo}
                            /\ poll[r].pc \in {"write", "insert"}
                            /\ \/ q.pc = "list" /\ astray' = astray \union Untold(r)
                               \/ q.pc \in {"idle", "insert"} /\ UNCHANGED <<health, astray>>
<1> DEFINE q(at) == [poll[r] EXCEPT !.pc = at]
<1>0. poll[r] \in Polls
  BY DEF HealthTypeOK, Polls
<1>1. \A at \in {"insert", "list"} : q(at) \in Polls /\ q(at).pc = at /\ q(at).todo = poll[r].todo
  BY <1>0 DEF Polls
<1>2. NoPoll \in Polls /\ NoPoll.pc = "idle" /\ NoPoll.todo = {}
  BY DEF NoPoll, Polls, Statuses
<1>3. \/ poll' = [poll EXCEPT ![r] = NoPoll] /\ UNCHANGED <<health, astray>>
      \/ poll' = [poll EXCEPT ![r] = q("insert")] /\ UNCHANGED <<health, astray>>
      \/ poll' = [poll EXCEPT ![r] = q("list")] /\ astray' = astray \union Untold(r)
  BY DEF UpsertTransition
<1>4. poll[r].pc \in {"write", "insert"}
  BY DEF UpsertTransition
<1> HIDE DEF q
<1> QED
  BY <1>1, <1>2, <1>3, <1>4 DEF Moves

\* It has every listed session to tell.
LEMMA ListMoves ==
    ASSUME HealthTypeOK, NEW r \in Pollers, ListActiveSessions(r)
    PROVE  \E q \in Polls : /\ Moves(r, q) /\ q.todo = Listed(r)
                            /\ q.pc = "emit" \/ (q.pc = "idle" /\ Listed(r) = {})
<1> DEFINE q == [poll[r] EXCEPT !.pc = "emit", !.todo = Listed(r)]
<1>0. poll[r] \in Polls
  BY DEF HealthTypeOK, Polls
<1>1. q \in Polls /\ q.pc = "emit" /\ q.todo = Listed(r)
  <2>1. Listed(r) \in SUBSET Clients
    BY DEF Listed
  <2> QED
    BY <1>0, <2>1 DEF Polls
<1>2. NoPoll \in Polls /\ NoPoll.pc = "idle" /\ NoPoll.todo = {}
  BY DEF NoPoll, Polls, Statuses
<1>3. \/ poll' = [poll EXCEPT ![r] = NoPoll] /\ Listed(r) = {}
      \/ poll' = [poll EXCEPT ![r] = q]
  BY DEF ListActiveSessions
<1> HIDE DEF q
<1> QED
  BY <1>1, <1>2, <1>3 DEF Moves

\* It passes one session.
LEMMA PassMoves ==
    ASSUME HealthTypeOK, NEW r \in Pollers, NEW s \in Clients, poll' = Passed(r, s)
    PROVE  \E q \in Polls : /\ Moves(r, q) /\ q.todo = poll[r].todo \ {s}
                            /\ q.pc = poll[r].pc \/ (q.pc = "idle" /\ q.todo = {})
<1> DEFINE q == [poll[r] EXCEPT !.todo = @ \ {s}]
<1>0. poll[r] \in Polls
  BY DEF HealthTypeOK, Polls
<1>1. q \in Polls /\ q.pc = poll[r].pc /\ q.todo = poll[r].todo \ {s}
  BY <1>0 DEF Polls
<1>2. NoPoll \in Polls /\ NoPoll.pc = "idle" /\ NoPoll.todo = {}
  BY DEF NoPoll, Polls, Statuses
<1>3. \/ poll' = [poll EXCEPT ![r] = NoPoll] /\ poll[r].todo = {s}
      \/ poll' = [poll EXCEPT ![r] = q]
  BY DEF Passed
<1> HIDE DEF q
<1> QED
  BY <1>1, <1>2, <1>3 DEF Moves

\* Nothing has been polled or told.
LEMMA HealthStart == HealthInit => HealthTypeOK /\ BannerInv
<1> SUFFICES ASSUME HealthInit PROVE HealthTypeOK /\ BannerInv
  OBVIOUS
<1>1. 0 \in 0..DebounceCycles /\ 0 \in 0..MaxFlips /\ 0 \in 0..MaxLosses
  OBVIOUS
<1>2. HealthTypeOK
  BY <1>1 DEF HealthInit, HealthTypeOK, Results, Statuses, NoPoll
<1>3. BannerInv
  BY DEF HealthInit, NoPoll, BannerInv, BannersAgree, FanOutInv, ReadingInv, Owed
<1> QED
  BY <1>2, <1>3

\* Every step keeps the variables in their types.
LEMMA HealthTypeStep == ASSUME HealthTypeOK, HealthNext PROVE HealthTypeOK'
<1>1. ASSUME NEW r \in Pollers, Fetch(r) PROVE HealthTypeOK'
  <2>1. poll' \in [Pollers -> Polls]
    BY <1>1, FetchMoves DEF Moves, HealthTypeOK, Polls
  <2> QED
    BY <1>1, <2>1 DEF HealthTypeOK, Results, Statuses, Polls, Fetch
<1>2. ASSUME NEW r \in Pollers, Get(r) PROVE HealthTypeOK'
  <2>1. poll' \in [Pollers -> Polls]
    BY <1>2, GetMoves DEF Moves, HealthTypeOK, Polls
  <2> QED
    BY <1>2, <2>1 DEF HealthTypeOK, Results, Statuses, Polls, Get, FailedCycles
<1>3. ASSUME NEW r \in Pollers, UpsertTransition(r) PROVE HealthTypeOK'
  <2>1. poll' \in [Pollers -> Polls]
    BY <1>3, UpsertMoves DEF Moves, HealthTypeOK, Polls
  <2>2. poll[r].want \in Statuses /\ health.version + 1 \in Nat
    BY DEF HealthTypeOK
  <2>3. health' \in [status : Statuses, version : Nat]
    BY <1>3, <2>2 DEF HealthTypeOK, UpsertTransition
  <2>4. restarted' \in BOOLEAN
    BY <1>3 DEF HealthTypeOK, UpsertTransition
  <2>5. astray' \subseteq Clients
    BY <1>3 DEF HealthTypeOK, UpsertTransition, Untold
  <2>6. UNCHANGED <<proxy, cycles, client, banner, shown, flips, losses>>
    BY <1>3 DEF UpsertTransition
  <2> QED
    BY <2>1, <2>3, <2>4, <2>5, <2>6 DEF HealthTypeOK, Polls
<1>4. ASSUME NEW r \in Pollers, ListActiveSessions(r) PROVE HealthTypeOK'
  <2>1. poll' \in [Pollers -> Polls]
    BY <1>4, ListMoves DEF Moves, HealthTypeOK, Polls
  <2> QED
    BY <1>4, <2>1 DEF HealthTypeOK, Results, Statuses, Polls, ListActiveSessions
<1>5. ASSUME NEW r \in Pollers, NEW s \in Clients, EmitForSession(r, s) PROVE HealthTypeOK'
  <2>1. poll' \in [Pollers -> Polls]
    BY <1>5, PassMoves DEF EmitForSession, Moves, HealthTypeOK, Polls
  <2> QED
    BY <1>5, <2>1 DEF HealthTypeOK, Results, Statuses, Polls, EmitForSession, Emit
<1>6. ASSUME NEW r \in Pollers, NEW s \in Clients, EmitFails(r, s) PROVE HealthTypeOK'
  <2>1. poll' \in [Pollers -> Polls]
    BY <1>6, PassMoves DEF EmitFails, Moves, HealthTypeOK, Polls
  <2> QED
    BY <1>6, <2>1 DEF HealthTypeOK, Results, Statuses, Polls, EmitFails, Loss
<1> USE DEF HealthTypeOK, Results, Statuses, NoPoll
<1>7. ASSUME NEW r \in Pollers, PollEnds(r) PROVE HealthTypeOK'
  BY <1>7 DEF PollEnds, Loss, Listed
<1>8. ASSUME NEW s \in Clients, CreateClient(s) PROVE HealthTypeOK'
  BY <1>8 DEF CreateClient
<1>9. ASSUME NEW s \in Clients, SpawnClient(s) PROVE HealthTypeOK'
  BY <1>9 DEF SpawnClient
<1>10. ASSUME NEW s \in Clients, CurrentHealth(s) PROVE HealthTypeOK'
  BY <1>10 DEF CurrentHealth
<1>11. ASSUME NEW s \in Clients, BackfillBanner(s) PROVE HealthTypeOK'
  BY <1>11 DEF BackfillBanner, Emit
<1>12. ASSUME NEW s \in Clients, BackfillFails(s) PROVE HealthTypeOK'
  BY <1>12 DEF BackfillFails, Loss
<1>13. ASSUME NEW s \in Clients, DeleteClient(s) PROVE HealthTypeOK'
  BY <1>13 DEF DeleteClient
<1>14. ASSUME NEW s \in Clients, Reproject(s) PROVE HealthTypeOK'
  BY <1>14 DEF Reproject
<1>15. CASE ProxyChanges
  BY <1>15 DEF ProxyChanges
<1> QED
  BY <1>1, <1>2, <1>3, <1>4, <1>5, <1>6, <1>7, <1>8, <1>9, <1>10, <1>11, <1>12, <1>13, <1>14, <1>15
  DEF HealthNext, PollStep

\* Every step keeps the banners.
LEMMA BannerStep == ASSUME HealthTypeOK, BannerInv, HealthNext PROVE BannerInv'
<1>1. ASSUME NEW r \in Pollers, Fetch(r) PROVE BannerInv'
  <2>1. PICK q \in Polls : Moves(r, q) /\ q.pc = "read" /\ q.todo = {}
    BY <1>1, FetchMoves
  <2>2. UNCHANGED <<health, client, banner, shown, astray>> /\ poll[r].pc = "idle"
    BY <1>1 DEF HealthTypeOK, Fetch
  <2> QED
    BY <2>1, <2>2
    DEF HealthTypeOK, Statuses, BannerInv, BannersAgree, FanOutInv, ReadingInv, Owed, Moves
<1>2. ASSUME NEW r \in Pollers, Get(r) PROVE BannerInv'
  <2>1. PICK q \in Polls : Moves(r, q) /\ q.pc \in {"idle", "write"} /\ q.todo \in {{}, poll[r].todo}
    BY <1>2, GetMoves
  <2>2. UNCHANGED <<health, client, banner, shown, astray>> /\ poll[r].pc = "read"
    BY <1>2 DEF HealthTypeOK, Get
  <2> QED
    BY <2>1, <2>2
    DEF HealthTypeOK, Statuses, BannerInv, BannersAgree, FanOutInv, ReadingInv, Owed, Moves
<1>3. ASSUME NEW r \in Pollers, UpsertTransition(r) PROVE BannerInv'
  <2>1. PICK q \in Polls : /\ Moves(r, q) /\ q.todo \in {{}, poll[r].todo}
                           /\ poll[r].pc \in {"write", "insert"}
                           /\ \/ q.pc = "list" /\ astray' = astray \union Untold(r)
                              \/ q.pc \in {"idle", "insert"} /\ UNCHANGED <<health, astray>>
    BY <1>3, UpsertMoves
  <2>2. UNCHANGED <<client, banner, shown>>
    BY <1>3 DEF HealthTypeOK, UpsertTransition
  <2>3. poll'[r] = q /\ \A p \in Pollers \ {r} : poll'[p] = poll[p]
    BY <2>1, MovesOne
  <2>4. FanOutInv'
    BY <2>1, <2>2, <2>3 DEF FanOutInv, BannerInv, HealthTypeOK
  <2>5. CASE q.pc = "list"
    <3>1. \A z \in Clients : Scope[z] = Scope[r] => Owed(z)'
      BY <2>3, <2>5 DEF Owed
    <3>2. \A z \in Clients \ astray' :
            z \notin astray /\ (Scope[z] # Scope[r] => client[z] # "live" /\ shown[z] # "failed")
      BY <2>1, <2>5 DEF Untold
    <3>3. BannersAgree'
      BY <2>2, <3>1, <3>2 DEF BannersAgree, Owed
    <3>4. ReadingInv'
      BY <2>2, <3>1, <3>2 DEF ReadingInv
    <3> QED
      BY <3>3, <3>4, <2>4 DEF BannerInv
  <2>6. CASE q.pc # "list"
    <3>1. \A z \in Clients : Owed(z) => Owed(z)'
      BY <2>1, <2>3, <2>6 DEF Owed, BannerInv, FanOutInv
    <3>2. UNCHANGED <<health, astray>>
      BY <2>1, <2>6
    <3> QED
      BY <2>2, <2>4, <3>1, <3>2 DEF BannerInv, BannersAgree, ReadingInv, Owed
  <2> QED
    BY <2>5, <2>6
<1>4. ASSUME NEW r \in Pollers, ListActiveSessions(r) PROVE BannerInv'
  <2>1. PICK q \in Polls : /\ Moves(r, q) /\ q.todo = Listed(r)
                           /\ q.pc = "emit" \/ (q.pc = "idle" /\ Listed(r) = {})
    BY <1>4, ListMoves
  <2>2. UNCHANGED <<health, client, banner, shown, astray>>
    BY <1>4 DEF HealthTypeOK, ListActiveSessions
  <2>3. poll'[r] = q /\ \A p \in Pollers \ {r} : poll'[p] = poll[p]
    BY <2>1, MovesOne
  <2>4. FanOutInv'
    BY <2>1, <2>2, <2>3 DEF FanOutInv, BannerInv, HealthTypeOK, Listed
  <2>5. \A z \in Clients : client[z] \in {"reading", "live"} /\ Owed(z) => Owed(z)'
    BY <2>1, <2>3 DEF Owed, Listed, HealthTypeOK
  <2> QED
    BY <2>2, <2>4, <2>5 DEF BannerInv, BannersAgree, ReadingInv, Owed
<1>5. ASSUME NEW r \in Pollers, NEW s \in Clients, EmitForSession(r, s) PROVE BannerInv'
  <2>1. PICK q \in Polls : /\ Moves(r, q) /\ q.todo = poll[r].todo \ {s}
                           /\ q.pc = poll[r].pc \/ (q.pc = "idle" /\ q.todo = {})
    BY <1>5, PassMoves DEF EmitForSession
  <2>2. /\ UNCHANGED <<health, client>> /\ s \in poll[r].todo
        /\ shown' = [shown EXCEPT ![s] = poll[r].want]
        /\ astray' = (IF poll[r].want = health.status THEN astray \ {s} ELSE astray \union {s})
        /\ \A z \in Clients : z # s => banner'[z] = banner[z]
    BY <1>5 DEF HealthTypeOK, EmitForSession, Emit
  <2>3. poll'[r] = q /\ \A p \in Pollers \ {r} : poll'[p] = poll[p]
    BY <2>1, MovesOne
  <2>4. FanOutInv'
    BY <2>1, <2>2, <2>3 DEF FanOutInv, BannerInv, HealthTypeOK
  <2>5. \A z \in Clients \ {s} : Owed(z) => Owed(z)'
    BY <2>1, <2>2, <2>3 DEF Owed, BannerInv, FanOutInv
  <2>6. poll[r].want \in Statuses /\ health.status \in Statuses /\ shown'[s] = poll[r].want
        /\ \A z \in Clients \ {s} : shown'[z] = shown[z] /\ (z \in astray' <=> z \in astray)
    BY <2>2 DEF HealthTypeOK
  <2> QED
    BY <2>2, <2>4, <2>5, <2>6 DEF BannerInv, BannersAgree, ReadingInv, Owed, Statuses
<1>6. ASSUME NEW r \in Pollers, NEW s \in Clients, EmitFails(r, s) PROVE BannerInv'
  <2>1. PICK q \in Polls : /\ Moves(r, q) /\ q.todo = poll[r].todo \ {s}
                           /\ q.pc = poll[r].pc \/ (q.pc = "idle" /\ q.todo = {})
    BY <1>6, PassMoves DEF EmitFails
  <2>2. UNCHANGED <<health, client, shown>> /\ s \in poll[r].todo
            /\ astray' = astray \union {s} /\ \A z \in Clients : z # s => banner'[z] = banner[z]
    BY <1>6 DEF HealthTypeOK, EmitFails, Loss
  <2>3. poll'[r] = q /\ \A p \in Pollers \ {r} : poll'[p] = poll[p]
    BY <2>1, MovesOne
  <2>4. FanOutInv'
    BY <2>1, <2>2, <2>3 DEF FanOutInv, BannerInv, HealthTypeOK
  <2>5. \A z \in Clients \ {s} : Owed(z) => Owed(z)'
    BY <2>1, <2>2, <2>3 DEF Owed, BannerInv, FanOutInv
  <2> QED
    BY <2>2, <2>4, <2>5 DEF BannerInv, BannersAgree, ReadingInv, Owed, HealthTypeOK
<1> USE DEF HealthTypeOK, Statuses, NoPoll, BannerInv, BannersAgree, FanOutInv, ReadingInv, Owed
<1>7. ASSUME NEW r \in Pollers, PollEnds(r) PROVE BannerInv'
  BY <1>7 DEF PollEnds, Loss, Listed
<1>8. ASSUME NEW s \in Clients, CreateClient(s) PROVE BannerInv'
  BY <1>8 DEF CreateClient
<1>9. ASSUME NEW s \in Clients, SpawnClient(s) PROVE BannerInv'
  BY <1>9 DEF SpawnClient
<1>10. ASSUME NEW s \in Clients, CurrentHealth(s) PROVE BannerInv'
  BY <1>10 DEF CurrentHealth
<1>11. ASSUME NEW s \in Clients, BackfillBanner(s) PROVE BannerInv'
  BY <1>11 DEF BackfillBanner, Emit
<1>12. ASSUME NEW s \in Clients, BackfillFails(s) PROVE BannerInv'
  BY <1>12 DEF BackfillFails, Loss
<1>13. ASSUME NEW s \in Clients, DeleteClient(s) PROVE BannerInv'
  BY <1>13 DEF DeleteClient
<1>14. ASSUME NEW s \in Clients, Reproject(s) PROVE BannerInv'
  BY <1>14 DEF Reproject
<1>15. CASE ProxyChanges
  BY <1>15 DEF ProxyChanges
<1> QED
  BY <1>1, <1>2, <1>3, <1>4, <1>5, <1>6, <1>7, <1>8, <1>9, <1>10, <1>11, <1>12, <1>13, <1>14, <1>15
  DEF HealthNext, PollStep

\* The banner of a session agrees with the provider's health row, or its emission is
\* still under way, or was lost, overtaken or undone, or a poller of another scope won
\* the transition, for any pollers, sessions, scopes and debounce (providerhealth.go: a
\* transition is written before the sessions of the winner's scope are listed, and a
\* created session is listed before it reads the row).
THEOREM BannersAreSafe == HealthSpec => []HealthSafe
<1>1. HealthInit => HealthTypeOK /\ BannerInv
  BY HealthStart
<1>2. HealthTypeOK /\ BannerInv /\ [HealthNext]_hvars => (HealthTypeOK /\ BannerInv)'
  <2> SUFFICES ASSUME HealthTypeOK, BannerInv, [HealthNext]_hvars PROVE (HealthTypeOK /\ BannerInv)'
    OBVIOUS
  <2>1. CASE HealthNext
    BY <2>1, HealthTypeStep, BannerStep
  <2>2. CASE UNCHANGED hvars
    BY <2>2 DEF hvars, HealthTypeOK, BannerInv, BannersAgree, FanOutInv, ReadingInv, Owed
  <2> QED
    BY <2>1, <2>2
<1>3. HealthTypeOK /\ BannerInv => HealthSafe
  BY DEF BannerInv, HealthSafe
<1> QED
  BY <1>1, <1>2, <1>3, PTL DEF HealthSpec

\* While versions only grow, a poll that is about to write has read a version that has
\* been, and where it is still the row's, the row says what the poll wants to change.
FlipInv ==
    ~restarted => \A r \in Pollers :
        poll[r].pc = "write" /\ poll[r].seen > 0 =>
            /\ poll[r].seen <= health.version
            /\ poll[r].seen = health.version => poll[r].want # health.status

\* A step that touches neither the row nor a poll that writes keeps it.
LEMMA FlipKept ==
    ASSUME HealthTypeOK, FlipInv, UNCHANGED <<health, restarted>>, NEW r \in Pollers, NEW q \in Polls,
           Moves(r, q), q.pc = "write" => poll[r].pc = "write" /\ q.want = poll[r].want
                                          /\ q.seen = poll[r].seen
    PROVE  FlipInv'
BY MovesOne DEF FlipInv

\* A poll that has read the row and goes on to write knows its version, and wants another
\* status.
LEMMA GetReads ==
    ASSUME HealthTypeOK, NEW r \in Pollers, Get(r), poll'[r].pc = "write"
    PROVE  /\ \A p \in Pollers \ {r} : poll'[p] = poll[p]
           /\ poll'[r].seen = health.version /\ poll'[r].want # health.status
<1>1. poll \in [Pollers -> Polls] /\ poll[r] \in Polls
  BY DEF HealthTypeOK, Polls
<1> DEFINE q == [poll[r] EXCEPT !.pc = "write", !.seen = health.version]
<1>2. CASE poll' = [poll EXCEPT ![r] = NoPoll]
  BY <1>1, <1>2 DEF NoPoll
<1>3. CASE poll' = [poll EXCEPT ![r] = q] /\ poll[r].want # health.status
  <2>1. q.seen = health.version /\ q.want = poll[r].want
    BY <1>1 DEF Polls
  <2>2. poll'[r] = q /\ \A p \in Pollers \ {r} : poll'[p] = poll[p]
    BY <1>1, <1>3
  <2> QED
    BY <1>3, <2>1, <2>2
<1> QED
  BY <1>2, <1>3 DEF Get

\* A write of the row: it was the version that was read, or the first one.
LEMMA UpsertWrites ==
    ASSUME HealthTypeOK, NEW r \in Pollers, UpsertTransition(r)
    PROVE  /\ \A p \in Pollers \ {r} : poll'[p] = poll[p]
           /\ poll'[r].pc # "write"
           /\ \/ UNCHANGED <<health, restarted>> /\ poll'[r].pc # "list"
              \/ /\ health'.version = health.version + 1 /\ health.version > 0
                 /\ UNCHANGED restarted /\ health'.status = poll[r].want
                 /\ poll[r].seen > 0 => health.version = poll[r].seen
              \/ /\ poll[r].pc = "insert" /\ health'.version = 1
                 /\ ~restarted' => ~restarted /\ health.version = 0
<1>1. poll \in [Pollers -> Polls] /\ poll[r] \in Polls /\ health.version \in Nat
  BY DEF HealthTypeOK, Polls
<1>2. CASE poll' = [poll EXCEPT ![r] = NoPoll]
  BY <1>1, <1>2 DEF UpsertTransition, NoPoll, Polls
<1>3. CASE poll' = [poll EXCEPT ![r].pc = "insert"]
  BY <1>1, <1>3 DEF UpsertTransition, NoPoll, Polls
<1>4. CASE poll' = [poll EXCEPT ![r].pc = "list"]
  <2>1. poll'[r].pc = "list" /\ \A p \in Pollers \ {r} : poll'[p] = poll[p]
    BY <1>1, <1>4 DEF Polls
  <2>2. \/ health' = [status |-> poll[r].want, version |-> health.version + 1]
           /\ poll[r].pc = "write" /\ health.version > 0 /\ ~LostRace(r) /\ UNCHANGED restarted
        \/ health' = [status |-> poll[r].want, version |-> 1] /\ poll[r].pc = "insert"
           /\ restarted' = (restarted \/ health.version > 0)
    <3>1. poll' # [poll EXCEPT ![r] = NoPoll] /\ poll' # [poll EXCEPT ![r].pc = "insert"]
      BY <1>1, <2>1 DEF NoPoll, Polls
    <3> QED
      BY <3>1, Zenon DEF UpsertTransition
  <2>3. CASE /\ health' = [status |-> poll[r].want, version |-> health.version + 1]
             /\ health.version > 0 /\ ~LostRace(r) /\ UNCHANGED restarted
    BY <2>1, <2>3 DEF LostRace
  <2>4. CASE /\ health' = [status |-> poll[r].want, version |-> 1] /\ poll[r].pc = "insert"
             /\ restarted' = (restarted \/ health.version > 0)
    <3>1. ~restarted' => ~restarted /\ ~(health.version > 0)
      BY <2>4, Zenon
    <3>2. ~(health.version > 0) => health.version = 0
      BY <1>1
    <3> QED
      BY <2>1, <2>4, <3>1, <3>2
  <2> QED
    BY <2>2, <2>3, <2>4
<1> QED
  BY <1>2, <1>3, <1>4 DEF UpsertTransition

\* Every step keeps it, and a step from the write to the listing flips the row.
LEMMA FlipStep ==
    ASSUME HealthTypeOK, FlipInv, HealthNext
    PROVE  /\ FlipInv'
           /\ \A r \in Pollers :
                ~restarted /\ poll[r].pc = "write" /\ poll'[r].pc = "list" /\ poll[r].seen > 0
                  => health'.status # health.status
<1> DEFINE Flips == \A r \in Pollers :
             ~restarted /\ poll[r].pc = "write" /\ poll'[r].pc = "list" /\ poll[r].seen > 0
               => health'.status # health.status
<1> USE DEF HealthTypeOK
<1>0. poll \in [Pollers -> Polls] /\ health.version \in Nat
  BY DEF Polls
<1>1. ASSUME NEW r \in Pollers, Fetch(r) PROVE FlipInv' /\ Flips
  <2>1. PICK q \in Polls : Moves(r, q) /\ q.pc = "read" /\ q.todo = {}
    BY <1>1, FetchMoves
  <2>2. UNCHANGED <<health, restarted>>
    BY <1>1 DEF Fetch
  <2> QED
    BY <2>1, <2>2, FlipKept, MovesOne
<1>2. ASSUME NEW r \in Pollers, Get(r) PROVE FlipInv' /\ Flips
  <2>1. PICK q \in Polls : Moves(r, q) /\ q.pc \in {"idle", "write"} /\ q.todo \in {{}, poll[r].todo}
    BY <1>2, GetMoves
  <2>2. UNCHANGED <<health, restarted>>
    BY <1>2 DEF Get
  <2>3. poll'[r] = q /\ \A p \in Pollers \ {r} : poll'[p] = poll[p]
    BY <2>1, MovesOne
  <2>4. CASE q.pc = "idle"
    BY <2>1, <2>2, <2>3, <2>4, FlipKept
  <2>5. CASE q.pc = "write"
    <3>1. poll'[r].seen = health.version /\ poll'[r].want # health.status
      BY <1>2, <2>3, <2>5, GetReads
    <3> QED
      BY <1>0, <2>2, <2>3, <2>5, <3>1 DEF FlipInv
  <2> QED
    BY <2>1, <2>4, <2>5
<1>3. ASSUME NEW r \in Pollers, UpsertTransition(r) PROVE FlipInv' /\ Flips
  <2>1. /\ \A p \in Pollers \ {r} : poll'[p] = poll[p]
        /\ poll'[r].pc # "write"
        /\ \/ UNCHANGED <<health, restarted>> /\ poll'[r].pc # "list"
           \/ /\ health'.version = health.version + 1 /\ health.version > 0
              /\ UNCHANGED restarted /\ health'.status = poll[r].want
              /\ poll[r].seen > 0 => health.version = poll[r].seen
           \/ /\ poll[r].pc = "insert" /\ health'.version = 1
              /\ ~restarted' => ~restarted /\ health.version = 0
    BY <1>3, UpsertWrites
  <2>2. \A p \in Pollers : poll[p].seen \in Nat
    BY <1>0 DEF Polls
  <2>3. CASE UNCHANGED <<health, restarted>> /\ poll'[r].pc # "list"
    BY <2>1, <2>3 DEF FlipInv
  <2>4. CASE /\ health'.version = health.version + 1 /\ health.version > 0
             /\ UNCHANGED restarted /\ health'.status = poll[r].want
             /\ poll[r].seen > 0 => health.version = poll[r].seen
    <3>1. FlipInv'
      BY <1>0, <2>1, <2>2, <2>4 DEF FlipInv
    <3>2. Flips
      BY <1>0, <2>1, <2>2, <2>4 DEF FlipInv
    <3> QED
      BY <3>1, <3>2
  <2>5. CASE /\ poll[r].pc = "insert" /\ health'.version = 1
             /\ ~restarted' => ~restarted /\ health.version = 0
    <3>1. FlipInv'
      BY <1>0, <2>1, <2>2, <2>5 DEF FlipInv
    <3>2. Flips
      BY <1>0, <2>1, <2>2, <2>5 DEF FlipInv
    <3> QED
      BY <3>1, <3>2
  <2> QED
    BY <2>1, <2>3, <2>4, <2>5
<1>4. ASSUME NEW r \in Pollers, ListActiveSessions(r) PROVE FlipInv' /\ Flips
  <2>1. PICK q \in Polls : /\ Moves(r, q) /\ q.todo = Listed(r)
                           /\ q.pc = "emit" \/ (q.pc = "idle" /\ Listed(r) = {})
    BY <1>4, ListMoves
  <2>2. UNCHANGED <<health, restarted>>
    BY <1>4 DEF ListActiveSessions
  <2> QED
    BY <2>1, <2>2, FlipKept, MovesOne
<1>5. ASSUME NEW r \in Pollers, NEW s \in Clients, EmitForSession(r, s) \/ EmitFails(r, s)
      PROVE FlipInv' /\ Flips
  <2>1. UNCHANGED <<health, restarted>> /\ poll' = Passed(r, s)
    BY <1>5 DEF EmitForSession, EmitFails
  <2>2. PICK q \in Polls : /\ Moves(r, q) /\ q.todo = poll[r].todo \ {s}
                           /\ q.pc = poll[r].pc \/ (q.pc = "idle" /\ q.todo = {})
    BY <2>1, PassMoves
  <2>3. poll'[r] = q /\ \A p \in Pollers \ {r} : poll'[p] = poll[p]
    BY <2>2, MovesOne
  <2>4. q.pc = "write" => q.want = poll[r].want /\ q.seen = poll[r].seen
    BY <1>0, <2>1, <2>3 DEF Passed, NoPoll, Polls
  <2>5. FlipInv'
    BY <2>1, <2>2, <2>4, FlipKept
  <2> QED
    BY <2>2, <2>3, <2>5
<1>6. ASSUME NEW r \in Pollers, PollEnds(r) PROVE FlipInv' /\ Flips
  <2>1. NoPoll \in Polls /\ NoPoll.pc = "idle"
    BY DEF NoPoll, Polls, Statuses
  <2>2. UNCHANGED <<health, restarted>> /\ Moves(r, NoPoll)
    BY <1>6, <2>1 DEF PollEnds, Moves
  <2> QED
    BY <2>1, <2>2, FlipKept, MovesOne
<1>7. ASSUME UNCHANGED <<health, restarted, poll>> PROVE FlipInv' /\ Flips
  BY <1>7 DEF FlipInv
<1>8. ASSUME NEW s \in Clients,
             \/ CreateClient(s) \/ SpawnClient(s) \/ CurrentHealth(s) \/ BackfillBanner(s)
             \/ BackfillFails(s) \/ DeleteClient(s) \/ Reproject(s)
      PROVE UNCHANGED <<health, restarted, poll>>
  BY <1>8 DEF CreateClient, SpawnClient, CurrentHealth, BackfillBanner, BackfillFails,
              DeleteClient, Reproject
<1>9. ProxyChanges => UNCHANGED <<health, restarted, poll>>
  BY DEF ProxyChanges
<1> HIDE DEF Flips
<1>10. FlipInv' /\ Flips
  BY <1>1, <1>2, <1>3, <1>4, <1>5, <1>6, <1>7, <1>8, <1>9 DEF HealthNext, PollStep
<1> QED
  BY <1>10 DEF Flips

\* Of any number of pollers that saw the same transition one wins it: a write over a row
\* that was read changes its status, as long as no two first writes have met
\* (UpsertTransition of pgstore compares the row's version under its lock).
THEOREM WinnersFlipTheRow == HealthSpec => WinnersFlip
<1>1. HealthInit => HealthTypeOK /\ FlipInv
  BY HealthStart DEF HealthInit, NoPoll, FlipInv
<1>2. HealthTypeOK /\ FlipInv /\ [HealthNext]_hvars
        => /\ (HealthTypeOK /\ FlipInv)'
           /\ [\A r \in Pollers :
                 (~restarted /\ poll[r].pc = "write" /\ poll'[r].pc = "list" /\ poll[r].seen > 0)
                    => health'.status # health.status]_hvars
  <2> SUFFICES ASSUME HealthTypeOK, FlipInv, [HealthNext]_hvars
               PROVE  /\ (HealthTypeOK /\ FlipInv)'
                      /\ [\A r \in Pollers :
                            (~restarted /\ poll[r].pc = "write" /\ poll'[r].pc = "list"
                               /\ poll[r].seen > 0)
                               => health'.status # health.status]_hvars
    OBVIOUS
  <2>1. CASE HealthNext
    BY <2>1, HealthTypeStep, FlipStep
  <2>2. CASE UNCHANGED hvars
    BY <2>2 DEF hvars, HealthTypeOK, FlipInv
  <2> QED
    BY <2>1, <2>2
<1> QED
  BY <1>1, <1>2, PTL DEF HealthSpec, WinnersFlip

HIDE HealthAssumption DEF HealthAssumption

-----------------------------------------------------------------------------
(* Turn numbers: the number is the counter, read under a lock that lasts to *)
(* the commit, so the number a writer holds is still the counter, and the   *)
(* counter is above every number given out.                                 *)

\* What a writer knows of the turn of its event, by its place in the trigger.
WriterInv(w) ==
  /\ tx[w].pc # "idle" => tx[w].key \in Keys
  /\ tx[w].pc \in {"found", "lowered", "burnt"} => Numbered(Turn(w))
  /\ tx[w].pc \in {"found", "lowered", "counting", "counted", "numbered", "burnt"} => Turn(w) \notin WakeTurns
  /\ tx[w].pc = "numbered" => ~Numbered(Turn(w))
  /\ tx[w].pc = "done" /\ Turn(w) \notin WakeTurns =>
       Numbered(Turn(w)) /\ firstKey[Turn(w)] <= tx[w].key
  /\ tx[w].pc = "lowered" => tx[w].key < firstKey[Turn(w)]
  /\ CountsNow(w) => tx[w].got = counter

\* The two row locks.
LockInv ==
  \A v, w \in Writers :
    /\ CountsNow(v) /\ CountsNow(w) => v = w
    /\ tx[v].pc = "lowered" /\ tx[w].pc = "lowered" /\ Turn(v) = Turn(w) => v = w

\* The inductive invariant.
NumbersInv ==
  /\ TurnsTypeOK
  /\ OneTurnPerNumber /\ PersistedIsNumbered /\ FirstKeyIsEarliest
  /\ \A w \in Writers : WriterInv(w)
  /\ LockInv

\* Order keys are numbers.
LEMMA KeysAreNat == Keys \cup {0} \subseteq Nat /\ Keys \subseteq Nat
BY KeyAssumption

\* The backfill numbers the turns it finds, each with a number of its own.
LEMMA NumbersStart == TurnsInit => NumbersInv
<1> SUFFICES ASSUME TurnsInit PROVE NumbersInv
  OBVIOUS
<1> USE KeysAreNat, TurnAssumption DEF TurnAssumption
<1>1. Cardinality(Turns) \in Nat
  BY FS_CardinalityType
<1>2. TurnsTypeOK
  BY <1>1 DEF TurnsInit, TurnsTypeOK, PrimeCounter, NoTx, TxPhases
<1>3. OneTurnPerNumber
  <2> SUFFICES ASSUME NEW t \in Turns, NEW u \in Turns, Numbered(t), number[t] = number[u]
               PROVE  t = u
    BY DEF OneTurnPerNumber
  <2>1. IsEarliest(firstKey[t], KeysOf(t, events)) /\ IsEarliest(firstKey[u], KeysOf(u, events))
    BY DEF TurnsInit, BackfillKeys, BackfillNumbers, Numbered
  <2>2. ~(firstKey[t] < firstKey[u]) /\ ~(firstKey[u] < firstKey[t])
    BY <1>2 DEF TurnsInit, BackfillNumbers, Numbered, TurnsTypeOK
  <2>3. firstKey[t] \in Nat /\ firstKey[u] \in Nat
    BY <1>2 DEF TurnsTypeOK
  <2>4. firstKey[t] = firstKey[u]
    BY <2>2, <2>3
  <2> QED
    BY <2>1, <2>4 DEF IsEarliest, KeysOf
<1>4. PersistedIsNumbered
  BY DEF TurnsInit, BackfillNumbers, PersistedIsNumbered, Numbered, KeysOf
<1>5. FirstKeyIsEarliest
  BY DEF TurnsInit, BackfillKeys, BackfillNumbers, FirstKeyIsEarliest, Numbered
<1>6. (\A w \in Writers : WriterInv(w)) /\ LockInv
  BY DEF TurnsInit, WriterInv, LockInv, NoTx, CountsNow
<1> QED
  BY <1>2, <1>3, <1>4, <1>5, <1>6 DEF NumbersInv

\* A step that changes only what one writer is doing disturbs no table.
LEMMA TablesKept ==
  ASSUME NumbersInv, UNCHANGED <<events, number, firstKey, counter, lost>>,
         tx' \in [Writers -> [pc : TxPhases, key : Keys \cup {0}, got : Nat]]
  PROVE  TurnsTypeOK' /\ OneTurnPerNumber' /\ PersistedIsNumbered' /\ FirstKeyIsEarliest'
BY DEF NumbersInv, TurnsTypeOK, OneTurnPerNumber, PersistedIsNumbered, FirstKeyIsEarliest, Numbered

\* Every step of a writer but its commit keeps the invariant.
LEMMA WriterStep ==
  ASSUME NumbersInv, NEW w \in Writers,
         \/ \E k \in Keys : StoreEvent(w, k)
         \/ LookUpTurn(w) \/ LowerFirstKey(w) \/ TakeNumber(w) \/ NumberTurn(w) \/ Rollback(w)
  PROVE  NumbersInv'
<1> USE KeysAreNat, TurnAssumption DEF TurnAssumption
<1>0. /\ tx \in [Writers -> [pc : TxPhases, key : Keys \cup {0}, got : Nat]]
      /\ counter \in Nat /\ firstKey \in [Turns -> Nat] /\ number \in [Turns -> Nat]
  BY DEF NumbersInv, TurnsTypeOK
<1>1. UNCHANGED <<events, number, firstKey, counter, lost>>
  BY DEF StoreEvent, LookUpTurn, LowerFirstKey, TakeNumber, NumberTurn, Rollback
<1>2. tx' \in [Writers -> [pc : TxPhases, key : Keys \cup {0}, got : Nat]]
  BY <1>0 DEF StoreEvent, LookUpTurn, LowerFirstKey, TakeNumber, NumberTurn, Rollback,
              Continue, NoTx, TxPhases
<1>3. \A v \in Writers : v # w => tx'[v] = tx[v]
  BY <1>0 DEF StoreEvent, LookUpTurn, LowerFirstKey, TakeNumber, NumberTurn, Rollback, Continue
<1>4. \A v \in Writers : v # w => WriterInv(v)'
  BY <1>0, <1>1, <1>2, <1>3 DEF NumbersInv, WriterInv, Turn, Numbered, CountsNow
<1>5. WriterInv(w)' /\ LockInv'
  <2>1. CASE \E k \in Keys : StoreEvent(w, k)
    BY <2>1, <1>0, <1>1, <1>3
    DEF StoreEvent, NumbersInv, WriterInv, LockInv, Turn, Numbered, CountsNow
  <2>2. CASE LookUpTurn(w)
    BY <2>2, <1>0, <1>1, <1>3
    DEF LookUpTurn, Continue, NumbersInv, WriterInv, LockInv, Turn, Numbered, CountsNow, TxPhases
  <2>3. CASE LowerFirstKey(w)
    BY <2>3, <1>0, <1>1, <1>3
    DEF LowerFirstKey, Continue, NumbersInv, WriterInv, LockInv, Turn, Numbered, CountsNow, TxPhases
  <2>4. CASE TakeNumber(w)
    BY <2>4, <1>0, <1>1, <1>3
    DEF TakeNumber, NumbersInv, WriterInv, LockInv, Turn, Numbered, CountsNow, TxPhases
  <2>5. CASE NumberTurn(w)
    <3>1. tx[w].got = counter /\ ~NumberThere(w)
      BY <2>5, <1>0
      DEF NumberTurn, NumbersInv, WriterInv, CountsNow, NumberThere, TurnsTypeOK, Numbered
    <3> QED
      BY <3>1, <2>5, <1>0, <1>1, <1>3
      DEF NumberTurn, Continue, RowThere, NumbersInv, WriterInv, LockInv, Turn, Numbered,
         CountsNow, TxPhases
  <2>6. CASE Rollback(w)
    BY <2>6, <1>0, <1>1, <1>3
    DEF Rollback, NoTx, NumbersInv, WriterInv, LockInv, Turn, Numbered, CountsNow
  <2> QED
    BY <2>1, <2>2, <2>3, <2>4, <2>5, <2>6
<1> QED
  BY <1>1, <1>2, <1>4, <1>5, TablesKept DEF NumbersInv

\* What a commit does to the tables: at most one turn gets a number, the
\* counter's, and at most one first key changes, to the event's.
LEMMA CommitEffect ==
  ASSUME NumbersInv, NEW w \in Writers, Commit(w)
  PROVE  /\ tx[w].key \in Keys /\ Turn(w) \in Turns
         /\ tx[w].pc = "numbered" =>
              /\ ~Numbered(Turn(w)) /\ Turn(w) \notin WakeTurns
              /\ \A t \in Turns : number[t] < counter
              /\ number' = [number EXCEPT ![Turn(w)] = counter]
              /\ firstKey' = [firstKey EXCEPT ![Turn(w)] = tx[w].key]
              /\ counter' = counter + 1
         /\ tx[w].pc # "numbered" =>
              number' = number /\ (Turn(w) \in WakeTurns \/ Numbered(Turn(w)))
         /\ tx[w].pc = "lowered" => firstKey' = [firstKey EXCEPT ![Turn(w)] = tx[w].key]
         /\ tx[w].pc \in {"done", "burnt"} => firstKey' = firstKey
         /\ tx[w].pc = "burnt" => counter' = counter + 1
         /\ tx[w].pc \in {"done", "lowered"} => counter' = counter
<1> USE KeysAreNat, TurnAssumption DEF TurnAssumption
<1>1. tx[w].key \in Keys /\ Turn(w) \in Turns
  BY DEF Commit, NumbersInv, WriterInv, Turn
<1>2. CountsNow(w) => tx[w].got = counter
  BY DEF NumbersInv, WriterInv
<1> QED
  BY <1>1, <1>2
  DEF Commit, NumbersInv, TurnsTypeOK, WriterInv, NewNumber, NewFirstKey, NewCounter, CountsNow

\* The commit keeps the invariant.
LEMMA CommitStep ==
  ASSUME NumbersInv, NEW w \in Writers, Commit(w)
  PROVE  NumbersInv'
<1> USE KeysAreNat, TurnAssumption DEF TurnAssumption
<1>0. /\ tx \in [Writers -> [pc : TxPhases, key : Keys \cup {0}, got : Nat]]
      /\ counter \in Nat \ {0} /\ number \in [Turns -> Nat]
      /\ firstKey \in [Turns -> Keys \cup {0}] /\ firstKey \in [Turns -> Nat]
      /\ \A t \in Turns : number[t] < counter
  BY DEF NumbersInv, TurnsTypeOK
<1>1. /\ tx[w].pc \in {"done", "lowered", "numbered", "burnt"}
      /\ events' = events \cup {tx[w].key} /\ tx' = [tx EXCEPT ![w] = NoTx]
      /\ lost' = IF tx[w].pc = "burnt" THEN lost \cup {Turn(w)} ELSE lost
  BY DEF Commit
<1>2. /\ tx[w].key \in Keys /\ Turn(w) \in Turns
      /\ tx[w].pc = "numbered" =>
           /\ ~Numbered(Turn(w)) /\ Turn(w) \notin WakeTurns
           /\ number' = [number EXCEPT ![Turn(w)] = counter]
           /\ firstKey' = [firstKey EXCEPT ![Turn(w)] = tx[w].key]
           /\ counter' = counter + 1
      /\ tx[w].pc # "numbered" =>
           number' = number /\ (Turn(w) \in WakeTurns \/ Numbered(Turn(w)))
      /\ tx[w].pc = "lowered" => firstKey' = [firstKey EXCEPT ![Turn(w)] = tx[w].key]
      /\ tx[w].pc \in {"done", "burnt"} => firstKey' = firstKey
      /\ tx[w].pc = "burnt" => counter' = counter + 1
      /\ tx[w].pc \in {"done", "lowered"} => counter' = counter
  BY CommitEffect
<1>3. TurnsTypeOK'
  <2>1. events' \subseteq Keys /\ lost' \subseteq Turns
    BY <1>1, <1>2 DEF NumbersInv, TurnsTypeOK
  <2>2. tx' \in [Writers -> [pc : TxPhases, key : Keys \cup {0}, got : Nat]]
    BY <1>0, <1>1 DEF NoTx, TxPhases
  <2>3. firstKey' \in [Turns -> Keys \cup {0}]
    BY <1>0, <1>1, <1>2
  <2>4. /\ counter' \in Nat \ {0} /\ number' \in [Turns -> Nat]
        /\ \A t \in Turns : number'[t] < counter'
    BY <1>0, <1>1, <1>2
  <2> QED
    BY <2>1, <2>2, <2>3, <2>4 DEF TurnsTypeOK
<1>4. OneTurnPerNumber'
  BY <1>0, <1>1, <1>2 DEF NumbersInv, OneTurnPerNumber, Numbered
<1>5. PersistedIsNumbered'
  BY <1>0, <1>1, <1>2 DEF NumbersInv, PersistedIsNumbered, Numbered, Turn, TurnsTypeOK
<1>6. FirstKeyIsEarliest'
  <2> SUFFICES ASSUME NEW t \in Turns, t \notin WakeTurns, t \notin lost', Numbered(t)'
               PROVE  IsEarliest(firstKey'[t], KeysOf(t, events'))
    BY DEF FirstKeyIsEarliest
  <2>1. t \notin lost
    BY <1>1
  <2>2. CASE t # Turn(w)
    <3>1. KeysOf(t, events') = KeysOf(t, events) /\ firstKey'[t] = firstKey[t] /\ Numbered(t)
      BY <1>0, <1>1, <1>2, <2>2 DEF KeysOf, Turn, Numbered
    <3> QED
      BY <3>1, <2>1 DEF NumbersInv, FirstKeyIsEarliest
  <2>3. CASE t = Turn(w)
    <3>1. KeysOf(t, events') = KeysOf(t, events) \cup {tx[w].key}
      BY <1>1, <1>2, <2>3 DEF KeysOf, Turn
    <3>2. tx[w].pc # "burnt"
      BY <1>1, <2>3
    <3>3. CASE tx[w].pc = "numbered"
      <4>1. KeysOf(t, events) = {}
        BY <1>2, <2>3, <3>3 DEF NumbersInv, PersistedIsNumbered, KeysOf
      <4>2. firstKey'[t] = tx[w].key
        BY <3>3, <1>0, <1>2, <2>3
      <4>3. tx[w].key \in Nat
        BY <1>2
      <4> QED
        BY <4>1, <4>2, <4>3, <3>1 DEF IsEarliest
    <3>4. CASE tx[w].pc \in {"done", "lowered"}
      <4>1. Numbered(t) /\ IsEarliest(firstKey[t], KeysOf(t, events))
        BY <3>4, <2>1, <1>2 DEF NumbersInv, FirstKeyIsEarliest, Numbered
      <4>2. IF tx[w].pc = "done" THEN firstKey'[t] = firstKey[t] /\ firstKey[t] <= tx[w].key
            ELSE firstKey'[t] = tx[w].key /\ tx[w].key < firstKey[t]
        BY <3>4, <2>3, <1>0, <1>2 DEF NumbersInv, WriterInv
      <4>3. KeysOf(t, events) \subseteq Nat /\ firstKey[t] \in Nat /\ tx[w].key \in Nat
        BY <1>0, <1>2 DEF KeysOf, NumbersInv, TurnsTypeOK
      <4> QED
        BY <4>1, <4>2, <4>3, <3>1 DEF IsEarliest
    <3> QED
      BY <3>2, <3>3, <3>4, <1>1
  <2> QED
    BY <2>2, <2>3
<1>7. ASSUME NEW v \in Writers PROVE WriterInv(v)'
  <2>1. CASE v = w
    BY <2>1, <1>0, <1>1 DEF WriterInv, NoTx, CountsNow
  <2>2. CASE v # w
    <3>1. tx'[v] = tx[v] /\ Turn(v)' = Turn(v)
      BY <2>2, <1>0, <1>1 DEF Turn
    <3>2. WriterInv(v) /\ LockInv
      BY DEF NumbersInv
    <3>3. CASE tx[w].pc = "numbered"
      <4>1. ~CountsNow(v)
        BY <2>2, <3>2, <3>3 DEF LockInv, CountsNow
      <4>2. tx[v].pc # "idle" => Turn(v) \in Turns
        BY <3>2 DEF WriterInv, Turn
      <4> QED
        BY <4>1, <4>2, <3>1, <3>2, <3>3, <1>0, <1>2 DEF WriterInv, CountsNow, Numbered
    <3>4. CASE tx[w].pc = "lowered"
      <4>1. tx[v].pc # "idle" => Turn(v) \in Turns
        BY <3>2 DEF WriterInv, Turn
      <4>2. tx[w].key < firstKey[Turn(w)]
        BY <3>4 DEF NumbersInv, WriterInv
      <4>3. ~(tx[v].pc = "lowered" /\ Turn(v) = Turn(w))
        BY <2>2, <3>2, <3>4 DEF LockInv
      <4>0. tx[w].key \in Nat /\ firstKey' = [firstKey EXCEPT ![Turn(w)] = tx[w].key]
        BY <3>4, <1>2
      <4>4. \A t \in Turns : firstKey'[t] <= firstKey[t] /\ (t # Turn(w) => firstKey'[t] = firstKey[t])
        BY <4>0, <4>2, <1>0, <1>2
      <4>5. tx[v].pc # "idle" => tx[v].key \in Nat /\ firstKey[Turn(v)] \in Nat /\ firstKey'[Turn(v)] \in Nat
        <5>1. tx[w].key \in Nat /\ (tx[v].pc # "idle" => tx[v].key \in Nat)
          BY <3>2, <1>2 DEF WriterInv
        <5>2. firstKey' \in [Turns -> Nat]
          BY <4>0, <1>0, <1>2
        <5> QED
          BY <5>1, <5>2, <4>1, <1>0
      <4>6. number' = number /\ counter' = counter
        BY <3>4, <1>2
      <4> QED
        BY <4>1, <4>3, <4>4, <4>5, <4>6, <3>1, <3>2 DEF WriterInv, CountsNow, Numbered
    <3>5. CASE tx[w].pc = "burnt"
      <4>1. ~CountsNow(v)
        BY <2>2, <3>2, <3>5 DEF LockInv, CountsNow
      <4> QED
        BY <4>1, <3>1, <3>2, <3>5, <1>2 DEF WriterInv, CountsNow, Numbered
    <3>6. CASE tx[w].pc = "done"
      BY <3>1, <3>2, <3>6, <1>2 DEF WriterInv, CountsNow, Numbered
    <3> QED
      BY <3>3, <3>4, <3>5, <3>6, <1>1
  <2> QED
    BY <2>1, <2>2
<1>8. LockInv'
  BY <1>0, <1>1 DEF NumbersInv, LockInv, CountsNow, Turn, NoTx
<1> QED
  BY <1>3, <1>4, <1>5, <1>6, <1>7, <1>8 DEF NumbersInv

LEMMA NumbersStep == NumbersInv /\ [TurnsNext]_tvars => NumbersInv'
<1> SUFFICES ASSUME NumbersInv, [TurnsNext]_tvars PROVE NumbersInv'
  OBVIOUS
<1>1. CASE TurnsNext
  BY <1>1, WriterStep, CommitStep DEF TurnsNext
<1>2. CASE UNCHANGED tvars
  BY <1>2
  DEF tvars, NumbersInv, TurnsTypeOK, OneTurnPerNumber, PersistedIsNumbered, FirstKeyIsEarliest,
              WriterInv, LockInv, Turn, Numbered, CountsNow
<1> QED
  BY <1>1, <1>2

\* The invariant holds of every behaviour of the allocator.
LEMMA NumbersInvariance == TurnsSpec => []NumbersInv
BY NumbersStart, NumbersStep, PTL DEF TurnsSpec

\* Types, and a counter above every number given out (tank_allocate_session_turn_number).
THEOREM TurnsTypeCorrect == TurnsSpec => []TurnsTypeOK
<1>1. NumbersInv => TurnsTypeOK
  BY DEF NumbersInv
<1> QED
  BY <1>1, NumbersInvariance, PTL

\* ResolveTurnNumber leads to one turn, whichever writers store first events together.
THEOREM NumbersAreUnique == TurnsSpec => []OneTurnPerNumber
<1>1. NumbersInv => OneTurnPerNumber
  BY DEF NumbersInv
<1> QED
  BY <1>1, NumbersInvariance, PTL

\* Every stored turn that is not a wake is numbered: the exception handler of the
\* allocator is never needed.
THEOREM StoredTurnsAreNumbered == TurnsSpec => []PersistedIsNumbered
<1>1. NumbersInv => PersistedIsNumbered
  BY DEF NumbersInv
<1> QED
  BY <1>1, NumbersInvariance, PTL

\* first_order_key is the earliest of the turn's events, unless one burnt a number.
THEOREM FirstKeysAreEarliest == TurnsSpec => []FirstKeyIsEarliest
<1>1. NumbersInv => FirstKeyIsEarliest
  BY DEF NumbersInv
<1> QED
  BY <1>1, NumbersInvariance, PTL

\* The numbering is sound for any number of concurrent writers, from any ledger the
\* backfill numbered (tank_allocate_session_turn_number).
THEOREM NumbersAreSafe == TurnsSpec => []NumbersSafe
<1>1. TurnsTypeOK /\ OneTurnPerNumber /\ PersistedIsNumbered /\ FirstKeyIsEarliest => NumbersSafe
  BY DEF NumbersSafe
<1> QED
  BY <1>1, TurnsTypeCorrect, NumbersAreUnique, StoredTurnsAreNumbered, FirstKeysAreEarliest, PTL

\* A number once given stays, a new one is larger than all before it, and wakes get none.
THEOREM NumbersAreStable == TurnsSpec => NumbersGrow
<1>1. ASSUME NumbersInv, TurnsNext PROVE NumbersOnlyGrow
  <2> SUFFICES ASSUME NEW t \in Turns, number'[t] # number[t]
               PROVE  ~Numbered(t) /\ t \notin WakeTurns /\ \A u \in Turns : number[u] < number'[t]
    BY DEF NumbersOnlyGrow
  <2>1. PICK w \in Writers : Commit(w)
    BY <1>1 DEF TurnsNext, StoreEvent, LookUpTurn, LowerFirstKey, TakeNumber, NumberTurn, Rollback
  <2>2. /\ tx[w].pc = "numbered" =>
             /\ ~Numbered(Turn(w)) /\ Turn(w) \notin WakeTurns
             /\ \A u \in Turns : number[u] < counter
             /\ number' = [number EXCEPT ![Turn(w)] = counter]
        /\ tx[w].pc # "numbered" => number' = number
    BY <1>1, <2>1, CommitEffect
  <2> QED
    BY <1>1, <2>2 DEF NumbersInv, TurnsTypeOK
<1>2. NumbersInv /\ [TurnsNext]_tvars => [NumbersOnlyGrow]_tvars
  BY <1>1
<1> QED
  BY <1>2, NumbersInvariance, PTL DEF TurnsSpec, NumbersGrow

-----------------------------------------------------------------------------
(* Avatars                                                                 *)

\* The states of a cycle, an administrator's request and a draw.
Entries == [left : SUBSET Avatars, used : SUBSET Avatars]
Places == {"idle", "put", "backing", "row", "erase", "commit", "clean"}
Edits == [op : {"none", "create", "update", "kind", "delete", "seed"},
          avatar : Avatars \union {NoAvatar}, pc : Places, kind : AvatarKinds, erase : Nat]
Draws == [pc : {"idle", "look", "list", "pick", "commit"}, kind : AvatarKinds,
          pool : [AvatarKinds -> SUBSET Avatars],
          took : [AvatarKinds -> Avatars \union {NoAvatar}]]

\* The variables in their types, by who writes them.
AssetTypes ==
  /\ asset \in [Avatars -> AvatarKinds \union {"none", "deleted"}]
  /\ blob \in [Avatars -> SUBSET Variants]
  /\ edit \in [Admins -> Edits]

CardTypes ==
  /\ deck \in [AvatarKinds -> Seq(Entries)]
  /\ \A k \in AvatarKinds : \A c \in DOMAIN deck[k] : deck[k][c].left \intersect deck[k][c].used = {}
  /\ draw \in Draws
  /\ times \in [AvatarKinds -> [Avatars -> Nat]]

Counters == draws \in 0..MaxDraws /\ edits \in 0..MaxEdits /\ mishaps \in 0..MaxMishaps

\* The places of a request that holds the row lock, and of one that puts images.
OnLock == {"erase", "commit"}
OnImages == {"put", "backing", "row"}

\* What the place of a request says of its avatar's row: under the lock the row
\* keeps the kind that was read, a delete has marked it, a create has it to make,
\* and every other request finds it there.
EditOK(e, assets) ==
  /\ e.pc # "idle" => e.avatar \in Avatars
  /\ e.pc = "idle" => e = NoEdit
  /\ e.pc \in OnLock => e.op = "kind" /\ assets[e.avatar] = e.kind
  /\ e.pc = "clean" => e.op = "delete" /\ assets[e.avatar] = "deleted"
  /\ e.op = "create" => e.pc \in OnImages /\ assets[e.avatar] = "none"
  /\ e.pc \in OnImages /\ e.op # "create" => e.op # "delete" /\ assets[e.avatar] # "none"
  /\ e.pc = "backing" => e.op = "create"
  /\ e.op = "delete" => e.pc = "clean"

\* Two requests on one avatar: neither is a create, and one at most holds the
\* row lock.
Apart(e, f) ==
  e.avatar = f.avatar =>
    e.op # "create" /\ f.op # "create" /\ ~(e.pc \in OnLock /\ f.pc \in OnLock)

\* So it is with every request and every two; the defaults have their rows.
EditOrder ==
  /\ \A q \in Admins : EditOK(edit[q], asset)
  /\ \A q, p \in Admins : q # p => Apart(edit[q], edit[p])
  /\ \A a \in Defaults : asset[a] # "none"

\* The images a create has put by now.
Made(e, images) ==
  /\ e.pc = "backing" => "avatar" \in images
  /\ e.op = "create" /\ e.pc = "row" => images = Variants

\* The images of an avatar follow its row, or the request that makes or removes
\* them is under way.
Kept(a) ==
  /\ Live(a) => blob[a] = Variants
  /\ asset[a] = "deleted" =>
       blob[a] = {} \/ \E q \in Admins : edit[q].avatar = a /\ edit[q].op = "delete"
  /\ asset[a] = "none" =>
       blob[a] = {} \/ \E q \in Admins : edit[q].avatar = a /\ edit[q].op = "create"

\* So it is with every avatar that no failure has left adrift.
ImageInv ==
  /\ \A q \in Admins : edit[q].pc # "idle" => Made(edit[q], blob[edit[q].avatar])
  /\ \A a \in Avatars : a \in adrift \/ Kept(a)

\* All of these avatars are deleted; the last cycle of a deck.
Gone(S) == \A a \in S : asset[a] = "deleted"
Newest(k) == deck[k][Len(deck[k])]

\* Every cycle of a deck keeps an entry: a used one, or unused ones of avatars
\* that are deleted, which no change of kind erases.  So the last cycle is the
\* newest, an avatar was drawn at most once in each, and one still waiting in the
\* last cycle was not drawn in it.
CycleInv ==
  \A k \in AvatarKinds :
    /\ \A c \in DOMAIN deck[k] :
         deck[k][c].used # {} \/ (deck[k][c].left # {} /\ Gone(deck[k][c].left))
    /\ \A a \in Avatars :
         /\ times[k][a] <= Len(deck[k])
         /\ deck[k] # <<>> /\ a \in Newest(k).left => times[k][a] < Len(deck[k])

\* The open draw is past this deck.
Picked(k) == draw.pc = "commit" \/ (draw.kind = "system" /\ k = "agent")

\* The open draw holds of a deck it is past an entry that still waits in the last
\* cycle and that no change of kind has deleted, an avatar it listed, or nothing
\* because all it listed are deleted; of the others it holds nothing.
DrawInv ==
  /\ draw.pc = "idle" => draw = NoDraw
  /\ \A k \in AvatarKinds :
    /\ \A a \in draw.pool[k] : asset[a] # "none"
    /\ ~Picked(k) => draw.took[k] = NoAvatar
    /\ ~Picked(k) /\ (draw.pc # "pick" \/ k # draw.kind) => draw.pool[k] = {}
    /\ draw.took[k] # NoAvatar /\ draw.pool[k] # {} => draw.took[k] \in draw.pool[k]
    /\ Picked(k) /\ draw.took[k] = NoAvatar => Gone(draw.pool[k])
    /\ draw.took[k] # NoAvatar /\ draw.pool[k] = {} =>
         /\ deck[k] # <<>> /\ draw.took[k] \in Newest(k).left
         /\ \A q \in Admins : edit[q].pc = "commit" /\ edit[q].kind = k => edit[q].avatar # draw.took[k]

\* The inductive invariant.
DeckInv ==
  /\ AssetTypes /\ CardTypes /\ Counters
  /\ EditOrder /\ ImageInv /\ CycleInv /\ DrawInv /\ DeckKind

\* The fields of no request.
LEMMA NoEditFacts ==
  /\ NoEdit \in Edits /\ NoEdit.op = "none" /\ NoEdit.avatar = NoAvatar
  /\ NoEdit.pc = "idle" /\ NoEdit.kind = "agent" /\ NoAvatar \notin Avatars
  BY AvatarAssumption DEF NoEdit, Edits, Places, AvatarKinds

\* A step that puts e in the place of the request of q.
Revises(q, e) == e \in Edits /\ edit' = [edit EXCEPT ![q] = e]

\* Such a step, with the rows it leaves, in keeping with EditOrder.
EditMoves(q, e) ==
  /\ Revises(q, e)
  /\ asset' \in [Avatars -> AvatarKinds \union {"none", "deleted"}]
  /\ EditOK(e, asset')
  /\ \A p \in Admins \ {q} : Apart(e, edit[p]) /\ EditOK(edit[p], asset')
  /\ \A a \in Defaults : asset'[a] # "none"

\* It keeps the requests apart.
LEMMA EditKeeps ==
  ASSUME AssetTypes, EditOrder, NEW q \in Admins, NEW e, EditMoves(q, e)
  PROVE  /\ EditOrder' /\ edit' \in [Admins -> Edits] /\ edit'[q] = e
         /\ \A p \in Admins \ {q} : edit'[p] = edit[p]
<1>1. e \in Edits /\ edit' = [edit EXCEPT ![q] = e] /\ edit \in [Admins -> Edits]
  BY DEF EditMoves, Revises, AssetTypes
<1>2. edit' \in [Admins -> Edits] /\ edit'[q] = e /\ \A p \in Admins \ {q} : edit'[p] = edit[p]
  BY <1>1
<1>3. \A p \in Admins : EditOK(edit[p], asset)'
  BY <1>2 DEF EditMoves
<1>4. \A p, r \in Admins : p # r => Apart(edit'[p], edit'[r])
  BY <1>2 DEF EditMoves, EditOrder, Apart
<1>5. \A a \in Defaults : asset'[a] # "none"
  BY DEF EditMoves
<1> QED
  BY <1>2, <1>3, <1>4, <1>5 DEF EditOrder

\* A request is under way on avatars that exist, and its end leaves the others alone.
LEMMA EndMoves ==
  ASSUME AssetTypes, EditOrder, NEW q \in Admins, End(q),
         asset' \in [Avatars -> AvatarKinds \union {"none", "deleted"}],
         \A p \in Admins \ {q} : EditOK(edit[p], asset'), \A a \in Defaults : asset'[a] # "none"
  PROVE  EditMoves(q, NoEdit)
<1>1. EditOK(NoEdit, asset')
  BY NoEditFacts DEF EditOK, OnLock, OnImages
<1>2. \A p \in Admins \ {q} : Apart(NoEdit, edit[p])
  <2> SUFFICES ASSUME NEW p \in Admins \ {q}, edit[p].avatar = NoAvatar PROVE Apart(NoEdit, edit[p])
    BY NoEditFacts DEF Apart
  <2>1. EditOK(edit[p], asset)
    BY DEF EditOrder
  <2>2. edit[p] = NoEdit
    BY <2>1, NoEditFacts DEF EditOK
  <2> QED
    BY <2>2, NoEditFacts DEF Apart, OnLock
<1> QED
  BY <1>1, <1>2, NoEditFacts DEF EditMoves, Revises, End

\* Rows only appear and are deleted.
Calm ==
  \A a \in Avatars : asset'[a] = asset[a] \/ asset[a] = "none" \/ asset'[a] = "deleted"

\* A request starts: a create on an avatar nobody knows, the others on a row that is there.
LEMMA StartMoves ==
  ASSUME AssetTypes, EditOrder, NEW q \in Admins, NEW a \in Avatars, UNCHANGED asset,
         NEW e \in Edits, Start(q, e), e.avatar = a, e.pc # "idle",
         \/ e.op = "create" /\ e.pc = "put" /\ asset[a] = "none" /\ \A p \in Admins : edit[p].avatar # a
         \/ e.op \in {"update", "seed"} /\ e.pc = "put" /\ asset[a] # "none"
         \/ e.op = "kind" /\ e.pc = "erase" /\ asset[a] = e.kind /\ Live(a) /\ ~Locked(a)
  PROVE  EditMoves(q, e)
<1>1. EditOK(e, asset)
  BY DEF EditOK, OnLock, OnImages
<1>2. \A p \in Admins : EditOK(edit[p], asset)
  BY DEF EditOrder
<1>3. ASSUME NEW p \in Admins \ {q} PROVE Apart(e, edit[p])
  <2> SUFFICES ASSUME edit[p].avatar = a PROVE Apart(e, edit[p])
    BY DEF Apart
  <2>1. EditOK(edit[p], asset)
    BY <1>2
  <2>2. e.op # "create" /\ asset[a] # "none"
    BY DEF Live, AvatarKinds
  <2>3. edit[p].op # "create"
    BY <2>1, <2>2 DEF EditOK
  <2>4. ~(e.pc \in OnLock /\ edit[p].pc \in OnLock)
    BY DEF Locked, OnLock
  <2> QED
    BY <2>2, <2>3, <2>4 DEF Apart
<1> QED
  BY <1>1, <1>2, <1>3 DEF EditMoves, Revises, Start, EditOrder, AssetTypes

\* So do the five requests.
LEMMA CreateAvatarMoves ==
  ASSUME AssetTypes, EditOrder, NEW q \in Admins, NEW a \in Avatars, NEW k \in AvatarKinds,
         CreateAvatar(q, a, k)
  PROVE  \E e : EditMoves(q, e) /\ e.avatar = a /\ e.op = "create" /\ e.pc = "put"
<1> DEFINE e == [NoEdit EXCEPT !.op = "create", !.avatar = a, !.pc = "put", !.kind = k]
<1>1. e \in Edits /\ e.op = "create" /\ e.avatar = a /\ e.pc = "put"
  BY DEF NoEdit, Edits, Places, AvatarKinds
<1>2. Start(q, e) /\ UNCHANGED asset /\ asset[a] = "none" /\ \A p \in Admins : edit[p].avatar # a
  BY DEF CreateAvatar
<1> HIDE DEF e
<1> QED
  BY <1>1, <1>2, StartMoves

LEMMA UpdateAvatarMoves ==
  ASSUME AssetTypes, EditOrder, NEW q \in Admins, NEW a \in Avatars,
         UpdateAvatar(q, a) \/ SeedDefault(q, a)
  PROVE  \E e : EditMoves(q, e) /\ e.avatar = a /\ e.op \in {"update", "seed"} /\ e.pc = "put"
<1> DEFINE e(o) == [NoEdit EXCEPT !.op = o, !.avatar = a, !.pc = "put"]
<1>1. \A o \in {"update", "seed"} : e(o) \in Edits /\ e(o).op = o /\ e(o).avatar = a /\ e(o).pc = "put"
  BY DEF NoEdit, Edits, Places, AvatarKinds
<1>2. asset[a] # "none" /\ UNCHANGED asset
  BY DEF UpdateAvatar, SeedDefault, Live, AvatarKinds, EditOrder
<1>3. PICK o \in {"update", "seed"} : Start(q, e(o))
  BY DEF UpdateAvatar, SeedDefault
<1> HIDE DEF e
<1> QED
  BY <1>1, <1>2, <1>3, StartMoves

LEMMA UpdateKindMoves ==
  ASSUME AssetTypes, EditOrder, NEW q \in Admins, NEW a \in Avatars, UpdateKind(q, a)
  PROVE  \E e : EditMoves(q, e) /\ e.avatar = a /\ e.op = "kind" /\ e.pc = "erase"
<1> DEFINE e == [NoEdit EXCEPT !.op = "kind", !.avatar = a, !.pc = "erase", !.kind = asset[a]]
<1>1. asset[a] \in AvatarKinds /\ Live(a) /\ ~Locked(a) /\ UNCHANGED asset /\ Start(q, e)
  BY DEF UpdateKind, Live
<1>2. e \in Edits /\ e.op = "kind" /\ e.avatar = a /\ e.pc = "erase" /\ e.kind = asset[a]
  BY <1>1 DEF NoEdit, Edits, Places
<1> HIDE DEF e
<1> QED
  BY <1>1, <1>2, StartMoves

LEMMA DeleteAvatarMoves ==
  ASSUME AssetTypes, EditOrder, NEW q \in Admins, NEW a \in Avatars, DeleteAvatar(q, a)
  PROVE  /\ \E e : EditMoves(q, e) /\ e.avatar = a /\ e.op = "delete" /\ e.pc = "clean"
         /\ Calm /\ asset'[a] = "deleted" /\ \A b \in Avatars \ {a} : asset'[b] = asset[b]
<1> DEFINE e == [NoEdit EXCEPT !.op = "delete", !.avatar = a, !.pc = "clean"]
<1>1. e \in Edits /\ e.op = "delete" /\ e.avatar = a /\ e.pc = "clean"
  BY DEF NoEdit, Edits, Places, AvatarKinds
<1>2. Revises(q, e)
  BY <1>1 DEF DeleteAvatar, Start, Revises
<1> HIDE DEF e
<1>3. /\ asset' \in [Avatars -> AvatarKinds \union {"none", "deleted"}] /\ asset'[a] = "deleted"
      /\ \A b \in Avatars \ {a} : asset'[b] = asset[b]
  BY DEF DeleteAvatar, AssetTypes
<1>4. asset[a] \in AvatarKinds /\ ~Locked(a)
  BY DEF DeleteAvatar, Live
<1>5. EditOK(e, asset')
  BY <1>1, <1>3 DEF EditOK, OnLock, OnImages
<1>6. ASSUME NEW p \in Admins \ {q} PROVE Apart(e, edit[p]) /\ EditOK(edit[p], asset')
  <2>1. EditOK(edit[p], asset)
    BY DEF EditOrder
  <2>2. CASE edit[p].avatar # a
    <3>1. edit[p].avatar \in Avatars \/ edit[p] = NoEdit
      BY <2>1 DEF EditOK
    <3>2. EditOK(edit[p], asset')
      BY <1>3, <2>1, <2>2, <3>1, NoEditFacts DEF EditOK, OnLock, OnImages
    <3> QED
      BY <1>1, <2>2, <3>2 DEF Apart
  <2>3. CASE edit[p].avatar = a
    <3>1. edit[p].pc \notin OnLock
      BY <1>4, <2>3 DEF Locked, OnLock
    <3>2. edit[p].op # "create" /\ edit[p].pc # "clean"
      BY <1>4, <2>1, <2>3 DEF EditOK, AvatarKinds
    <3>3. EditOK(edit[p], asset')
      BY <1>3, <2>1, <2>3, <3>1, <3>2 DEF EditOK
    <3> QED
      BY <1>1, <3>1, <3>2, <3>3 DEF Apart
  <2> QED
    BY <2>2, <2>3
<1>7. Calm /\ \A b \in Defaults : asset'[b] # "none"
  BY <1>3, AvatarAssumption DEF Calm, EditOrder
<1> QED
  BY <1>1, <1>2, <1>3, <1>5, <1>6, <1>7 DEF EditMoves

\* A step of a request that writes no row.
LEMMA StepMoves ==
  ASSUME AssetTypes, EditOrder, NEW q \in Admins, NEW e, Revises(q, e), UNCHANGED asset,
         e.avatar = edit[q].avatar, e.op = edit[q].op, EditOK(e, asset),
         e.pc \in OnLock => edit[q].pc \in OnLock
  PROVE  EditMoves(q, e)
<1>1. \A p \in Admins \ {q} : Apart(edit[q], edit[p]) /\ EditOK(edit[p], asset)
  BY DEF EditOrder
<1>2. \A p \in Admins \ {q} : Apart(e, edit[p])
  BY <1>1 DEF Apart
<1> QED
  BY <1>1, <1>2 DEF EditMoves, EditOrder, AssetTypes

\* The end of a request that wrote the row it had to itself.
LEMMA RowMoves ==
  ASSUME AssetTypes, EditOrder, NEW q \in Admins, End(q), NEW v \in AvatarKinds,
         edit[q].op = "create" \/ edit[q].pc \in OnLock,
         asset' = [asset EXCEPT ![edit[q].avatar] = v]
  PROVE  EditMoves(q, NoEdit)
<1> DEFINE a == edit[q].avatar
<1>1. EditOK(edit[q], asset)
  BY DEF EditOrder
<1>2. a \in Avatars
  BY <1>1 DEF EditOK, OnLock, OnImages
<1>3. /\ asset' \in [Avatars -> AvatarKinds \union {"none", "deleted"}] /\ asset'[a] = v
      /\ \A b \in Avatars \ {a} : asset'[b] = asset[b]
  BY <1>2 DEF AssetTypes
<1>4. ASSUME NEW p \in Admins \ {q} PROVE EditOK(edit[p], asset')
  <2>1. EditOK(edit[p], asset) /\ Apart(edit[q], edit[p])
    BY DEF EditOrder
  <2>2. edit[p].avatar \in Avatars \/ edit[p] = NoEdit
    BY <2>1 DEF EditOK
  <2>3. CASE edit[p].avatar # a
    BY <1>3, <2>1, <2>2, <2>3, NoEditFacts DEF EditOK, OnLock, OnImages
  <2>4. CASE edit[p].avatar = a
    <3>1. edit[q].pc \in OnLock /\ edit[p].pc \notin OnLock /\ edit[p].op # "create"
      BY <2>1, <2>4 DEF Apart
    <3>2. asset[a] \in AvatarKinds
      BY <1>1, <3>1 DEF EditOK, AssetTypes, Edits
    <3>3. edit[p].pc # "clean"
      BY <2>1, <2>4, <3>2 DEF EditOK, AvatarKinds
    <3> QED
      BY <1>3, <2>1, <2>4, <3>1, <3>3 DEF EditOK, AvatarKinds
  <2> QED
    BY <2>3, <2>4
<1>5. \A b \in Defaults : asset'[b] # "none"
  BY <1>3, AvatarAssumption DEF EditOrder, AvatarKinds
<1> QED
  BY <1>3, <1>4, <1>5, EndMoves

\* A Put moves the request on, and touches no row.
LEMMA PutImageMoves ==
  ASSUME AssetTypes, EditOrder, NEW q \in Admins, PutImage(q)
  PROVE  \E e : /\ EditMoves(q, e) /\ e.avatar = edit[q].avatar /\ e.op = edit[q].op
                /\ e.pc = IF edit[q].op = "create" /\ edit[q].pc = "put" THEN "backing" ELSE "row"
<1> DEFINE c == IF edit[q].op = "create" /\ edit[q].pc = "put" THEN "backing" ELSE "row"
           e == [edit[q] EXCEPT !.pc = c]
<1>1. edit[q] \in Edits /\ c \in Places /\ 0 \in Nat /\ edit \in [Admins -> Edits]
  BY DEF AssetTypes, Places
<1>2. EditOK(edit[q], asset)
  BY DEF EditOrder
<1>3. edit' = [edit EXCEPT ![q] = e] /\ UNCHANGED asset /\ edit[q].pc \in {"put", "backing"}
  BY <1>1 DEF PutImage, Step
<1>4. e \in Edits /\ e.op = edit[q].op /\ e.avatar = edit[q].avatar /\ e.pc = c
  BY <1>1 DEF Edits
<1> HIDE DEF e
<1>5. EditOK(e, asset)
  BY <1>2, <1>3, <1>4 DEF EditOK, OnLock, OnImages
<1> QED
  BY <1>3, <1>4, <1>5, StepMoves DEF Revises, OnLock

\* The DELETE moves the request on to its commit.
LEMMA CleanupDeckMoves ==
  ASSUME AssetTypes, EditOrder, CardTypes, NEW q \in Admins, CleanupDeck(q)
  PROVE  \E e : /\ EditMoves(q, e) /\ e.avatar = edit[q].avatar /\ e.op = "kind"
                /\ e.pc = "commit" /\ e.kind = edit[q].kind
<1> DEFINE n == Len(deck[edit[q].kind])
           e == [edit[q] EXCEPT !.pc = "commit", !.erase = n]
<1>1. edit[q] \in Edits /\ edit \in [Admins -> Edits]
  BY DEF AssetTypes
<1>2. deck[edit[q].kind] \in Seq(Entries)
  BY <1>1 DEF CardTypes, Edits
<1>3. n \in Nat
  BY <1>2, LenProperties
<1>4. EditOK(edit[q], asset)
  BY DEF EditOrder
<1>5. edit' = [edit EXCEPT ![q] = e] /\ UNCHANGED asset /\ edit[q].pc = "erase"
  BY <1>1 DEF CleanupDeck
<1>6. /\ e \in Edits /\ e.op = edit[q].op /\ e.avatar = edit[q].avatar /\ e.pc = "commit"
      /\ e.kind = edit[q].kind
  BY <1>1, <1>3 DEF Edits, Places
<1> HIDE DEF e
<1>7. EditOK(e, asset) /\ e.op = "kind"
  BY <1>4, <1>5, <1>6 DEF EditOK, OnLock, OnImages
<1> QED
  BY <1>5, <1>6, <1>7, StepMoves DEF Revises, OnLock

\* A request may always end.
LEMMA CloseMoves ==
  ASSUME AssetTypes, EditOrder, NEW q \in Admins, End(q), UNCHANGED asset
  PROVE  EditMoves(q, NoEdit)
  BY EndMoves DEF EditOrder, AssetTypes

\* The row of a create appears; another request finds its row there.
LEMMA WriteRowMoves ==
  ASSUME AssetTypes, EditOrder, NEW q \in Admins, WriteRow(q)
  PROVE  /\ EditMoves(q, NoEdit) /\ Calm
         /\ IF edit[q].op = "create" THEN asset' = [asset EXCEPT ![edit[q].avatar] = edit[q].kind]
                                     ELSE UNCHANGED asset
<1> DEFINE a == edit[q].avatar
<1>1. EditOK(edit[q], asset) /\ edit[q].pc = "row" /\ edit[q].kind \in AvatarKinds /\ End(q)
  BY DEF EditOrder, WriteRow, AssetTypes, Edits
<1>2. a \in Avatars
  BY <1>1 DEF EditOK
<1>3. CASE edit[q].op = "create"
  <2>1. asset[a] = "none"
    BY <1>1, <1>3 DEF EditOK
  <2>2. asset' = [asset EXCEPT ![a] = edit[q].kind]
    BY <1>3, <2>1 DEF WriteRow
  <2>3. Calm
    BY <1>2, <2>1, <2>2 DEF Calm, AssetTypes
  <2> QED
    BY <1>1, <1>3, <2>2, <2>3, RowMoves
<1>4. CASE edit[q].op # "create"
  <2>1. asset[a] # "none"
    BY <1>1, <1>4 DEF EditOK, OnImages
  <2>2. asset' = asset
    BY <1>2, <2>1 DEF WriteRow, AssetTypes
  <2> QED
    BY <1>1, <1>4, <2>2, CloseMoves DEF Calm
<1> QED
  BY <1>3, <1>4

\* A failed create ends, with its row made or not.
LEMMA CreateFailsMoves ==
  ASSUME AssetTypes, EditOrder, NEW q \in Admins, CreateFails(q)
  PROVE  EditMoves(q, NoEdit) /\ Calm
<1> DEFINE a == edit[q].avatar
<1>1. EditOK(edit[q], asset) /\ edit[q].op = "create" /\ edit[q].kind \in AvatarKinds /\ End(q)
  BY DEF EditOrder, CreateFails, AssetTypes, Edits
<1>2. a \in Avatars /\ asset[a] = "none"
  BY <1>1 DEF EditOK, OnImages
<1>3. CASE UNCHANGED asset
  BY <1>1, <1>3, CloseMoves DEF Calm
<1>4. CASE asset' = [asset EXCEPT ![a] = edit[q].kind]
  <2>1. Calm
    BY <1>2, <1>4 DEF Calm, AssetTypes
  <2> QED
    BY <1>1, <1>4, <2>1, RowMoves
<1> QED
  BY <1>3, <1>4 DEF CreateFails

\* The commit of a change of kind ends it.
LEMMA CommitKindMoves ==
  ASSUME AssetTypes, EditOrder, NEW q \in Admins, CommitKind(q)
  PROVE  EditMoves(q, NoEdit)
<1>1. End(q) /\ edit[q].pc \in OnLock /\ edit[q] \in Edits
  BY DEF CommitKind, OnLock, AssetTypes
<1>2. Other(edit[q].kind) \in AvatarKinds
  BY DEF Other, AvatarKinds
<1>3. asset' = [asset EXCEPT ![edit[q].avatar] = Other(edit[q].kind)]
  BY DEF CommitKind
<1> QED
  BY <1>1, <1>2, <1>3, RowMoves

\* The open draw has not taken the entry that the request e has deleted.
Spares(e) == e.pc = "commit" => ~(draw.took[e.kind] = e.avatar /\ draw.pool[e.kind] = {})

\* A step that re-kinds nobody and touches no deck keeps the decks and the draw.
LEMMA CalmKeepsDeck ==
  ASSUME DeckInv, NEW q \in Admins, NEW e, EditMoves(q, e), Calm, Spares(e),
         UNCHANGED <<deck, draw, times, mixed>>
  PROVE  CardTypes' /\ CycleInv' /\ DrawInv' /\ DeckKind'
<1>1. CardTypes'
  BY DEF DeckInv, CardTypes
<1>2. \A S \in SUBSET Avatars : Gone(S) => Gone(S)'
  BY DEF Gone, Calm
<1>3. CycleInv'
  <2> SUFFICES ASSUME NEW k \in AvatarKinds
        PROVE  \A c \in DOMAIN deck[k] :
                 deck[k][c].used # {} \/ (deck[k][c].left # {} /\ Gone(deck[k][c].left)')
    BY DEF DeckInv, CycleInv, Newest
  <2>1. \A c \in DOMAIN deck[k] : deck[k][c] \in Entries
    BY ElementOfSeq DEF DeckInv, CardTypes
  <2>2. \A c \in DOMAIN deck[k] : deck[k][c].left \in SUBSET Avatars
    BY <2>1 DEF Entries
  <2> QED
    BY <1>2, <2>2 DEF DeckInv, CycleInv
<1>4. DrawInv'
  <2>1. draw.pool \in [AvatarKinds -> SUBSET Avatars] /\ draw.kind \in AvatarKinds
    BY DEF DeckInv, CardTypes, Draws
  <2>2. /\ edit'[q] = e /\ \A p \in Admins \ {q} : edit'[p] = edit[p]
    BY EditKeeps DEF DeckInv
  <2>3. \A k \in AvatarKinds : \A a \in draw.pool[k] : asset'[a] # "none"
    BY <2>1 DEF DeckInv, DrawInv, Calm
  <2>4. ASSUME NEW k \in AvatarKinds, draw.took[k] # NoAvatar, draw.pool[k] = {}
        PROVE  \A p \in Admins : edit'[p].pc = "commit" /\ edit'[p].kind = k
                                    => edit'[p].avatar # draw.took[k]
    BY <2>2, <2>4 DEF DeckInv, DrawInv, Spares
  <2>5. \A k \in AvatarKinds : Picked(k)' = Picked(k)
    BY DEF Picked
  <2>6. \A k \in AvatarKinds : Gone(draw.pool[k]) => Gone(draw.pool[k])'
    BY <1>2, <2>1
  <2>7. UNCHANGED <<draw, deck>> /\ DrawInv
    BY DEF DeckInv
  <2> HIDE DEF Picked, Gone
  <2> QED
    BY <2>3, <2>4, <2>5, <2>6, <2>7 DEF DrawInv, Newest
<1>5. DeckKind'
  <2> SUFFICES ASSUME NEW k \in AvatarKinds, NEW a \in Avatars, <<k, a>> \notin mixed,
                      NEW c \in DOMAIN deck[k], a \in deck[k][c].left
               PROVE  asset'[a] \in {k, "deleted"}
    BY DEF DeckKind
  <2>1. asset[a] \in {k, "deleted"}
    BY DEF DeckInv, DeckKind
  <2> QED
    BY <2>1 DEF Calm, AvatarKinds
<1> QED
  BY <1>1, <1>3, <1>4, <1>5

\* The request of q is, and stays, about the avatar a alone.
About(q, e, a) ==
  /\ edit[q].avatar \in {a, NoAvatar} /\ e.avatar \in {a, NoAvatar}
  /\ edit[q].avatar = a \/ e.avatar = a
  /\ \A b \in Avatars \ {a} : asset'[b] = asset[b] /\ blob'[b] = blob[b]
  /\ blob' \in [Avatars -> SUBSET Variants]
  /\ adrift \subseteq adrift'

\* A step about one avatar keeps the images of the others.
LEMMA ImagesKept ==
  ASSUME DeckInv, NEW q \in Admins, NEW e, EditMoves(q, e), NEW a \in Avatars, About(q, e, a),
         e.pc # "idle" => Made(e, blob'[a]), a \in adrift' \/ Kept(a)'
  PROVE  AssetTypes' /\ ImageInv'
<1>1. /\ edit' \in [Admins -> Edits] /\ edit'[q] = e /\ EditOrder'
      /\ \A p \in Admins \ {q} : edit'[p] = edit[p]
  BY EditKeeps DEF DeckInv
<1>2. NoAvatar \notin Avatars
  BY AvatarAssumption
<1>3. AssetTypes'
  BY <1>1 DEF AssetTypes, About, EditMoves
<1>4. EditOK(e, asset') /\ \A p \in Admins : EditOK(edit[p], asset)
  BY DEF EditMoves, DeckInv, EditOrder
<1>5. e.pc # "idle" => e.avatar = a
  BY <1>2, <1>4 DEF About, EditOK
<1>6. ASSUME NEW p \in Admins \ {q}, edit[p].pc # "idle"
      PROVE  Made(edit[p], blob'[edit[p].avatar])
  <2>1. EditOK(edit[p], asset) /\ edit[p].avatar \in Avatars
    BY <1>4, <1>6 DEF EditOK
  <2>2. Made(edit[p], blob[edit[p].avatar])
    BY <1>6 DEF DeckInv, ImageInv
  <2>3. CASE edit[p].avatar # a
    BY <2>1, <2>2, <2>3 DEF About
  <2>4. CASE edit[p].avatar = a
    <3>1. Apart(e, edit[p]) /\ Apart(edit[q], edit[p])
      BY DEF EditMoves, DeckInv, EditOrder
    <3>2. edit[p].op # "create"
      BY <2>4, <3>1 DEF About, Apart
    <3> QED
      BY <2>1, <3>2 DEF EditOK, Made
  <2> QED
    BY <2>3, <2>4
<1>7. \A p \in Admins : edit'[p].pc # "idle" => Made(edit'[p], blob'[edit'[p].avatar])
  BY <1>1, <1>5, <1>6
<1>8. ASSUME NEW b \in Avatars \ {a} PROVE b \in adrift' \/ Kept(b)'
  <2>1. b \in adrift \/ Kept(b)
    BY DEF DeckInv, ImageInv
  <2>2. asset'[b] = asset[b] /\ blob'[b] = blob[b] /\ adrift \subseteq adrift'
    BY DEF About
  <2>3. \A p \in Admins : edit[p].avatar = b => edit'[p] = edit[p]
    BY <1>1, <1>2 DEF About
  <2> QED
    BY <2>1, <2>2, <2>3 DEF Kept, Live
<1>9. ImageInv'
  BY <1>7, <1>8 DEF ImageInv, Made
<1> QED
  BY <1>3, <1>9

\* A step that moves neither a row nor an image, of a request that is neither a
\* create nor a delete, or gives up.
LEMMA QuietKeepsImages ==
  ASSUME DeckInv, NEW q \in Admins, NEW e, EditMoves(q, e), NEW a \in Avatars,
         UNCHANGED <<asset, blob>>, adrift \subseteq adrift',
         edit[q].avatar \in {a, NoAvatar}, e.avatar \in {a, NoAvatar},
         edit[q].avatar = a \/ e.avatar = a,
         e.pc # "idle" => Made(e, blob[a]),
         a \in adrift' \/ edit[q].op \notin {"create", "delete"}
  PROVE  AssetTypes' /\ ImageInv'
<1>1. About(q, e, a)
  BY DEF About, DeckInv, AssetTypes
<1>2. \A p \in Admins \ {q} : edit'[p] = edit[p]
  BY EditKeeps DEF DeckInv
<1>3. a \in adrift \/ Kept(a)
  BY DEF DeckInv, ImageInv
<1>4. a \in adrift' \/ Kept(a)'
  BY <1>2, <1>3 DEF Kept, Live
<1> QED
  BY <1>1, <1>4, ImagesKept

\* A step of an administrator that leaves the decks alone.
LEMMA EditKeepsDeckInv ==
  ASSUME DeckInv, NEW q \in Admins, NEW e, EditMoves(q, e), Calm, Spares(e),
         UNCHANGED <<deck, draw, times, mixed>>, AssetTypes', ImageInv', Counters'
  PROVE  DeckInv'
<1>1. CardTypes' /\ CycleInv' /\ DrawInv' /\ DeckKind'
  BY CalmKeepsDeck
<1>2. EditOrder'
  BY EditKeeps DEF DeckInv
<1> QED
  BY <1>1, <1>2 DEF DeckInv

\* Each step of an administrator keeps the invariant.
LEMMA CreateAvatarKeeps ==
  ASSUME DeckInv, NEW q \in Admins, NEW a \in Avatars, NEW k \in AvatarKinds, CreateAvatar(q, a, k)
  PROVE  DeckInv'
<1>1. PICK e : EditMoves(q, e) /\ e.avatar = a /\ e.op = "create" /\ e.pc = "put"
  BY CreateAvatarMoves DEF DeckInv
<1>2. /\ UNCHANGED <<asset, blob, deck, draw, times, mixed, adrift>> /\ edit[q] = NoEdit /\ Counters'
      /\ asset[a] = "none" /\ blob[a] = {}
  BY AvatarAssumption DEF CreateAvatar, Start, DeckInv, Counters
<1>3. AssetTypes' /\ ImageInv'
  BY <1>1, <1>2, NoEditFacts, QuietKeepsImages DEF Made
<1> QED
  BY <1>1, <1>2, <1>3, EditKeepsDeckInv DEF Calm, Spares

LEMMA UpdateAvatarKeeps ==
  ASSUME DeckInv, NEW q \in Admins, NEW a \in Avatars, UpdateAvatar(q, a) \/ SeedDefault(q, a)
  PROVE  DeckInv'
<1>1. PICK e : EditMoves(q, e) /\ e.avatar = a /\ e.op \in {"update", "seed"} /\ e.pc = "put"
  BY UpdateAvatarMoves DEF DeckInv
<1>2. UNCHANGED <<asset, blob, deck, draw, times, mixed, adrift>> /\ edit[q] = NoEdit /\ Counters'
  BY AvatarAssumption DEF UpdateAvatar, SeedDefault, Start, DeckInv, Counters
<1>3. AssetTypes' /\ ImageInv'
  BY <1>1, <1>2, NoEditFacts, QuietKeepsImages DEF Made
<1> QED
  BY <1>1, <1>2, <1>3, EditKeepsDeckInv DEF Calm, Spares

LEMMA UpdateKindKeeps ==
  ASSUME DeckInv, NEW q \in Admins, NEW a \in Avatars, UpdateKind(q, a)
  PROVE  DeckInv'
<1>1. PICK e : EditMoves(q, e) /\ e.avatar = a /\ e.op = "kind" /\ e.pc = "erase"
  BY UpdateKindMoves DEF DeckInv
<1>2. UNCHANGED <<asset, blob, deck, draw, times, mixed, adrift>> /\ edit[q] = NoEdit /\ Counters'
  BY AvatarAssumption DEF UpdateKind, Start, DeckInv, Counters
<1>3. AssetTypes' /\ ImageInv'
  BY <1>1, <1>2, NoEditFacts, QuietKeepsImages DEF Made
<1> QED
  BY <1>1, <1>2, <1>3, EditKeepsDeckInv DEF Calm, Spares

LEMMA DeleteAvatarKeeps ==
  ASSUME DeckInv, NEW q \in Admins, NEW a \in Avatars, DeleteAvatar(q, a)
  PROVE  DeckInv'
<1>1. PICK e : EditMoves(q, e) /\ e.avatar = a /\ e.op = "delete" /\ e.pc = "clean"
  BY DeleteAvatarMoves DEF DeckInv
<1>2. Calm /\ asset'[a] = "deleted" /\ \A b \in Avatars \ {a} : asset'[b] = asset[b]
  BY DeleteAvatarMoves DEF DeckInv
<1>3. UNCHANGED <<blob, deck, draw, times, mixed, adrift>> /\ edit[q] = NoEdit /\ Counters'
  BY AvatarAssumption DEF DeleteAvatar, Start, DeckInv, Counters
<1>4. About(q, e, a)
  BY <1>1, <1>2, <1>3, NoEditFacts DEF About, DeckInv, AssetTypes
<1>5. edit'[q] = e
  BY <1>1, EditKeeps DEF DeckInv
<1>6. Kept(a)'
  BY <1>1, <1>2, <1>5 DEF Kept, Live, AvatarKinds
<1>7. AssetTypes' /\ ImageInv'
  BY <1>1, <1>4, <1>6, ImagesKept DEF Made
<1> QED
  BY <1>1, <1>2, <1>3, <1>7, EditKeepsDeckInv DEF Spares

LEMMA PutImageKeeps ==
  ASSUME DeckInv, NEW q \in Admins, PutImage(q)
  PROVE  DeckInv'
<1>1. EditOK(edit[q], asset) /\ edit[q].pc \in {"put", "backing"}
  BY DEF DeckInv, EditOrder, PutImage
<1>2. PICK a \in Avatars : a = edit[q].avatar
  BY <1>1 DEF EditOK
<1>3. PICK e : /\ EditMoves(q, e) /\ e.avatar = a /\ e.op = edit[q].op
               /\ e.pc = IF edit[q].op = "create" /\ edit[q].pc = "put" THEN "backing" ELSE "row"
  BY <1>2, PutImageMoves DEF DeckInv
<1>4. PICK v \in SUBSET Variants :
        /\ blob' = [blob EXCEPT ![a] = @ \union v]
        /\ IF edit[q].pc = "backing" THEN v = {"backing"} ELSE "avatar" \in v
  BY <1>2 DEF PutImage, Variants
<1>5. /\ UNCHANGED <<asset, deck, draw, times, mixed, draws, edits, mishaps>> /\ Counters'
      /\ adrift' = IF asset[a] = "deleted" THEN adrift \union {a} ELSE adrift
  BY <1>2 DEF PutImage, DeckInv, Counters
<1>6. blob'[a] = blob[a] \union v /\ About(q, e, a) /\ blob[a] \in SUBSET Variants
  BY <1>2, <1>3, <1>4, <1>5 DEF About, DeckInv, AssetTypes
<1>7. edit'[q] = e
  BY <1>3, EditKeeps DEF DeckInv
<1>8. Made(edit[q], blob[a])
  BY <1>1, <1>2 DEF DeckInv, ImageInv
<1>9. Made(e, blob'[a])
  BY <1>1, <1>3, <1>4, <1>6, <1>8 DEF Made, EditOK, Variants
<1>10. a \in adrift \/ Kept(a)
  BY <1>2 DEF DeckInv, ImageInv
<1>11. asset[a] = "none" => edit[q].op = "create"
  BY <1>1, <1>2 DEF EditOK, OnImages
<1>12. a \in adrift' \/ Kept(a)'
  BY <1>3, <1>4, <1>5, <1>6, <1>7, <1>10, <1>11 DEF Kept, Live
<1>13. AssetTypes' /\ ImageInv'
  BY <1>3, <1>6, <1>9, <1>12, ImagesKept
<1> QED
  BY <1>3, <1>5, <1>13, EditKeepsDeckInv DEF Calm, Spares

LEMMA WriteRowKeeps ==
  ASSUME DeckInv, NEW q \in Admins, WriteRow(q)
  PROVE  DeckInv'
<1>1. EditOK(edit[q], asset) /\ edit[q].pc = "row" /\ edit[q].kind \in AvatarKinds
  BY DEF DeckInv, EditOrder, WriteRow, AssetTypes, Edits
<1>2. PICK a \in Avatars : a = edit[q].avatar
  BY <1>1 DEF EditOK
<1>3. /\ EditMoves(q, NoEdit) /\ Calm
      /\ IF edit[q].op = "create" THEN asset' = [asset EXCEPT ![a] = edit[q].kind]
                                  ELSE UNCHANGED asset
  BY <1>2, WriteRowMoves DEF DeckInv
<1>4. UNCHANGED <<blob, deck, draw, times, mixed, adrift, draws, edits, mishaps>> /\ Counters'
  BY DEF WriteRow, DeckInv, Counters
<1>5. CASE edit[q].op = "create"
  <2>1. About(q, NoEdit, a) /\ asset'[a] = edit[q].kind
    BY <1>2, <1>3, <1>4, <1>5, NoEditFacts DEF About, DeckInv, AssetTypes
  <2>2. Made(edit[q], blob[a])
    BY <1>1, <1>2 DEF DeckInv, ImageInv
  <2>3. Kept(a)'
    BY <1>1, <1>4, <1>5, <2>1, <2>2 DEF Kept, Live, Made, AvatarKinds
  <2>4. AssetTypes' /\ ImageInv'
    BY <1>3, <2>1, <2>3, NoEditFacts, ImagesKept
  <2> QED
    BY <1>3, <1>4, <2>4, NoEditFacts, EditKeepsDeckInv DEF Spares
<1>6. CASE edit[q].op # "create"
  <2>1. edit[q].op \notin {"create", "delete"}
    BY <1>1, <1>6 DEF EditOK
  <2>2. AssetTypes' /\ ImageInv'
    BY <1>2, <1>3, <1>4, <1>6, <2>1, NoEditFacts, QuietKeepsImages
  <2> QED
    BY <1>3, <1>4, <2>2, NoEditFacts, EditKeepsDeckInv DEF Spares
<1> QED
  BY <1>5, <1>6

LEMMA CreateFailsKeeps ==
  ASSUME DeckInv, NEW q \in Admins, CreateFails(q)
  PROVE  DeckInv'
<1>1. EditOK(edit[q], asset) /\ edit[q].op = "create"
  BY DEF DeckInv, EditOrder, CreateFails
<1>2. PICK a \in Avatars : a = edit[q].avatar
  BY <1>1 DEF EditOK, OnImages
<1>3. EditMoves(q, NoEdit) /\ Calm
  BY CreateFailsMoves DEF DeckInv
<1>4. UNCHANGED <<deck, draw, times, mixed>> /\ Counters'
  BY AvatarAssumption DEF CreateFails, Mishap, DeckInv, Counters
<1>5. About(q, NoEdit, a)
  BY <1>2, NoEditFacts DEF CreateFails, CleanupAvatarImageKeys, About, DeckInv, AssetTypes
<1>6. a \in adrift' \/ (blob'[a] = {} /\ asset'[a] = "none")
  BY <1>1, <1>2 DEF CreateFails, CleanupAvatarImageKeys, EditOK, DeckInv, AssetTypes
<1>7. a \in adrift' \/ Kept(a)'
  BY <1>6 DEF Kept, Live, AvatarKinds
<1>8. AssetTypes' /\ ImageInv'
  BY <1>3, <1>5, <1>7, NoEditFacts, ImagesKept
<1> QED
  BY <1>3, <1>4, <1>8, NoEditFacts, EditKeepsDeckInv DEF Spares

LEMMA CleanDeletedKeeps ==
  ASSUME DeckInv, NEW q \in Admins, CleanDeleted(q)
  PROVE  DeckInv'
<1>1. EditOK(edit[q], asset) /\ edit[q].pc = "clean"
  BY DEF DeckInv, EditOrder, CleanDeleted
<1>2. PICK a \in Avatars : a = edit[q].avatar
  BY <1>1 DEF EditOK
<1>3. UNCHANGED <<asset, deck, draw, times, mixed, adrift>> /\ Counters' /\ End(q)
  BY DEF CleanDeleted, DeckInv, Counters
<1>4. EditMoves(q, NoEdit) /\ Calm
  BY <1>3, CloseMoves DEF DeckInv, Calm
<1>5. blob' = [blob EXCEPT ![a] = {}] /\ asset[a] = "deleted"
  BY <1>1, <1>2 DEF CleanDeleted, CleanupAvatarImageKeys, EditOK
<1>6. About(q, NoEdit, a)
  BY <1>2, <1>3, <1>5, NoEditFacts DEF About, DeckInv, AssetTypes
<1>7. Kept(a)'
  BY <1>3, <1>5 DEF Kept, Live, AvatarKinds, DeckInv, AssetTypes
<1>8. AssetTypes' /\ ImageInv'
  BY <1>4, <1>6, <1>7, NoEditFacts, ImagesKept
<1> QED
  BY <1>3, <1>4, <1>8, NoEditFacts, EditKeepsDeckInv DEF Spares

LEMMA CleanupDeckKeeps ==
  ASSUME DeckInv, NEW q \in Admins, CleanupDeck(q)
  PROVE  DeckInv'
<1>1. EditOK(edit[q], asset) /\ edit[q].pc = "erase"
  BY DEF DeckInv, EditOrder, CleanupDeck
<1>2. PICK a \in Avatars : a = edit[q].avatar
  BY <1>1 DEF EditOK
<1>3. PICK e : EditMoves(q, e) /\ e.avatar = a /\ e.op = "kind" /\ e.pc = "commit" /\ e.kind = edit[q].kind
  BY <1>2, CleanupDeckMoves DEF DeckInv
<1>4. /\ UNCHANGED <<asset, blob, deck, draw, times, mixed, adrift, draws, edits, mishaps>>
      /\ Counters' /\ Calm /\ Spares(e)
  BY <1>2, <1>3 DEF CleanupDeck, DeckInv, Counters, Calm, Spares
<1>5. edit[q].op = "kind"
  BY <1>1 DEF EditOK, OnLock
<1>6. AssetTypes' /\ ImageInv'
  BY <1>2, <1>3, <1>4, <1>5, QuietKeepsImages DEF Made
<1> QED
  BY <1>3, <1>4, <1>6, EditKeepsDeckInv

LEMMA AbandonEditKeeps ==
  ASSUME DeckInv, NEW q \in Admins, AbandonEdit(q)
  PROVE  DeckInv'
<1>1. EditOK(edit[q], asset) /\ edit[q].pc # "idle"
  BY DEF DeckInv, EditOrder, AbandonEdit
<1>2. PICK a \in Avatars : a = edit[q].avatar
  BY <1>1 DEF EditOK
<1>3. UNCHANGED <<asset, blob, deck, draw, times, mixed>> /\ Counters' /\ End(q)
  BY AvatarAssumption DEF AbandonEdit, Mishap, DeckInv, Counters
<1>4. EditMoves(q, NoEdit) /\ Calm
  BY <1>3, CloseMoves DEF DeckInv, Calm
<1>5. adrift \subseteq adrift' /\ (a \in adrift' \/ edit[q].op \notin {"create", "delete"})
  BY <1>2 DEF AbandonEdit
<1>6. AssetTypes' /\ ImageInv'
  BY <1>2, <1>3, <1>4, <1>5, NoEditFacts, QuietKeepsImages
<1> QED
  BY <1>3, <1>4, <1>6, NoEditFacts, EditKeepsDeckInv DEF Spares

\* What the commit of a change of kind makes of the decks.
LEMMA CommitKindDeck ==
  ASSUME DeckInv, NEW q \in Admins, CommitKind(q), NEW a, a = edit[q].avatar, NEW k, k = edit[q].kind
  PROVE  /\ a \in Avatars /\ k \in AvatarKinds /\ asset[a] = k /\ edit[q].pc = "commit"
         /\ deck' \in [AvatarKinds -> Seq(Entries)]
         /\ \A j \in AvatarKinds \ {k} : deck'[j] = deck[j]
         /\ \A j \in AvatarKinds : Len(deck'[j]) = Len(deck[j]) /\ DOMAIN deck'[j] = DOMAIN deck[j]
         /\ \A j \in AvatarKinds : \A c \in DOMAIN deck[j] :
              /\ deck'[j][c].used = deck[j][c].used
              /\ deck'[j][c].left \subseteq deck[j][c].left
              /\ deck[j][c].left \ {a} \subseteq deck'[j][c].left
         /\ \A c \in DOMAIN deck[k] : c <= edit[q].erase => a \notin deck'[k][c].left
<1>1. edit[q] \in Edits /\ EditOK(edit[q], asset) /\ edit[q].pc = "commit"
  BY DEF DeckInv, AssetTypes, EditOrder, CommitKind
<1>2. a \in Avatars /\ k \in AvatarKinds /\ asset[a] = k /\ edit[q].erase \in Nat
  BY <1>1 DEF EditOK, Edits, OnLock
<1>3. deck \in [AvatarKinds -> Seq(Entries)]
  BY DEF DeckInv, CardTypes
<1>4. ASSUME NEW x \in Entries
      PROVE  /\ Erase(x, a) \in Entries /\ Erase(x, a).used = x.used
             /\ Erase(x, a).left = x.left \ {a}
  BY DEF Erase, Entries
<1> DEFINE s == [c \in DOMAIN deck[k] |-> IF c <= edit[q].erase THEN Erase(deck[k][c], a) ELSE deck[k][c]]
<1>5. deck' = [deck EXCEPT ![k] = s]
  BY DEF CommitKind
<1>6. deck[k] \in Seq(Entries) /\ DOMAIN deck[k] = 1..Len(deck[k]) /\ Len(deck[k]) \in Nat
  BY <1>2, <1>3, LenProperties
<1>7. \A c \in DOMAIN deck[k] : deck[k][c] \in Entries
  BY <1>6, ElementOfSeq
<1>8. s \in [1..Len(deck[k]) -> Entries]
  BY <1>4, <1>6, <1>7
<1>9. s \in Seq(Entries) /\ Len(s) = Len(deck[k]) /\ DOMAIN s = DOMAIN deck[k]
  BY <1>6, <1>8
<1>10. \A c \in DOMAIN deck[k] :
         /\ s[c].used = deck[k][c].used /\ s[c].left \subseteq deck[k][c].left
         /\ deck[k][c].left \ {a} \subseteq s[c].left
         /\ (c <= edit[q].erase => a \notin s[c].left)
  BY <1>4, <1>7
<1> HIDE DEF s
<1>11. deck' \in [AvatarKinds -> Seq(Entries)] /\ deck'[k] = s
  BY <1>2, <1>3, <1>5, <1>9
<1>12. \A j \in AvatarKinds \ {k} : deck'[j] = deck[j]
  BY <1>3, <1>5
<1> QED
  BY <1>1, <1>2, <1>9, <1>10, <1>11, <1>12

\* The commit of a change of kind: the entries it erases were not taken by the open
\* draw, and an entry of a later cycle goes to the history of mixed cycles.
LEMMA CommitKindKeeps ==
  ASSUME DeckInv, NEW q \in Admins, CommitKind(q)
  PROVE  DeckInv'
<1>1. PICK a, k : a = edit[q].avatar /\ k = edit[q].kind
  OBVIOUS
<1>2. /\ a \in Avatars /\ k \in AvatarKinds /\ asset[a] = k /\ edit[q].pc = "commit"
      /\ deck' \in [AvatarKinds -> Seq(Entries)]
      /\ \A j \in AvatarKinds \ {k} : deck'[j] = deck[j]
      /\ \A j \in AvatarKinds : Len(deck'[j]) = Len(deck[j]) /\ DOMAIN deck'[j] = DOMAIN deck[j]
  BY <1>1, CommitKindDeck
<1>3. \A j \in AvatarKinds : \A c \in DOMAIN deck[j] :
        /\ deck'[j][c].used = deck[j][c].used
        /\ deck'[j][c].left \subseteq deck[j][c].left
        /\ deck[j][c].left \ {a} \subseteq deck'[j][c].left
  BY <1>1, CommitKindDeck
<1>4. \A c \in DOMAIN deck[k] : c <= edit[q].erase => a \notin deck'[k][c].left
  BY <1>1, CommitKindDeck
<1>5. /\ UNCHANGED <<blob, draw, times, adrift, draws, edits, mishaps>>
      /\ asset' = [asset EXCEPT ![a] = Other(k)]
      /\ mixed' = mixed \union {<<k, b>> : b \in {b \in {a} :
                \E c \in DOMAIN deck[k] : c > edit[q].erase /\ b \in deck[k][c].left}}
  BY <1>1 DEF CommitKind
<1>6. asset'[a] = Other(k) /\ Other(k) \in AvatarKinds /\ \A b \in Avatars \ {a} : asset'[b] = asset[b]
  BY <1>2, <1>5 DEF DeckInv, AssetTypes, Other, AvatarKinds
<1>7. EditMoves(q, NoEdit)
  BY CommitKindMoves DEF DeckInv
<1>8. EditOrder' /\ edit'[q] = NoEdit /\ \A p \in Admins \ {q} : edit'[p] = edit[p]
  BY <1>7, EditKeeps DEF DeckInv
<1>9. AssetTypes' /\ ImageInv'
  <2>1. About(q, NoEdit, a)
    BY <1>1, <1>5, <1>6, NoEditFacts DEF About, DeckInv, AssetTypes
  <2>2. a \in adrift \/ Kept(a)
    BY <1>2 DEF DeckInv, ImageInv
  <2>3. a \in adrift' \/ Kept(a)'
    BY <1>2, <1>5, <1>6, <2>2 DEF Kept, Live, AvatarKinds
  <2> QED
    BY <1>2, <1>7, <2>1, <2>3, NoEditFacts, ImagesKept
<1>10. \A S \in SUBSET Avatars : Gone(S) => a \notin S /\ Gone(S)'
  BY <1>2, <1>6 DEF Gone, AvatarKinds
<1>11. ASSUME NEW j \in AvatarKinds
       PROVE  \A c \in DOMAIN deck[j] : deck[j][c].left \in SUBSET Avatars
  <2>1. \A c \in DOMAIN deck[j] : deck[j][c] \in Entries
    BY ElementOfSeq DEF DeckInv, CardTypes
  <2> QED
    BY <2>1 DEF Entries
<1>12. CardTypes'
  <2>1. ASSUME NEW j \in AvatarKinds, NEW c \in DOMAIN deck'[j]
        PROVE  deck'[j][c].left \intersect deck'[j][c].used = {}
    <3>1. c \in DOMAIN deck[j]
      BY <1>2
    <3>2. deck[j][c].left \intersect deck[j][c].used = {}
      BY <3>1 DEF DeckInv, CardTypes
    <3> QED
      BY <1>3, <3>1, <3>2
  <2> QED
    BY <1>2, <1>5, <2>1 DEF DeckInv, CardTypes
<1>13. ASSUME NEW j \in AvatarKinds, deck[j] # <<>>
       PROVE  /\ deck'[j] # <<>> /\ Len(deck[j]) \in DOMAIN deck[j]
              /\ Newest(j)'.left \subseteq Newest(j).left
              /\ Newest(j).left \ {a} \subseteq Newest(j)'.left
  <2>1. deck[j] \in Seq(Entries) /\ deck'[j] \in Seq(Entries)
    BY <1>2 DEF DeckInv, CardTypes
  <2>2. Len(deck[j]) \in DOMAIN deck[j] /\ deck'[j] # <<>>
    BY <1>2, <1>13, <2>1
  <2> QED
    BY <1>2, <1>3, <2>2 DEF Newest
<1>14. CycleInv'
  <2> SUFFICES ASSUME NEW j \in AvatarKinds
        PROVE  /\ \A c \in DOMAIN deck'[j] :
                    deck'[j][c].used # {} \/ (deck'[j][c].left # {} /\ Gone(deck[j][c].left)')
               /\ \A b \in Avatars :
                    /\ times'[j][b] <= Len(deck'[j])
                    /\ deck'[j] # <<>> /\ b \in Newest(j)'.left => times'[j][b] < Len(deck'[j])
    BY DEF CycleInv
  <2>1. ASSUME NEW c \in DOMAIN deck[j], deck[j][c].used = {}
        PROVE  deck'[j][c].left # {} /\ Gone(deck[j][c].left)'
    <3>1. deck[j][c].left # {} /\ Gone(deck[j][c].left)
      BY <2>1 DEF DeckInv, CycleInv
    <3>2. a \notin deck[j][c].left
      BY <1>10, <1>11, <3>1
    <3>3. deck'[j][c].left = deck[j][c].left
      BY <1>3, <3>2
    <3>4. PICK S \in SUBSET Avatars : S = deck[j][c].left
      BY <1>11
    <3>5. Gone(S)'
      BY <1>10, <3>1, <3>4
    <3> QED
      BY <3>1, <3>3, <3>4, <3>5 DEF Gone
  <2>2. deck'[j] # <<>> => deck[j] # <<>>
    BY <1>2 DEF DeckInv, CardTypes
  <2>3. ASSUME NEW b \in Avatars
        PROVE  /\ times[j][b] <= Len(deck[j])
               /\ deck[j] # <<>> /\ b \in Newest(j).left => times[j][b] < Len(deck[j])
    BY DEF DeckInv, CycleInv
  <2> QED
    BY <1>2, <1>3, <1>5, <1>13, <2>1, <2>2, <2>3
<1>15. DrawInv'
  <2>1. draw.pool \in [AvatarKinds -> SUBSET Avatars] /\ draw.kind \in AvatarKinds
    BY DEF DeckInv, CardTypes, Draws
  <2>2. \A j \in AvatarKinds : \A b \in draw.pool[j] : asset'[b] # "none"
    BY <1>6, <2>1 DEF DeckInv, DrawInv, AvatarKinds
  <2>3. ASSUME NEW j \in AvatarKinds, draw.took[j] # NoAvatar, draw.pool[j] = {}
        PROVE  /\ deck'[j] # <<>> /\ draw.took[j] \in Newest(j)'.left
               /\ \A p \in Admins : edit'[p].pc = "commit" /\ edit'[p].kind = j
                                       => edit'[p].avatar # draw.took[j]
    <3>1. /\ deck[j] # <<>> /\ draw.took[j] \in Newest(j).left
          /\ \A p \in Admins : edit[p].pc = "commit" /\ edit[p].kind = j => edit[p].avatar # draw.took[j]
      BY <2>3 DEF DeckInv, DrawInv
    <3>2. CASE j = k
      <4>1. draw.took[j] # a
        BY <1>1, <1>2, <3>1, <3>2
      <4> QED
        BY <1>8, <1>13, <3>1, <4>1, NoEditFacts
    <3>3. CASE j # k
      <4>1. Newest(j)' = Newest(j) /\ deck'[j] = deck[j]
        BY <1>2, <3>3 DEF Newest
      <4> QED
        BY <1>8, <3>1, <4>1, NoEditFacts
    <3> QED
      BY <3>2, <3>3
  <2>4. \A j \in AvatarKinds : Picked(j)' = Picked(j)
    BY <1>5 DEF Picked
  <2>5. \A j \in AvatarKinds : Gone(draw.pool[j]) => Gone(draw.pool[j])'
    BY <1>5, <1>10, <2>1 DEF Gone
  <2>6. UNCHANGED draw /\ DrawInv
    BY <1>5 DEF DeckInv
  <2> QED
    BY <2>2, <2>3, <2>4, <2>5, <2>6 DEF DrawInv
<1>16. DeckKind'
  <2> SUFFICES ASSUME NEW j \in AvatarKinds, NEW b \in Avatars, <<j, b>> \notin mixed',
                      NEW c \in DOMAIN deck'[j], b \in deck'[j][c].left
               PROVE  asset'[b] \in {j, "deleted"}
    BY DEF DeckKind
  <2>1. c \in DOMAIN deck[j] /\ b \in deck[j][c].left /\ <<j, b>> \notin mixed
    BY <1>2, <1>3, <1>5
  <2>2. asset[b] \in {j, "deleted"}
    BY <2>1 DEF DeckInv, DeckKind
  <2>3. CASE b # a
    BY <1>6, <2>2, <2>3
  <2>4. CASE b = a /\ j # k
    BY <1>2, <2>2, <2>4 DEF AvatarKinds
  <2>5. CASE b = a /\ j = k
    <3>1. ~(c <= edit[q].erase)
      BY <1>4, <2>1, <2>5
    <3>2. c \in Nat /\ edit[q].erase \in Nat
      <4>1. edit[q] \in Edits /\ deck[j] \in Seq(Entries)
        BY DEF DeckInv, AssetTypes, CardTypes
      <4> QED
        BY <2>1, <4>1 DEF Edits
    <3>3. c > edit[q].erase
      BY <3>1, <3>2
    <3> QED
      BY <1>5, <2>1, <2>5, <3>3
  <2> QED
    BY <2>3, <2>4, <2>5
<1>17. Counters'
  BY <1>5 DEF DeckInv, Counters
<1> QED
  BY <1>8, <1>9, <1>12, <1>14, <1>15, <1>16, <1>17 DEF DeckInv

\* Every cycle has an entry, so the newest is the last.
LEMMA CycleIsLast ==
  ASSUME DeckInv, NEW k \in AvatarKinds
  PROVE  Cycle(k) = Len(deck[k]) /\ Len(deck[k]) \in Nat /\ DOMAIN deck[k] = 1..Len(deck[k])
<1> DEFINE n == Len(deck[k])
           dealt == {c \in DOMAIN deck[k] : deck[k][c].left \union deck[k][c].used # {}}
<1>1. deck[k] \in Seq(Entries)
  BY DEF DeckInv, CardTypes
<1>2. n \in Nat /\ DOMAIN deck[k] = 1..n
  BY <1>1, LenProperties
<1>3. \A c \in DOMAIN deck[k] : deck[k][c].left \union deck[k][c].used # {}
  BY DEF DeckInv, CycleInv
<1>4. Cycle(k) = IF dealt = {} THEN 0 ELSE CHOOSE c \in dealt : \A e \in dealt : e <= c
  BY DEF Cycle
<1>5. dealt = 1..n
  BY <1>2, <1>3
<1> HIDE DEF dealt, n
<1>6. CASE n = 0
  <2>1. dealt = {}
    BY <1>5, <1>6
  <2> QED
    BY <1>2, <1>4, <1>6, <2>1 DEF n
<1>7. CASE n # 0
  <2>1. n \in dealt /\ \A e \in dealt : e <= n
    BY <1>2, <1>5, <1>7
  <2>2. \A c \in dealt : (\A e \in dealt : e <= c) => c = n
    BY <1>2, <1>5, <2>1
  <2>3. (CHOOSE c \in dealt : \A e \in dealt : e <= c) = n
    BY <2>1, <2>2
  <2> QED
    BY <1>2, <1>4, <2>1, <2>3 DEF n
<1> QED
  BY <1>6, <1>7

\* A step of the open draw: nothing shows yet.
LEMMA DrawKeeps ==
  ASSUME DeckInv, UNCHANGED <<asset, blob, edit, deck, times, mixed, adrift>>,
         draw' \in Draws, DrawInv', Counters'
  PROVE  DeckInv'
<1>1. AssetTypes' /\ EditOrder' /\ ImageInv'
  BY DEF DeckInv, AssetTypes, EditOrder, ImageInv, Kept, Live
<1>2. CardTypes' /\ CycleInv' /\ DeckKind'
  BY DEF DeckInv, CardTypes, CycleInv, DeckKind, Newest, Gone
<1> QED
  BY <1>1, <1>2 DEF DeckInv

\* The fields of no draw.
LEMMA NoDrawFacts ==
  /\ NoDraw \in Draws /\ NoDraw.pc = "idle" /\ NoDraw.kind = "agent"
  /\ \A k \in AvatarKinds : NoDraw.pool[k] = {} /\ NoDraw.took[k] = NoAvatar
  BY DEF NoDraw, Draws, AvatarKinds

\* A draw that starts or is rolled back holds nothing.
LEMMA NoDrawKeeps ==
  ASSUME draw' = NoDraw \/ draw' = [NoDraw EXCEPT !.pc = "look"]
  PROVE  draw' \in Draws /\ DrawInv'
<1>1. /\ draw' \in Draws /\ draw'.kind = "agent" /\ draw'.pc \in {"idle", "look"}
      /\ \A k \in AvatarKinds : draw'.pool[k] = {} /\ draw'.took[k] = NoAvatar
  BY DEF NoDraw, Draws, AvatarKinds
<1>2. draw'.pc = "idle" => draw' = NoDraw
  BY DEF NoDraw
<1>3. \A k \in AvatarKinds : ~Picked(k)'
  BY <1>1 DEF Picked
<1> QED
  BY <1>1, <1>2, <1>3 DEF DrawInv, Gone

\* What a draw may take: an entry of the newest cycle that is not being deleted,
\* one of the new cycle's, or nothing when all of those are deleted.
Takes(a) ==
  LET k == draw.kind
  IN  /\ a \in Avatars \union {NoAvatar}
      /\ a # NoAvatar /\ draw.pool[k] # {} => a \in draw.pool[k]
      /\ a = NoAvatar => Gone(draw.pool[k])
      /\ a # NoAvatar /\ draw.pool[k] = {} =>
           /\ deck[k] # <<>> /\ a \in Newest(k).left
           /\ \A q \in Admins : edit[q].pc = "commit" /\ edit[q].kind = k => edit[q].avatar # a

\* A draw that takes what it may is past the deck.
LEMMA TookKeeps ==
  ASSUME DeckInv, NEW a, Takes(a), draw.pc \in {"look", "list", "pick"}, draw' = Took(a),
         UNCHANGED <<asset, edit, deck>>
  PROVE  draw' \in Draws /\ DrawInv'
<1>1. draw \in Draws /\ a \in Avatars \union {NoAvatar} /\ draw.kind \in AvatarKinds
  BY DEF DeckInv, CardTypes, Draws, Takes
<1>2. /\ draw'.pc = IF draw.kind = "agent" THEN "look" ELSE "commit"
      /\ draw'.kind = "system" /\ draw'.pool = draw.pool
      /\ draw'.took = [draw.took EXCEPT ![draw.kind] = a]
  BY <1>1 DEF Took, Draws
<1>3. draw' \in Draws
  BY <1>1 DEF Took, Draws, AvatarKinds
<1>4. draw'.took[draw.kind] = a /\ \A k \in AvatarKinds \ {draw.kind} : draw'.took[k] = draw.took[k]
  BY <1>1, <1>2 DEF Draws
<1>5. ASSUME NEW k \in AvatarKinds
      PROVE  Picked(k)' <=> (k = draw.kind \/ Picked(k))
  BY <1>1, <1>2 DEF Picked, AvatarKinds
<1>6. ASSUME NEW k \in AvatarKinds
      PROVE  /\ \A b \in draw'.pool[k] : asset'[b] # "none"
             /\ ~Picked(k)' => draw'.took[k] = NoAvatar
             /\ ~Picked(k)' => draw'.pool[k] = {}
             /\ draw'.took[k] # NoAvatar /\ draw'.pool[k] # {} => draw'.took[k] \in draw'.pool[k]
             /\ Picked(k)' /\ draw'.took[k] = NoAvatar => Gone(draw.pool[k])'
             /\ draw'.took[k] # NoAvatar /\ draw'.pool[k] = {} =>
                  /\ deck'[k] # <<>> /\ draw'.took[k] \in Newest(k)'.left
                  /\ \A q \in Admins : edit'[q].pc = "commit" /\ edit'[q].kind = k
                                          => edit'[q].avatar # draw'.took[k]
  <2>1. /\ \A b \in draw.pool[k] : asset[b] # "none"
        /\ ~Picked(k) => draw.took[k] = NoAvatar
        /\ ~Picked(k) /\ (draw.pc # "pick" \/ k # draw.kind) => draw.pool[k] = {}
        /\ draw.took[k] # NoAvatar /\ draw.pool[k] # {} => draw.took[k] \in draw.pool[k]
        /\ Picked(k) /\ draw.took[k] = NoAvatar => Gone(draw.pool[k])
        /\ draw.took[k] # NoAvatar /\ draw.pool[k] = {} =>
             /\ deck[k] # <<>> /\ draw.took[k] \in Newest(k).left
             /\ \A q \in Admins : edit[q].pc = "commit" /\ edit[q].kind = k => edit[q].avatar # draw.took[k]
    BY DEF DeckInv, DrawInv
  <2>2. Newest(k)' = Newest(k) /\ (Gone(draw.pool[k]) => Gone(draw.pool[k])')
    BY <1>2 DEF Newest, Gone
  <2>3. CASE k # draw.kind
    BY <1>2, <1>4, <1>5, <2>1, <2>2, <2>3
  <2>4. CASE k = draw.kind
    BY <1>2, <1>4, <1>5, <2>1, <2>2, <2>4 DEF Takes
  <2> QED
    BY <2>3, <2>4
<1>7. draw'.pc # "idle"
  BY <1>2
<1> QED
  BY <1>3, <1>6, <1>7 DEF DrawInv

\* Each step of a draw keeps the invariant.
LEMMA ReserveKeeps ==
  ASSUME DeckInv, ReserveSessionAvatars \/ AbortDraw
  PROVE  DeckInv'
<1>1. draw' \in Draws /\ DrawInv'
  BY NoDrawKeeps DEF ReserveSessionAvatars, AbortDraw
<1>2. Counters' /\ UNCHANGED <<asset, blob, edit, deck, times, mixed, adrift>>
  BY AvatarAssumption DEF ReserveSessionAvatars, AbortDraw, Mishap, DeckInv, Counters
<1> QED
  BY <1>1, <1>2, DrawKeeps

LEMMA LookKeeps ==
  ASSUME DeckInv, UseNextAvatarDeckEntry
  PROVE  DeckInv'
<1>1. draw \in Draws /\ draw.kind \in AvatarKinds /\ draw.pc = "look"
  BY DEF DeckInv, CardTypes, Draws, UseNextAvatarDeckEntry
<1>2. UNCHANGED <<asset, blob, edit, deck, times, mixed, adrift, draws, edits, mishaps>> /\ Counters'
  BY DEF UseNextAvatarDeckEntry, DeckInv, Counters
<1>3. draw.pool[draw.kind] = {}
  BY <1>1 DEF DeckInv, DrawInv, Picked, AvatarKinds
<1>4. ASSUME NEW a \in Drawable(draw.kind) \ Erased(draw.kind), draw' = Took(a)
      PROVE  draw' \in Draws /\ DrawInv'
  <2>1. /\ Cycle(draw.kind) = Len(deck[draw.kind]) /\ Len(deck[draw.kind]) \in Nat
        /\ DOMAIN deck[draw.kind] = 1..Len(deck[draw.kind]) /\ deck[draw.kind] \in Seq(Entries)
    BY <1>1, CycleIsLast DEF DeckInv, CardTypes
  <2>2. Cycle(draw.kind) # 0 /\ a \in deck[draw.kind][Cycle(draw.kind)].left
    BY DEF Drawable
  <2>3. deck[draw.kind] # <<>> /\ a \in Newest(draw.kind).left
    BY <2>1, <2>2 DEF Newest
  <2>4. Newest(draw.kind) \in Entries
    BY <2>1, <2>2, ElementOfSeq DEF Newest
  <2>5. a \in Avatars /\ a # NoAvatar
    BY <2>3, <2>4, AvatarAssumption DEF Entries
  <2>6. \A q \in Admins : edit[q].pc = "commit" /\ edit[q].kind = draw.kind => edit[q].avatar # a
    BY DEF Erased
  <2>7. Takes(a)
    BY <1>3, <2>3, <2>5, <2>6 DEF Takes
  <2> QED
    BY <1>1, <1>2, <1>4, <2>7, TookKeeps
<1>5. ASSUME draw' = [draw EXCEPT !.pc = "list"] PROVE draw' \in Draws /\ DrawInv'
  <2>1. /\ draw' \in Draws /\ draw'.pc = "list" /\ draw'.kind = draw.kind /\ draw'.pool = draw.pool
        /\ draw'.took = draw.took
    BY <1>1, <1>5 DEF Draws
  <2>2. \A k \in AvatarKinds : Picked(k)' <=> Picked(k)
    BY <1>1, <2>1 DEF Picked
  <2>3. \A k \in AvatarKinds : Gone(draw.pool[k]) => Gone(draw.pool[k])'
    BY <1>2, <2>1 DEF Gone
  <2> QED
    BY <1>1, <1>2, <2>1, <2>2, <2>3 DEF DeckInv, DrawInv, Newest
<1>6. draw' \in Draws /\ DrawInv'
  BY <1>4, <1>5 DEF UseNextAvatarDeckEntry
<1> QED
  BY <1>2, <1>6, DrawKeeps

LEMMA ListKeeps ==
  ASSUME DeckInv, ActiveAvatarIDs
  PROVE  DeckInv'
<1> DEFINE ids == {a \in Avatars : asset[a] = draw.kind}
<1>1. draw \in Draws /\ draw.kind \in AvatarKinds /\ draw.pc = "list"
  BY DEF DeckInv, CardTypes, Draws, ActiveAvatarIDs
<1>2. UNCHANGED <<asset, blob, edit, deck, times, mixed, adrift, draws, edits, mishaps>> /\ Counters'
  BY DEF ActiveAvatarIDs, DeckInv, Counters
<1>3. draw.pool[draw.kind] = {} /\ draw.took[draw.kind] = NoAvatar
  BY <1>1 DEF DeckInv, DrawInv, Picked, AvatarKinds
<1>4. ids \in SUBSET Avatars /\ \A a \in ids : asset[a] # "none"
  BY <1>1 DEF AvatarKinds
<1>5. CASE draw' = Took(NoAvatar)
  <2>1. Takes(NoAvatar)
    BY <1>3 DEF Takes, Gone
  <2>2. draw' \in Draws /\ DrawInv'
    BY <1>1, <1>2, <1>5, <2>1, TookKeeps
  <2> QED
    BY <1>2, <2>2, DrawKeeps
<1>6. CASE draw' = [draw EXCEPT !.pc = "pick", !.pool[draw.kind] = ids]
  <2> HIDE DEF ids
  <2>1. /\ draw'.pc = "pick" /\ draw'.kind = draw.kind /\ draw'.took = draw.took
        /\ draw'.pool = [draw.pool EXCEPT ![draw.kind] = ids] /\ draw' \in Draws
    BY <1>1, <1>4, <1>6 DEF Draws
  <2>2. draw'.pool[draw.kind] = ids /\ \A k \in AvatarKinds \ {draw.kind} : draw'.pool[k] = draw.pool[k]
    BY <1>1, <2>1 DEF Draws
  <2>3. \A k \in AvatarKinds : Picked(k)' <=> Picked(k)
    BY <1>1, <2>1 DEF Picked
  <2>4. ~Picked(draw.kind)
    BY <1>1 DEF Picked
  <2>5. \A k \in AvatarKinds \ {draw.kind} : Gone(draw.pool[k]) => Gone(draw.pool[k])'
    BY <1>2, <2>2 DEF Gone
  <2>6. ASSUME NEW k \in AvatarKinds
        PROVE  /\ \A b \in draw'.pool[k] : asset'[b] # "none"
               /\ ~Picked(k)' => draw'.took[k] = NoAvatar
               /\ ~Picked(k)' /\ k # draw'.kind => draw'.pool[k] = {}
               /\ draw'.took[k] # NoAvatar /\ draw'.pool[k] # {} => draw'.took[k] \in draw'.pool[k]
               /\ Picked(k)' /\ draw'.took[k] = NoAvatar => Gone(draw.pool[k])'
               /\ draw'.took[k] # NoAvatar /\ draw'.pool[k] = {} =>
                    /\ deck'[k] # <<>> /\ draw'.took[k] \in Newest(k)'.left
                    /\ \A q \in Admins : edit'[q].pc = "commit" /\ edit'[q].kind = k
                                            => edit'[q].avatar # draw'.took[k]
    <3>1. CASE k = draw.kind
      BY <1>2, <1>3, <1>4, <2>1, <2>2, <2>3, <2>4, <3>1
    <3>2. CASE k # draw.kind
      BY <1>2, <2>1, <2>2, <2>3, <2>5, <3>2 DEF DeckInv, DrawInv, Newest
    <3> QED
      BY <3>1, <3>2
  <2>7. DrawInv'
    BY <2>1, <2>6 DEF DrawInv
  <2> QED
    BY <1>2, <2>1, <2>7, DrawKeeps
<1> QED
  BY <1>5, <1>6 DEF ActiveAvatarIDs

LEMMA PickKeeps ==
  ASSUME DeckInv, DrawFromNewCycle
  PROVE  DeckInv'
<1>1. draw \in Draws /\ draw.kind \in AvatarKinds /\ draw.pc = "pick"
  BY DEF DeckInv, CardTypes, Draws, DrawFromNewCycle
<1>2. UNCHANGED <<asset, blob, edit, deck, times, mixed, adrift, draws, edits, mishaps>> /\ Counters'
  BY DEF DrawFromNewCycle, DeckInv, Counters
<1>3. draw.pool[draw.kind] \subseteq Avatars /\ \A a \in draw.pool[draw.kind] : asset[a] # "none"
  BY <1>1 DEF DeckInv, DrawInv, Draws
<1>4. PICK a : draw' = Took(a) /\ Takes(a)
  <2>1. CASE \E a \in draw.pool[draw.kind] : Live(a) /\ draw' = Took(a)
    BY <1>3, <2>1, AvatarAssumption DEF Takes
  <2>2. CASE (\A a \in draw.pool[draw.kind] : ~Live(a)) /\ draw' = Took(NoAvatar)
    <3>1. Gone(draw.pool[draw.kind])
      BY <1>3, <2>2 DEF Gone, Live, DeckInv, AssetTypes
    <3> QED
      BY <2>2, <3>1 DEF Takes
  <2> QED
    BY <2>1, <2>2 DEF DrawFromNewCycle
<1>5. draw' \in Draws /\ DrawInv'
  BY <1>1, <1>2, <1>4, TookKeeps
<1> QED
  BY <1>2, <1>5, DrawKeeps

\* A deck at the commit of a draw: a new cycle, one entry used, or as it was.
LEMMA DealtFacts ==
  ASSUME DeckInv, draw.pc = "commit", NEW k \in AvatarKinds, NEW a, a = draw.took[k]
  PROVE  LET n == Len(deck[k])
             m == Len(Dealt(k))
         IN  /\ Dealt(k) \in Seq(Entries) /\ m \in {n, n + 1} /\ n \in Nat
             /\ \A c \in 1..m : LET e == Dealt(k)[c] IN
                  /\ e.left \intersect e.used = {}
                  /\ e.used # {} \/ (e.left # {} /\ Gone(e.left))
                  /\ IF c > n THEN e.left = draw.pool[k] \ {a} ELSE e.left \subseteq deck[k][c].left
                  /\ c = m => a \notin e.left
             /\ m = n /\ a # NoAvatar => n > 0 /\ a \in Newest(k).left
<1> DEFINE n == Len(deck[k])
           fresh == draw.pool[k]
           new == [left |-> fresh \ {a}, used |-> fresh \intersect {a}]
<1>1. /\ deck[k] \in Seq(Entries) /\ fresh \subseteq Avatars /\ a \in Avatars \union {NoAvatar}
      /\ NoAvatar \notin Avatars
  BY AvatarAssumption DEF DeckInv, CardTypes, Draws
<1>2. n \in Nat /\ DOMAIN deck[k] = 1..n /\ Cycle(k) = n
  BY CycleIsLast
<1>3. \A c \in 1..n : deck[k][c] \in Entries
  BY <1>1, <1>2, ElementOfSeq
<1>4. \A c \in 1..n : /\ deck[k][c].left \intersect deck[k][c].used = {}
                      /\ deck[k][c].used # {} \/ (deck[k][c].left # {} /\ Gone(deck[k][c].left))
  BY <1>2 DEF DeckInv, CardTypes, CycleInv
<1>5. /\ a # NoAvatar /\ fresh # {} => a \in fresh
      /\ a = NoAvatar => Gone(fresh)
      /\ a # NoAvatar /\ fresh = {} => deck[k] # <<>> /\ a \in Newest(k).left
  BY DEF DeckInv, DrawInv, Picked
<1>6. CASE fresh # {}
  <2>1. SubSeq(deck[k], 1, n) = deck[k]
    BY <1>1, <1>2
  <2>2. Dealt(k) = Append(deck[k], new)
    <3>1. Dealt(k) = deck[k] \o <<new>>
      BY <1>2, <1>6, <2>1 DEF Dealt
    <3> QED
      BY <1>1, <3>1
  <2>3. new \in Entries /\ new.left = fresh \ {a} /\ new.used = fresh \intersect {a}
    BY <1>1 DEF Entries
  <2>4. new.used # {} \/ (new.left # {} /\ Gone(new.left))
    BY <1>1, <1>5, <1>6, <2>3 DEF Gone
  <2> HIDE DEF new, fresh, n
  <2>5. Append(deck[k], new) \in Seq(Entries) /\ Len(Append(deck[k], new)) = n + 1
    BY <1>1, <2>3 DEF n
  <2>6. Append(deck[k], new)[n + 1] = new /\ \A c \in 1..n : Append(deck[k], new)[c] = deck[k][c]
    BY <1>1, <1>2, <2>3 DEF n
  <2>7. ASSUME NEW c \in 1..(n + 1) PROVE c \in 1..n \/ c = n + 1
    BY <1>2
  <2>8. Len(Dealt(k)) = n + 1 /\ n \in Nat /\ n + 1 # n /\ n + 1 > n /\ \A c \in 1..n : ~(c > n) /\ c # n + 1
    BY <1>2, <2>2, <2>5
  <2>9. ASSUME NEW c \in 1..(n + 1)
        PROVE  LET e == Dealt(k)[c] IN
                  /\ e.left \intersect e.used = {}
                  /\ e.used # {} \/ (e.left # {} /\ Gone(e.left))
                  /\ IF c > n THEN e.left = fresh \ {a} ELSE e.left \subseteq deck[k][c].left
                  /\ c = n + 1 => a \notin e.left
    <3>1. CASE c = n + 1
      BY <2>2, <2>3, <2>4, <2>6, <2>8, <3>1
    <3>2. CASE c \in 1..n
      BY <1>4, <2>2, <2>6, <2>8, <3>2
    <3> QED
      BY <2>7, <3>1, <3>2
  <2> QED
    BY <2>2, <2>5, <2>8, <2>9 DEF n, fresh
<1>7. CASE fresh = {} /\ a = NoAvatar
  <2>1. Dealt(k) = deck[k]
    BY <1>7 DEF Dealt
  <2>2. \A c \in 1..n : a \notin deck[k][c].left
    BY <1>1, <1>3, <1>7 DEF Entries
  <2> QED
    BY <1>1, <1>2, <1>4, <1>7, <2>1, <2>2
<1>8. CASE fresh = {} /\ a # NoAvatar
  <2> DEFINE old == deck[k][n]
             card == [left |-> old.left \ {a}, used |-> old.used \union {a}]
  <2>1. n > 0 /\ n \in 1..n /\ a \in old.left
    BY <1>1, <1>2, <1>5, <1>8 DEF Newest
  <2>2. Dealt(k) = [deck[k] EXCEPT ![n] = card]
    BY <1>2, <1>8 DEF Dealt
  <2>3. card \in Entries /\ card.left = old.left \ {a} /\ card.used = old.used \union {a}
    BY <1>1, <1>3, <1>8, <2>1 DEF Entries
  <2> HIDE DEF card
  <2>4. /\ Dealt(k) \in Seq(Entries) /\ Len(Dealt(k)) = n /\ Dealt(k)[n] = card
        /\ \A c \in 1..n : c # n => Dealt(k)[c] = deck[k][c]
    BY <1>1, <1>2, <2>1, <2>2, <2>3
  <2>5. \A c \in 1..n : ~(c > n)
    BY <1>2
  <2>6. ASSUME NEW c \in 1..n
        PROVE  LET e == Dealt(k)[c] IN
                  /\ e.left \intersect e.used = {}
                  /\ e.used # {} \/ (e.left # {} /\ Gone(e.left))
                  /\ e.left \subseteq deck[k][c].left
                  /\ c = n => a \notin e.left
    <3>1. CASE c = n
      <4>1. old.left \intersect old.used = {}
        BY <1>4, <2>1
      <4> QED
        BY <2>3, <2>4, <3>1, <4>1
    <3>2. CASE c # n
      BY <1>4, <2>4, <3>2
    <3> QED
      BY <3>1, <3>2
  <2>7. a \in Newest(k).left
    BY <1>5, <1>8
  <2> HIDE DEF n
  <2> QED
    BY <1>2, <2>1, <2>4, <2>5, <2>6, <2>7 DEF n
<1> QED
  BY <1>6, <1>7, <1>8

\* The commit of a draw: who is drawn waits in the last cycle and was not drawn in
\* it, or the deck gains a cycle.
LEMMA CommitDrawKeeps ==
  ASSUME DeckInv, CommitDraw
  PROVE  DeckInv'
<1>1. draw' \in Draws /\ DrawInv'
  BY NoDrawKeeps DEF CommitDraw
<1>2. UNCHANGED <<asset, blob, edit, adrift, draws, edits, mishaps>> /\ draw.pc = "commit"
  BY DEF CommitDraw
<1>3. AssetTypes' /\ EditOrder' /\ ImageInv' /\ Counters'
  BY <1>2 DEF DeckInv, AssetTypes, EditOrder, ImageInv, Kept, Live, Counters
<1>4. times' \in [AvatarKinds -> [Avatars -> Nat]]
  BY DEF CommitDraw, DeckInv, CardTypes
<1>5. ASSUME NEW k \in AvatarKinds
      PROVE  LET n == Len(deck[k])
                 m == Len(deck'[k])
             IN  /\ deck'[k] \in Seq(Entries) /\ m \in {n, n + 1} /\ n \in Nat
                 /\ \A c \in DOMAIN deck'[k] :
                      /\ deck'[k][c].left \intersect deck'[k][c].used = {}
                      /\ deck'[k][c].used # {} \/ (deck'[k][c].left # {} /\ Gone(deck'[k][c].left))
                      /\ IF c > n THEN deck'[k][c].left = draw.pool[k] \ {draw.took[k]}
                                  ELSE deck'[k][c].left \subseteq deck[k][c].left
                      /\ c = m => draw.took[k] \notin deck'[k][c].left
                 /\ m = n /\ draw.took[k] # NoAvatar => n > 0 /\ draw.took[k] \in Newest(k).left
  <2>1. deck'[k] = Dealt(k)
    BY DEF CommitDraw
  <2>2. PICK a : a = draw.took[k]
    OBVIOUS
  <2> DEFINE m == Len(Dealt(k))
  <2>3. /\ Dealt(k) \in Seq(Entries) /\ m \in {Len(deck[k]), Len(deck[k]) + 1} /\ Len(deck[k]) \in Nat
        /\ \A c \in 1..m :
             /\ Dealt(k)[c].left \intersect Dealt(k)[c].used = {}
             /\ Dealt(k)[c].used # {} \/ (Dealt(k)[c].left # {} /\ Gone(Dealt(k)[c].left))
             /\ IF c > Len(deck[k]) THEN Dealt(k)[c].left = draw.pool[k] \ {a}
                                    ELSE Dealt(k)[c].left \subseteq deck[k][c].left
             /\ c = m => a \notin Dealt(k)[c].left
        /\ m = Len(deck[k]) /\ a # NoAvatar => Len(deck[k]) > 0 /\ a \in Newest(k).left
    BY <1>2, <2>2, DealtFacts
  <2>4. DOMAIN Dealt(k) = 1..m
    BY <2>3
  <2> QED
    BY <2>1, <2>2, <2>3, <2>4
<1>6. CardTypes'
  <2>1. deck' \in [AvatarKinds -> Seq(Entries)]
    BY <1>5 DEF CommitDraw
  <2> QED
    BY <1>1, <1>4, <1>5, <2>1 DEF CardTypes
<1>7. CycleInv'
  <2>1. ASSUME NEW k \in AvatarKinds, NEW c \in DOMAIN deck'[k], deck'[k][c].used = {}
        PROVE  deck'[k][c].left # {} /\ Gone(deck[k][c].left)'
    BY <1>2, <1>5, <2>1 DEF Gone
  <2>2. ASSUME NEW k \in AvatarKinds, NEW a \in Avatars
        PROVE  /\ times'[k][a] <= Len(deck'[k])
               /\ deck'[k] # <<>> /\ a \in deck'[k][Len(deck'[k])].left => times'[k][a] < Len(deck'[k])
    <3>1. times[k][a] \in Nat /\ times'[k][a] = IF draw.took[k] = a THEN times[k][a] + 1 ELSE times[k][a]
      BY DEF CommitDraw, DeckInv, CardTypes
    <3>2. times[k][a] <= Len(deck[k]) /\ (deck[k] # <<>> /\ a \in Newest(k).left => times[k][a] < Len(deck[k]))
      BY DEF DeckInv, CycleInv
    <3>3. /\ deck'[k] \in Seq(Entries) /\ Len(deck'[k]) \in {Len(deck[k]), Len(deck[k]) + 1}
          /\ Len(deck[k]) \in Nat /\ deck[k] \in Seq(Entries)
      BY <1>5 DEF DeckInv, CardTypes
    <3>4. NoAvatar \notin Avatars
      BY AvatarAssumption
    <3>5. draw.took[k] = a /\ Len(deck'[k]) = Len(deck[k]) => times[k][a] < Len(deck[k])
      BY <1>5, <3>2, <3>3, <3>4
    <3>6. times'[k][a] <= Len(deck'[k])
      BY <3>1, <3>2, <3>3, <3>5
    <3>7. ASSUME deck'[k] # <<>>, a \in deck'[k][Len(deck'[k])].left
          PROVE  times'[k][a] < Len(deck'[k])
      <4>1. Len(deck'[k]) \in DOMAIN deck'[k] /\ Len(deck'[k]) > 0
        BY <3>3, <3>7
      <4>2. draw.took[k] # a
        BY <1>5, <3>7, <4>1
      <4>3. CASE Len(deck'[k]) = Len(deck[k])
        <5>1. a \in Newest(k).left /\ deck[k] # <<>>
          BY <1>5, <3>3, <3>7, <4>1, <4>3 DEF Newest
        <5> QED
          BY <3>1, <3>2, <4>2, <4>3, <5>1
      <4>4. CASE Len(deck'[k]) = Len(deck[k]) + 1
        BY <3>1, <3>2, <3>3, <4>2, <4>4
      <4> QED
        BY <3>3, <4>3, <4>4
    <3> QED
      BY <3>6, <3>7
  <2> QED
    BY <2>1, <2>2 DEF CycleInv, Newest
<1>8. DeckKind'
  <2> SUFFICES ASSUME NEW k \in AvatarKinds, NEW a \in Avatars, <<k, a>> \notin mixed',
                      NEW c \in DOMAIN deck'[k], a \in deck'[k][c].left
               PROVE  asset'[a] \in {k, "deleted"}
    BY DEF DeckKind
  <2>1. <<k, a>> \notin mixed /\ <<k, a>> \notin Overtaken
    BY DEF CommitDraw
  <2>2. CASE c > Len(deck[k])
    <3>1. a \in draw.pool[k] \ {draw.took[k]}
      BY <1>5, <2>2
    <3>2. asset[a] # Other(k)
      BY <2>1, <3>1 DEF Overtaken
    <3>3. asset[a] # "none" /\ asset[a] \in AvatarKinds \union {"none", "deleted"}
      BY <3>1 DEF DeckInv, DrawInv, AssetTypes
    <3> QED
      BY <1>2, <3>2, <3>3 DEF Other, AvatarKinds
  <2>3. CASE ~(c > Len(deck[k]))
    <3>1. deck'[k] \in Seq(Entries) /\ deck[k] \in Seq(Entries) /\ c \in 1..Len(deck'[k])
      BY <1>5 DEF DeckInv, CardTypes
    <3>2. c \in DOMAIN deck[k] /\ a \in deck[k][c].left
      BY <1>5, <2>3, <3>1
    <3> QED
      BY <1>2, <2>1, <3>2 DEF DeckInv, DeckKind
  <2> QED
    BY <2>2, <2>3
<1> QED
  BY <1>1, <1>3, <1>6, <1>7, <1>8 DEF DeckInv

\* The invariant holds at the start.
LEMMA DeckInitHolds == ASSUME DeckInit PROVE DeckInv
<1>1. AssetTypes /\ Counters
  BY NoEditFacts, AvatarAssumption DEF DeckInit, AssetTypes, Counters, AvatarKinds, Variants
<1>2. \A q \in Admins : edit[q] = NoEdit
  BY DEF DeckInit
<1>3. EditOrder
  BY <1>2, NoEditFacts, AvatarAssumption DEF DeckInit, EditOrder, EditOK, Apart, OnLock, OnImages
<1>4. ImageInv
  BY <1>2, NoEditFacts DEF DeckInit, ImageInv, Kept, Live, AvatarKinds
<1>5. \A k \in AvatarKinds : deck[k] = <<>> /\ \A a \in Avatars : times[k][a] = 0
  BY DEF DeckInit
<1>6. CardTypes
  BY <1>5, NoDrawFacts DEF DeckInit, CardTypes
<1>7. CycleInv /\ DeckKind
  BY <1>5 DEF CycleInv, DeckKind
<1>8. DrawInv
  BY NoDrawFacts DEF DeckInit, DrawInv, Picked
<1> QED
  BY <1>1, <1>3, <1>4, <1>6, <1>7, <1>8 DEF DeckInv

\* Every step keeps it.
LEMMA DeckNextKeeps == ASSUME DeckInv, [DeckNext]_dvars PROVE DeckInv'
<1>1. CASE ReserveSessionAvatars \/ AbortDraw
  BY <1>1, ReserveKeeps
<1>2. CASE UseNextAvatarDeckEntry
  BY <1>2, LookKeeps
<1>3. CASE ActiveAvatarIDs
  BY <1>3, ListKeeps
<1>4. CASE DrawFromNewCycle
  BY <1>4, PickKeeps
<1>5. CASE CommitDraw
  BY <1>5, CommitDrawKeeps
<1>6. ASSUME NEW q \in Admins,
             \/ PutImage(q) \/ WriteRow(q) \/ CreateFails(q) \/ CleanDeleted(q)
             \/ CleanupDeck(q) \/ CommitKind(q) \/ AbandonEdit(q)
      PROVE  DeckInv'
  BY <1>6, PutImageKeeps, WriteRowKeeps, CreateFailsKeeps, CleanDeletedKeeps, CleanupDeckKeeps,
     CommitKindKeeps, AbandonEditKeeps
<1>7. ASSUME NEW q \in Admins, NEW a \in Avatars,
             \/ UpdateAvatar(q, a) \/ SeedDefault(q, a) \/ DeleteAvatar(q, a) \/ UpdateKind(q, a)
             \/ \E k \in AvatarKinds : CreateAvatar(q, a, k)
      PROVE  DeckInv'
  BY <1>7, UpdateAvatarKeeps, DeleteAvatarKeeps, UpdateKindKeeps, CreateAvatarKeeps
<1>8. CASE UNCHANGED dvars
  <2>1. DrawInv'
    BY <1>8 DEF dvars, DeckInv, DrawInv, Picked, Gone, Newest
  <2>2. draw' \in Draws /\ Counters'
    BY <1>8 DEF dvars, DeckInv, CardTypes, Counters
  <2> QED
    BY <1>8, <2>1, <2>2, DrawKeeps DEF dvars
<1> QED
  BY <1>1, <1>2, <1>3, <1>4, <1>5, <1>6, <1>7, <1>8 DEF DeckNext

\* It implies what DeckSafe states.
LEMMA DeckInvImplies == ASSUME DeckInv PROVE DeckSafe
<1>1. DeckTypeOK
  <2>1. \A q \in Admins : edit[q] \in Edits
    BY DEF DeckInv, AssetTypes
  <2>2. ASSUME NEW k \in AvatarKinds, NEW c \in DOMAIN deck[k] PROVE deck[k][c] \in Entries
    BY ElementOfSeq DEF DeckInv, CardTypes
  <2> QED
    BY <2>1, <2>2
    DEF DeckTypeOK, DeckInv, AssetTypes, CardTypes, Counters, Edits, Places, Entries, Draws
<1>2. OncePerCycle
  BY CycleIsLast DEF OncePerCycle, DeckInv, CycleInv
<1>3. ASSUME NEW a \in Avatars \ adrift
      PROVE  /\ Live(a) => blob[a] = Variants
             /\ (~Live(a) /\ \A q \in Admins : edit[q].avatar # a) => blob[a] = {}
  <2>1. Kept(a) /\ (Live(a) \/ asset[a] \in {"none", "deleted"})
    BY DEF DeckInv, ImageInv, AssetTypes, Live
  <2> QED
    BY <2>1 DEF Kept
<1> QED
  BY <1>1, <1>2, <1>3 DEF DeckSafe, ImagesFollowRows, DeckInv

\* No avatar is drawn from a deck more often than the deck has had cycles, an
\* avatar that waits in a deck is of its kind unless its cycle was listed around
\* the change, and images follow rows unless a failure left them behind, for any
\* avatars, administrators, draws, edits and mishaps (ReserveSessionAvatars,
\* UpdateKind and the avatar handlers).
THEOREM DeckIsSafe == DeckSpec => []DeckSafe
<1>1. DeckInit => DeckInv
  BY DeckInitHolds
<1>2. DeckInv /\ [DeckNext]_dvars => DeckInv'
  BY DeckNextKeeps
<1>3. DeckInv => DeckSafe
  BY DeckInvImplies
<1> QED
  BY <1>1, <1>2, <1>3, PTL DEF DeckSpec
=============================================================================
