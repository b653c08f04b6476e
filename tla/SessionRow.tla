----------------------------- MODULE SessionRow -----------------------------
(***************************************************************************)
(* One session's durable row, its pod and its runner's JetStream consumer, *)
(* and everything that writes them:                                        *)
(*                                                                         *)
(*   - sessions.Manager: Create (row, then pod, then a second upsert),     *)
(*     Delete, ReapPod, the column setters;                                *)
(*   - the leader-elected pod watch (sessioncontroller/k8s_watch.go) with  *)
(*     its in-memory transition tracker and crash-loop backstop;           *)
(*   - the provider-fatal report of the runner;                            *)
(*   - the row reconciler, the idle reaper and the orphan-consumer sweep,  *)
(*     three timer loops that read first and write later.                  *)
(*                                                                         *)
(* A row's columns are cut down to the ones these writers race on.  Times  *)
(* are cut down to how long ago updated_at was bumped: 0 is recent, 1 is   *)
(* past the reconciler's and the reaper's cut-off, 2 is past the sweep's   *)
(* 24 h recency window.                                                    *)
(***************************************************************************)
EXTENDS Naturals

CONSTANTS MaxFailures,  \* failed calls, backend deaths, lost leases
          MaxSteps      \* delete requests, changes of activity, crashes, recoveries
                        \* and ends of the pod

ASSUME SessionBounds == MaxFailures \in Nat /\ MaxSteps \in Nat

VARIABLES
  row,       \* the sessions row
  pod,       \* the pod object in the cluster
  create,    \* where Manager.Create stands
  del,       \* where a Manager.Delete stands: none, pod, mark
  fatal,     \* a provider-fatal report was recorded, its pod not yet reaped
  last,      \* transitionTracker.last of the leading replica
  loopSeen,  \* transitionTracker.crashloopReaped
  stale,     \* the reconciler read the row and found no pod for it
  promise,   \* activity is unsettled or a wake, launch or CI watch is pending
  consumer,  \* the runner's durable consumers: none, young, old
  orphan,    \* the sweep read a live set without this session
  lossy,     \* history: a transition of the tracked pod was not recorded
  unreaped,  \* history: the backstop's pod delete failed
  failures, steps

sessionVars == <<row, pod, create, del, fatal, last, loopSeen, stale, promise,
          consumer, orphan, lossy, unreaped, failures, steps>>

NoRow == [visible |-> FALSE, status |-> "none", term |-> FALSE, age |-> 0]
NoPod == [phase |-> "none", ready |-> FALSE, loop |-> "no", term |-> FALSE]

Rows == [visible : BOOLEAN, status : {"none", "Pending", "Active", "Failed"},
         term : BOOLEAN, age : 0..2]
\* loop: CrashLoopBackOff of the runner, under or over the restart budget
Pods == [phase : {"none", "Pending", "Running", "Done"}, ready : BOOLEAN,
         loop : {"no", "under", "over"}, term : BOOLEAN]

SessionTypeOK ==
  /\ row \in Rows /\ pod \in Pods /\ last \in Pods
  /\ create \in {"idle", "row", "pod", "done", "failed"}
  /\ del \in {"none", "pod", "mark"}
  /\ fatal \in BOOLEAN /\ loopSeen \in BOOLEAN /\ stale \in BOOLEAN
  /\ promise \in BOOLEAN /\ orphan \in BOOLEAN
  /\ lossy \in BOOLEAN /\ unreaped \in BOOLEAN
  /\ consumer \in {"none", "young", "old"}
  /\ failures \in 0..MaxFailures /\ steps \in 0..MaxSteps

CallFails == failures < MaxFailures /\ failures' = failures + 1
CallSucceeds == UNCHANGED failures
\* A call that may fail: ok tells which way it went.
Call(ok) == IF ok THEN CallSucceeds ELSE CallFails

-----------------------------------------------------------------------------
(* Row writes                                                              *)

\* Store.Upsert: the insert, or on conflict the columns EXCLUDED overrides.
\* Status is kept on conflict, visible is not.
Upsert(r) ==
  IF r = NoRow
  THEN [visible |-> TRUE, status |-> "Pending", term |-> FALSE, age |-> 0]
  ELSE [r EXCEPT !.visible = TRUE, !.age = 0]

\* A setter's UPDATE bumps updated_at; a missing session is a no-op.
Touch(r) == IF r = NoRow THEN r ELSE [r EXCEPT !.age = 0]

MarkDeleted(r) == IF r = NoRow THEN r ELSE [r EXCEPT !.visible = FALSE, !.age = 0]

\* The column changes of a transition, and whether the UPDATE also requires
\* terminating_at IS NULL.
Changes(r, e) ==
  CASE e \in {"Scheduled", "NotReady"} -> [r EXCEPT !.status = "Pending", !.age = 0]
    [] e = "Ready"                     -> [r EXCEPT !.status = "Active", !.age = 0]
    [] e = "PodFailed"                 -> [r EXCEPT !.status = "Failed", !.age = 0]
    [] OTHER -> [r EXCEPT !.status = "Failed", !.term = TRUE, !.age = 0]

\* Mutant: the ready transition forgets the terminal guard.
UnguardedReady == {"Scheduled", "NotReady"}

GuardNotTerminal == {"Scheduled", "Ready", "NotReady"}

RecordTransition(r, e) ==
  IF r = NoRow \/ e = "None" \/ (e \in GuardNotTerminal /\ r.term) THEN r ELSE Changes(r, e)

-----------------------------------------------------------------------------
SessionInit ==
  /\ row = NoRow /\ pod = NoPod /\ create = "idle" /\ del = "none"
  /\ fatal = FALSE /\ last = NoPod /\ loopSeen = FALSE /\ stale = FALSE
  /\ promise = FALSE /\ consumer = "none" /\ orphan = FALSE
  /\ lossy = FALSE /\ unreaped = FALSE /\ failures = 0 /\ steps = 0

watch == <<last, loopSeen, lossy, unreaped>>
loops == <<stale, consumer, orphan>>

(* Manager.Create: row before pod, so that no pod is without a row.        *)
CreateRow ==
  /\ create = "idle"
  /\ \E ok \in BOOLEAN :
       /\ Call(ok)
       /\ row' = IF ok THEN Upsert(row) ELSE row
       /\ create' = IF ok THEN "row" ELSE "failed"
  /\ UNCHANGED <<pod, del, fatal, watch, loops, promise, steps>>

\* A failed pod create marks the row deleted; that write may fail as well.
CreatePod ==
  /\ create = "row"
  /\ \/ /\ pod' = [NoPod EXCEPT !.phase = "Pending"]
        /\ create' = "pod"
        /\ UNCHANGED <<row, failures>>
     \/ /\ CallFails
        /\ \E ok \in BOOLEAN : row' = IF ok THEN MarkDeleted(row) ELSE row
        /\ create' = "failed"
        /\ UNCHANGED pod
  /\ UNCHANGED <<del, fatal, watch, loops, promise, steps>>

\* The created_at refresh: the same upsert again; its error is only logged.
RefreshRow ==
  /\ create = "pod"
  /\ \E ok \in BOOLEAN :
       /\ Call(ok)
       /\ row' = IF ok THEN Upsert(row) ELSE row
  /\ create' = "done"
  /\ UNCHANGED <<pod, del, fatal, watch, loops, promise, steps>>

\* The setters of the manager write their column whoever is creating or deleting.
SetColumn ==
  /\ row # NoRow /\ row.age > 0
  /\ steps < MaxSteps /\ steps' = steps + 1
  /\ row' = Touch(row)
  /\ UNCHANGED <<pod, create, del, fatal, watch, loops, promise, failures>>

\* The initial turn of a create request fails: the session is rolled back.
RollbackCreate ==
  /\ create = "done" /\ del = "none" /\ CallFails
  /\ del' = "pod"
  /\ UNCHANGED <<row, pod, create, fatal, watch, loops, promise, steps>>

(* Manager.Delete, for a user, for a rolled-back create, for the reaper.   *)
Delete ==
  /\ row # NoRow /\ del = "none"
  /\ steps < MaxSteps /\ steps' = steps + 1
  /\ del' = "pod"
  /\ UNCHANGED <<row, pod, create, fatal, watch, loops, promise, failures>>

\* The pod is looked up and deleted; an API error ends the request.
DeletePod ==
  /\ del = "pod"
  /\ \/ /\ CallSucceeds
        /\ pod' = IF pod = NoPod THEN pod ELSE [pod EXCEPT !.term = TRUE]
        /\ del' = "mark"
     \/ /\ CallFails /\ pod # NoPod
        /\ del' = "none"
        /\ UNCHANGED pod
  /\ UNCHANGED <<row, create, fatal, watch, loops, promise, steps>>

\* MarkDeleted is best effort: the request succeeds either way.
DeleteMark ==
  /\ del = "mark"
  /\ del' = "none"
  /\ \E ok \in BOOLEAN :
       /\ Call(ok)
       /\ row' = IF ok THEN MarkDeleted(row) ELSE row
  /\ UNCHANGED <<pod, create, fatal, watch, loops, promise, steps>>

\* MarkScopeRetired hides every visible row; Glimmung removes the pods itself.
RetireScope ==
  /\ row.visible
  /\ row' = MarkDeleted(row)
  /\ pod' = IF pod = NoPod THEN pod ELSE [pod EXCEPT !.term = TRUE]
  /\ UNCHANGED <<create, del, fatal, watch, loops, promise, failures, steps>>

\* Durably idle: untouched, activity settled, nothing pending.
Idle == row.visible /\ row.age >= 1 /\ ~promise

\* One conditional UPDATE claims the row; the pod is deleted afterwards.
ClaimIdleForReap ==
  /\ Idle /\ del = "none"
  /\ row' = MarkDeleted(row)
  /\ del' = "pod"
  /\ UNCHANGED <<pod, create, fatal, watch, loops, promise, failures, steps>>

(* handleInternalProviderFatal: terminal row first, then the pod.          *)
ProviderFatal ==
  /\ row.visible /\ pod.phase = "Running" /\ ~pod.term /\ ~fatal
  /\ row' = RecordTransition(row, "ProviderFatal")
  /\ fatal' = TRUE
  /\ UNCHANGED <<pod, create, del, watch, loops, promise, failures, steps>>

ReapPod ==
  /\ fatal /\ fatal' = FALSE
  /\ \/ /\ CallSucceeds
        /\ pod' = IF pod = NoPod THEN pod ELSE [pod EXCEPT !.term = TRUE]
     \/ CallFails /\ UNCHANGED pod
  /\ UNCHANGED <<row, create, del, watch, loops, promise, steps>>

-----------------------------------------------------------------------------
(* The cluster and the passing of time                                     *)

PodMove ==
  /\ pod # NoPod
  /\ \/ /\ pod.phase = "Pending"
        /\ pod' = [pod EXCEPT !.phase = "Running"]
     \/ /\ pod.phase = "Running" /\ ~pod.ready /\ pod.loop = "no"
        /\ pod' = [pod EXCEPT !.ready = TRUE]
  /\ UNCHANGED <<row, create, del, fatal, watch, loops, promise, failures, steps>>

\* A crash, a restart past the budget, a recovery, an eviction.
PodMishap ==
  /\ pod.phase = "Running"
  /\ steps < MaxSteps /\ steps' = steps + 1
  /\ pod' \in {[pod EXCEPT !.ready = FALSE, !.loop = IF @ = "no" THEN "under" ELSE "over"],
               [pod EXCEPT !.ready = TRUE, !.loop = "no"],
               [pod EXCEPT !.phase = "Done", !.ready = FALSE, !.loop = "no"]}
  /\ UNCHANGED <<row, create, del, fatal, watch, loops, promise, failures>>

\* A terminating pod leaves; or a node is lost and takes the pod with it.
PodGone ==
  /\ pod # NoPod
  /\ IF pod.term THEN CallSucceeds ELSE CallFails
  /\ pod' = NoPod
  /\ UNCHANGED <<row, create, del, fatal, watch, loops, promise, steps>>

\* Work arrives or settles: every such write bumps updated_at.
Promise ==
  /\ row.visible /\ pod # NoPod /\ steps < MaxSteps
  /\ promise' = ~promise /\ steps' = steps + 1
  /\ row' = [row EXCEPT !.age = 0]
  /\ UNCHANGED <<pod, create, del, fatal, watch, loops, failures>>

\* A request does not live for ten minutes; a row does.
Age ==
  /\ row # NoRow /\ row.age < 2 /\ create \notin {"row", "pod"}
  /\ row' = [row EXCEPT !.age = @ + 1]
  /\ UNCHANGED <<pod, create, del, fatal, watch, loops, promise, failures, steps>>

\* The replica that runs the requests, the loops and the watch dies.
BackendDies ==
  /\ CallFails
  /\ create' = IF create \in {"row", "pod"} THEN "failed" ELSE create
  /\ del' = "none" /\ fatal' = FALSE /\ stale' = FALSE /\ orphan' = FALSE
  /\ last' = NoPod /\ loopSeen' = FALSE /\ lossy' = FALSE
  /\ UNCHANGED <<row, pod, promise, consumer, unreaped, steps>>

-----------------------------------------------------------------------------
(* The pod watch                                                           *)

Failing(c) == c.phase = "Done" \/ c.loop # "no"

\* First sight of a pod: scheduled, and its current condition.
FirstSight(c) ==
  <<"Scheduled",
    IF c.term THEN "Terminating"
    ELSE IF Failing(c) THEN "PodFailed"
    ELSE IF c.ready THEN "Ready"
    ELSE IF c.phase = "Running" THEN "NotReady" ELSE "None",
    "None">>

\* What changed since the last sight, in the order handleUpsert tests it.
Transitions(p, c) ==
  LET ended == p.phase # "Done" /\ c.phase = "Done" IN
  <<IF ~p.term /\ c.term THEN "Terminating" ELSE "None",
    IF ended \/ (p.loop = "no" /\ c.loop # "no") THEN "PodFailed" ELSE "None",
    IF ended \/ p.ready = c.ready THEN "None"
    ELSE IF c.ready THEN "Ready"
    ELSE IF c.phase = "Running" THEN "NotReady" ELSE "None">>

Backstop(c) == ~c.term /\ c.loop = "over" /\ ~loopSeen

\* maybeBackstopCrashloop: flag, durable terminal, pod delete; neither the
\* failed write nor the failed delete is tried again.
ReapCrashloop ==
  /\ loopSeen' = TRUE
  /\ \E wrote, reaped \in BOOLEAN :
       /\ Call(wrote /\ reaped)
       /\ row' = IF wrote THEN RecordTransition(row, "ProviderFatal") ELSE row
       /\ pod' = IF reaped THEN [pod EXCEPT !.term = TRUE] ELSE pod
       /\ lossy' = (lossy \/ ~wrote)
       /\ unreaped' = (unreaped \/ ~reaped)

\* The transitions are written one by one; an error skips just that one.
RecordAll(r, es) ==
  RecordTransition(RecordTransition(RecordTransition(r, es[1]), es[2]), es[3])

EmitTransitions ==
  LET es == IF last = NoPod THEN FirstSight(pod) ELSE Transitions(last, pod) IN
  /\ \E lost \in SUBSET {i \in 1..3 : es[i] # "None"} :
       /\ Call(lost = {})
       /\ row' = RecordAll(row, [i \in 1..3 |-> IF i \in lost THEN "None" ELSE es[i]])
       /\ lossy' = IF lost = {} THEN lossy /\ last # NoPod ELSE TRUE
  /\ UNCHANGED <<pod, loopSeen, unreaped>>

\* handleUpsert: the tracker remembers the state before anything is written.
HandleUpsert ==
  /\ pod # NoPod /\ last # pod
  /\ last' = pod
  /\ IF Backstop(pod) THEN ReapCrashloop ELSE EmitTransitions
  /\ UNCHANGED <<create, del, fatal, loops, promise, steps>>

HandleDelete ==
  /\ pod = NoPod /\ last # NoPod
  /\ last' = NoPod /\ loopSeen' = FALSE /\ lossy' = FALSE
  /\ UNCHANGED <<row, pod, create, del, fatal, loops, promise, unreaped, failures, steps>>

\* The lease moves to a replica whose tracker is empty.
NewLeader ==
  /\ CallFails
  /\ last' = NoPod /\ loopSeen' = FALSE
  /\ UNCHANGED <<row, pod, create, del, fatal, loops, promise, lossy, unreaped, steps>>

-----------------------------------------------------------------------------
(* The loops                                                               *)

\* Mutant: rows whose pod was never ready are not looked at.
ListStaleActive == row.visible /\ row.status = "Active" /\ row.age >= 1

\* Rows that claim a pod and have not been touched, against the pod list.
ListStalePodBackedRows == row.visible /\ row.status \in {"Pending", "Active"} /\ row.age >= 1

ReconcileRead ==
  /\ ListStalePodBackedRows /\ pod = NoPod /\ ~stale
  /\ stale' = TRUE
  /\ UNCHANGED <<row, pod, create, del, fatal, watch, consumer, orphan, promise, failures, steps>>

ReconcileWrite ==
  /\ stale /\ stale' = FALSE
  /\ \E ok \in BOOLEAN :
       /\ Call(ok)
       /\ row' = IF ok THEN RecordTransition(row, "PodFailed") ELSE row
  /\ UNCHANGED <<pod, create, del, fatal, watch, consumer, orphan, promise, steps>>

\* The runner creates its consumers when it boots; nothing else does.
EnsureConsumer ==
  /\ pod.phase = "Running" /\ consumer = "none"
  /\ consumer' = "young"
  /\ UNCHANGED <<row, pod, create, del, fatal, watch, stale, orphan, promise, failures, steps>>

ConsumerAges ==
  /\ consumer = "young"
  /\ consumer' = "old"
  /\ UNCHANGED <<row, pod, create, del, fatal, watch, stale, orphan, promise, failures, steps>>

\* Mutant: only recent rows are live.
ListRecentIDs == row # NoRow /\ row.age < 2

ListLiveIDs == row # NoRow /\ (row.visible \/ row.age < 2)

SweepRead ==
  /\ ~orphan /\ consumer # "none" /\ ~ListLiveIDs
  /\ orphan' = TRUE
  /\ UNCHANGED <<row, pod, create, del, fatal, watch, stale, consumer, promise, failures, steps>>

\* A consumer younger than MinAge is kept whatever the live set says.
SweepDelete ==
  /\ orphan /\ orphan' = FALSE
  /\ consumer' = IF consumer = "old" THEN "none" ELSE consumer
  /\ UNCHANGED <<row, pod, create, del, fatal, watch, stale, promise, failures, steps>>

-----------------------------------------------------------------------------
SessionNext ==
  \/ CreateRow \/ CreatePod \/ RefreshRow \/ RollbackCreate \/ SetColumn
  \/ Delete \/ DeletePod \/ DeleteMark \/ RetireScope \/ ClaimIdleForReap
  \/ ProviderFatal \/ ReapPod
  \/ PodMove \/ PodMishap \/ PodGone \/ Promise \/ Age \/ BackendDies
  \/ HandleUpsert \/ HandleDelete \/ NewLeader
  \/ ReconcileRead \/ ReconcileWrite
  \/ EnsureConsumer \/ ConsumerAges \/ SweepRead \/ SweepDelete

\* Timer loops and informers run for as long as a replica does.
SessionFairness ==
  /\ WF_sessionVars(Age) /\ WF_sessionVars(ReconcileRead) /\ WF_sessionVars(ReconcileWrite)
  /\ WF_sessionVars(HandleUpsert) /\ WF_sessionVars(ConsumerAges)
  /\ WF_sessionVars(SweepRead) /\ WF_sessionVars(SweepDelete)

SessionSpec == SessionInit /\ [][SessionNext]_sessionVars /\ SessionFairness

-----------------------------------------------------------------------------
(* Properties                                                              *)

\* A row that provider-fatal, the crash-loop backstop or a terminating pod made
\* terminal stays Failed, whatever a doomed container's probe, a new leader's
\* first sight or the end of the create still reports (writer.go:262).
StickyTerminal == row.term => row.status = "Failed"

\* While the watch has seen the pod as it is and lost no write, the row shows
\* Active exactly when the pod is ready, across crashes, recoveries, leader
\* changes and the writes of create and reconciler (k8s_watch.go:323).
WatchedStatus ==
  (pod # NoPod /\ last = pod /\ ~lossy /\ ~row.term) => (row.status = "Active" <=> pod.ready)

\* A hidden session comes back only through the refresh of its own create: no
\* watch transition, rename or loop makes a deleted row visible (manager.go:540).
ReappearsOnlyInCreate ==
  [][(row # NoRow /\ ~row.visible /\ row'.visible) => create = "pod"]_sessionVars

\* A row that claims a pod which is gone does not do so for ever: the watch or
\* the reconciler ends the claim (session_row_reconcile.go:42).
Ghost == row.visible /\ row.status \in {"Pending", "Active"} /\ pod = NoPod
GhostsEnd == (Ghost /\ create \in {"done", "failed"}) ~> ~Ghost

\* A runner that crash-loops past its budget is stopped, or recovers by itself,
\* unless the one delete the backstop makes failed (k8s_watch.go:412).
Looping == pod.loop = "over" /\ ~pod.term
LoopsEnd == Looping ~> (~Looping \/ unreaped)

\* The consumers of a session that is gone are swept, although the sweep spares
\* young consumers and sessions hidden in the last day (sweep.go:142).
Gone == row # NoRow /\ ~row.visible /\ pod = NoPod /\ create \in {"done", "failed"}
OrphansSwept == []<>(Gone => consumer = "none")

\* A running session that its owner still sees keeps its consumers, although the
\* sweep's live set is read before it deletes (sweep.go:176).
LiveConsumersKept ==
  [][(consumer # "none" /\ consumer' = "none") => ~(row.visible /\ pod.phase = "Running")]_sessionVars

\* The row against its pod: terminal rows stay Failed, watched rows show readiness.
RowSafe == SessionTypeOK /\ StickyTerminal /\ WatchedStatus

\* What no writer may do: bring a deleted session back, or take the consumers of a
\* session that is in use.
RowStepsSafe == ReappearsOnlyInCreate /\ LiveConsumersKept

\* What the background loops owe: rows without a pod, pods that crash-loop and
\* consumers without a session do not last.
LoopsFinish == GhostsEnd /\ LoopsEnd /\ OrphansSwept
=============================================================================
