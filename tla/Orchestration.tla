---------------------------- MODULE Orchestration ----------------------------
(***************************************************************************)
(* One orchestration run: a frozen DAG of phases, each worked by a spoke   *)
(* session that opens a pull request.  When the request merges the phase   *)
(* is marked and the phases it unblocks get their spokes.                  *)
(*                                                                         *)
(* The engine has no state of its own.  A merged-PR webhook, an auto-merge *)
(* and the reconcile loops of two replicas all run the same pass over a    *)
(* snapshot of the phase rows; every store call is one statement, and the  *)
(* pass can be interleaved with others, or die, between any two of them.   *)
(***************************************************************************)
EXTENDS Naturals, Sequences, FiniteSets

CONSTANTS Phases, Order,  \* the phases, in plan order
          Deps,           \* depends_on of each phase
          Integration,    \* the run has an integration branch
          Forwarded,      \* phases that target main: merged forward into it
          Workers,        \* concurrent callers of the engine
          MaxSpokes,      \* bound on spoke sessions
          MaxRegs,        \* bound on registrations of a spoke's pull request
          MaxFaults       \* deaths, failed calls, lost and repeated webhooks

ASSUME PlanAssumption ==
  /\ Order \in Seq(Phases) /\ {Order[i] : i \in DOMAIN Order} = Phases
  /\ Deps \in [Phases -> SUBSET Phases] /\ Forwarded \subseteq Phases
  \* firstCyclicPhase rejects every other plan
  /\ \E rank \in [Phases -> 0..Len(Order)] : \A p \in Phases : \A d \in Deps[p] : rank[d] < rank[p]
  /\ Integration \in BOOLEAN
  /\ MaxSpokes \in Nat /\ MaxRegs \in Nat /\ MaxFaults \in Nat

VARIABLES
  run,      \* orchestrations.state
  phase,    \* orchestration_phases: status, spoke_session_id, pr_number
  spawned,  \* the phase each spoke session was created for, in order
  pr,       \* pull request of each spoke: none, open, merged
  regs,     \* registrations each spoke has made
  req,      \* request of each spoke between its read and its write
  hooks,    \* merged-PR webhooks not delivered yet
  worker,   \* the passes under way
  faults

vars == <<run, phase, spawned, pr, regs, req, hooks, worker, faults>>
rows == <<run, phase>>
spokeState == <<spawned, pr, regs, req>>

Spokes == 1..MaxSpokes
Status == {"pending", "ready", "running", "pr_open", "merged", "blocked", "skipped"}
Row == [status : Status, spoke : 0..MaxSpokes, pr : 0..MaxSpokes]
RunState == {"draft", "approved", "running", "awaiting_review", "done", "failed"}
Idle == [pc |-> "idle", i |-> 0, cur |-> [status |-> "pending", spoke |-> 0, pr |-> 0],
         snap |-> [p \in Phases |-> [status |-> "pending", spoke |-> 0, pr |-> 0]], new |-> 0, to |-> "none"]

TypeOK ==
  /\ run \in RunState /\ phase \in [Phases -> Row]
  /\ spawned \in Seq(Phases) /\ Len(spawned) <= MaxSpokes
  /\ pr \in [Spokes -> {"none", "open", "merged"}]
  /\ regs \in [Spokes -> 0..MaxRegs]
  /\ req \in [Spokes -> [kind : {"none", "link", "block"}, phase : Phases \cup {"none"}]]
  /\ hooks \subseteq Spokes /\ faults \in 0..MaxFaults
  /\ \A w \in Workers :
       /\ worker[w].pc \in {"idle", "forward", "load", "drive", "dispatch", "spawn", "attach", "settle", "write"}
       /\ worker[w].i \in 0..Len(Order) /\ worker[w].cur \in Row
       /\ worker[w].snap \in [Phases -> Row]
       /\ worker[w].new \in 0..MaxSpokes /\ worker[w].to \in RunState \cup {"none"}

Active == run \in {"approved", "running"}
Success(st) == st \in {"merged", "skipped"}
Fault == faults < MaxFaults /\ faults' = faults + 1
NoReq == [kind |-> "none", phase |-> "none"]

Init ==
  /\ run = "draft"
  /\ phase = [p \in Phases |-> [status |-> "pending", spoke |-> 0, pr |-> 0]]
  /\ spawned = <<>> /\ pr = [n \in Spokes |-> "none"] /\ regs = [n \in Spokes |-> 0]
  /\ req = [n \in Spokes |-> NoReq] /\ hooks = {}
  /\ worker = [w \in Workers |-> Idle] /\ faults = 0

-----------------------------------------------------------------------------
(* The pass: reconcileRun                                                  *)

\* Mutant: one satisfied dependency is enough.
AnyDepSatisfied(p, snap) == Deps[p] = {} \/ \E d \in Deps[p] : snap[d].status # "pending"

\* phaseDepsSatisfied, on the snapshot of the pass.
PhaseDepsSatisfied(p, snap) == \A d \in Deps[p] : Success(snap[d].status)

\* The pass has something to do for a row that looks like this.
Todo(p, snap) ==
  \/ snap[p].status = "pending" /\ PhaseDepsSatisfied(p, snap)
  \/ snap[p].status = "running" /\ snap[p].spoke = 0
  \/ snap[p].status = "ready"

\* The worker at the first such phase after the i-th, or at the settling.
Onward(w, i, snap) ==
  LET later == {j \in DOMAIN Order : j > i /\ Todo(Order[j], snap)} IN
  IF later = {} THEN [Idle EXCEPT !.pc = "settle"]
  ELSE LET j == CHOOSE j \in later : \A k \in later : j <= k IN
       [Idle EXCEPT !.pc = "drive", !.i = j, !.cur = snap[Order[j]], !.snap = snap]
Go(w, st) == worker' = [worker EXCEPT ![w] = st]
Past(w) == Onward(w, worker[w].i, worker[w].snap)
At(w) == Order[worker[w].i]

Load(w) ==
  /\ worker[w].pc \in {"idle", "load"}
  /\ worker[w].pc = "idle" => Active
  /\ Go(w, IF Active THEN Onward(w, 0, phase) ELSE Idle)
  /\ UNCHANGED <<rows, spokeState, hooks, faults>>

\* pending -> ready, guarded; the pass goes on with the row as it is now.
MarkPhaseReady(w) ==
  LET p == At(w)
      row == [phase[p] EXCEPT !.status = IF @ = "pending" THEN "ready" ELSE @] IN
  /\ worker[w].pc = "drive" /\ worker[w].cur.status = "pending"
  /\ phase' = [phase EXCEPT ![p] = row]
  /\ IF row.status = "ready" \/ (row.status = "running" /\ row.spoke = 0)
     THEN Go(w, [worker[w] EXCEPT !.pc = "dispatch", !.cur = row]) ELSE Go(w, Past(w))
  /\ UNCHANGED <<run, spokeState, hooks, faults>>

Claimed(row) == row.status = "running" /\ row.spoke = 0

\* Mutant: the claim without a spoke is left to its owner.
RequeueNothing(w) ==
  /\ worker[w].pc \in {"drive", "dispatch"} /\ Claimed(worker[w].cur)
  /\ Go(w, Past(w))
  /\ UNCHANGED <<rows, spokeState, hooks, faults>>

\* running without a spoke -> ready, guarded.
RequeuePhaseForRespawn(w) ==
  LET p == At(w) IN
  /\ worker[w].pc \in {"drive", "dispatch"} /\ Claimed(worker[w].cur)
  /\ IF Claimed(phase[p])
     THEN /\ phase' = [phase EXCEPT ![p].status = "ready"]
          /\ Go(w, [worker[w] EXCEPT !.pc = "dispatch", !.cur = phase'[p]])
     ELSE Go(w, Past(w)) /\ UNCHANGED phase
  /\ UNCHANGED <<run, spokeState, hooks, faults>>

\* ready -> running, guarded: the claim.
ClaimPhaseForSpawn(w) ==
  LET p == At(w) IN
  /\ worker[w].pc \in {"drive", "dispatch"} /\ worker[w].cur.status = "ready"
  /\ IF phase[p].status = "ready"
     THEN /\ phase' = [phase EXCEPT ![p].status = "running"]
          /\ Go(w, [worker[w] EXCEPT !.pc = "spawn"])
     ELSE Go(w, Past(w)) /\ UNCHANGED phase
  /\ UNCHANGED <<run, spokeState, hooks, faults>>

\* spawnPhaseSpoke: the session is created and its brief submitted.
SpawnPhaseSpoke(w) ==
  /\ worker[w].pc = "spawn" /\ Len(spawned) < MaxSpokes
  /\ spawned' = Append(spawned, At(w))
  /\ Go(w, [worker[w] EXCEPT !.pc = "attach", !.new = Len(spawned) + 1])
  /\ UNCHANGED <<rows, pr, regs, req, hooks, faults>>

\* The session or its turn fails: the claim is rolled back, guarded.
SpawnFails(w) ==
  LET p == At(w) IN
  /\ worker[w].pc = "spawn" /\ Fault
  /\ phase' = IF Claimed(phase[p]) THEN [phase EXCEPT ![p].status = "ready"] ELSE phase
  /\ Go(w, Past(w))
  /\ UNCHANGED <<run, spokeState, hooks>>

\* Sets the spoke and the status, whatever the row says now.
AttachPhaseSpoke(w) ==
  /\ worker[w].pc = "attach"
  /\ phase' = [phase EXCEPT ![At(w)] = [@ EXCEPT !.spoke = worker[w].new, !.status = "running"]]
  /\ Go(w, Past(w))
  /\ UNCHANGED <<run, spokeState, hooks, faults>>

AttachFails(w) ==
  /\ worker[w].pc = "attach" /\ Fault
  /\ Go(w, Past(w))
  /\ UNCHANGED <<rows, spokeState, hooks>>

\* settleRunState: what the rows read now call for.
Settled ==
  IF \A p \in Phases : Success(phase[p].status)
  THEN IF Integration THEN "awaiting_review" ELSE "done"
  ELSE IF run = "approved" /\ \E p \in Phases : phase[p].status \in {"pending", "ready", "running", "pr_open"}
       THEN "running" ELSE "none"

SettleRead(w) ==
  /\ worker[w].pc = "settle"
  /\ Go(w, IF Active /\ Settled # "none" THEN [Idle EXCEPT !.pc = "write", !.to = Settled] ELSE Idle)
  /\ UNCHANGED <<rows, spokeState, hooks, faults>>

\* UpdateState has no guard.
UpdateState(w) ==
  /\ worker[w].pc = "write"
  /\ run' = worker[w].to /\ Go(w, Idle)
  /\ UNCHANGED <<phase, spokeState, hooks, faults>>

-----------------------------------------------------------------------------
(* advanceOnMerge                                                          *)

\* GetPhaseByPR, then the mark.  A request that is no phase's is dropped.
AdvanceOnMerge(w, n) ==
  LET owner == {p \in Phases : phase[p].pr = n} IN
  /\ worker[w].pc = "idle" /\ n \in hooks
  /\ hooks' = hooks \ {n}
  /\ IF owner = {} THEN UNCHANGED <<phase, worker>>
     ELSE LET p == CHOOSE p \in owner : TRUE IN
          /\ phase' = [phase EXCEPT ![p].status = "merged"]
          /\ Go(w, [Idle EXCEPT !.pc = IF phase[p].status # "merged" /\ p \in Forwarded /\ Integration
                                        THEN "forward" ELSE "load"])
  /\ UNCHANGED <<run, spokeState, faults>>

\* handleOrchestrationPhaseMerged: main is merged into the integration branch.
MergeForward(w) ==
  /\ worker[w].pc = "forward"
  /\ \/ Go(w, [Idle EXCEPT !.pc = "load"]) /\ UNCHANGED <<run, faults>>
     \/ Fault /\ run' = "failed" /\ Go(w, Idle)
  /\ UNCHANGED <<phase, spokeState, hooks>>

WorkerDies(w) ==
  /\ worker[w].pc # "idle" /\ Fault
  /\ Go(w, Idle)
  /\ UNCHANGED <<rows, spokeState, hooks>>

-----------------------------------------------------------------------------
(* The plan and the review                                                 *)

\* handleCreateOrchestration: the branch exists, the frozen plan is approved.
Approve ==
  /\ run = "draft" /\ run' = "approved"
  /\ UNCHANGED <<phase, spokeState, hooks, worker, faults>>

\* handleApproveOrchestrationReview: the final merge, then done.
ApproveReview ==
  /\ run = "awaiting_review" /\ run' = "done"
  /\ UNCHANGED <<phase, spokeState, hooks, worker, faults>>

-----------------------------------------------------------------------------
(* The spokes                                                              *)

OpenPR(n) ==
  /\ n <= Len(spawned) /\ pr[n] = "none"
  /\ pr' = [pr EXCEPT ![n] = "open"]
  /\ UNCHANGED <<rows, spawned, regs, req, hooks, worker, faults>>

\* A human or the auto-merge merges it; GitHub sends a webhook.
MergePR(n) ==
  /\ pr[n] = "open" /\ pr' = [pr EXCEPT ![n] = "merged"]
  /\ hooks' = hooks \cup {n}
  /\ UNCHANGED <<rows, spawned, regs, req, worker, faults>>

OfSpoke(n) == {p \in Phases : phase[p].spoke = n}

\* linkPhasePR reads the row first: finished phases are left alone.
LinkRead(n) ==
  /\ pr[n] # "none" /\ req[n] = NoReq /\ regs[n] < MaxRegs
  /\ regs' = [regs EXCEPT ![n] = @ + 1]
  /\ req' = [req EXCEPT ![n] =
       IF \E p \in OfSpoke(n) : phase[p].status \in {"running", "ready", "pr_open"}
       THEN [kind |-> "link", phase |-> CHOOSE p \in OfSpoke(n) : TRUE] ELSE NoReq]
  /\ UNCHANGED <<rows, spawned, pr, hooks, worker, faults>>

MarkPhasePROpen(n) ==
  /\ req[n].kind = "link" /\ req' = [req EXCEPT ![n] = NoReq]
  /\ phase' = [phase EXCEPT ![req[n].phase] = [@ EXCEPT !.status = "pr_open", !.pr = n]]
  /\ UNCHANGED <<run, spawned, pr, regs, hooks, worker, faults>>

\* blockSpokePhase: the same read-then-write with the status blocked.
BlockRead(n) ==
  /\ n <= Len(spawned) /\ req[n] = NoReq
  /\ \E p \in OfSpoke(n) :
       /\ phase[p].status \notin {"merged", "skipped", "blocked"}
       /\ req' = [req EXCEPT ![n] = [kind |-> "block", phase |-> p]]
  /\ UNCHANGED <<rows, spawned, pr, regs, hooks, worker, faults>>

BlockWrite(n) ==
  /\ req[n].kind = "block" /\ req' = [req EXCEPT ![n] = NoReq]
  /\ phase' = [phase EXCEPT ![req[n].phase].status = "blocked"]
  /\ UNCHANGED <<run, spawned, pr, regs, hooks, worker, faults>>

LoseHook(n) ==
  /\ n \in hooks /\ hooks' = hooks \ {n} /\ Fault
  /\ UNCHANGED <<rows, spokeState, worker>>

RepeatHook(n) ==
  /\ pr[n] = "merged" /\ n \notin hooks /\ hooks' = hooks \cup {n} /\ Fault
  /\ UNCHANGED <<rows, spokeState, worker>>

-----------------------------------------------------------------------------
Pass(w) ==
  \/ Load(w) \/ MarkPhaseReady(w) \/ RequeuePhaseForRespawn(w) \/ ClaimPhaseForSpawn(w)
  \/ SpawnPhaseSpoke(w) \/ AttachPhaseSpoke(w) \/ SettleRead(w) \/ UpdateState(w)
  \/ MergeForward(w)

Next ==
  \/ Approve \/ ApproveReview
  \/ \E w \in Workers : Pass(w) \/ SpawnFails(w) \/ AttachFails(w) \/ WorkerDies(w)
                        \/ \E n \in Spokes : AdvanceOnMerge(w, n)
  \/ \E n \in Spokes : OpenPR(n) \/ MergePR(n) \/ LinkRead(n) \/ MarkPhasePROpen(n)
                       \/ BlockRead(n) \/ BlockWrite(n) \/ LoseHook(n) \/ RepeatHook(n)

\* The reconcile loops never stop; a pass under way goes on unless it dies.
Spec ==
  /\ Init /\ [][Next]_vars
  /\ \A w \in Workers : WF_vars(Pass(w))

-----------------------------------------------------------------------------
(* Properties                                                              *)

MergedPhase(p) == \E n \in DOMAIN spawned : spawned[n] = p /\ pr[n] = "merged"

\* No spoke starts on a phase before a pull request of every phase it depends
\* on has really merged, through stale snapshots, repeated webhooks and rows
\* that go back and forth (orchestration.go:380).
SpawnedAfterDeps ==
  \A n \in DOMAIN spawned : \A d \in Deps[spawned[n]] : MergedPhase(d)

\* A run is put before the reviewer, or is done, only when every phase has a
\* merged pull request (orchestration.go:322).
FinishedMeansMerged ==
  run \in {"awaiting_review", "done"} => \A p \in Phases : MergedPhase(p)

\* A phase that may start gets a spoke while its run is active: crashes, failed
\* spawns and lost claims do not strand it (orchestration.go:225).
Dispatchable(p) ==
  /\ Active /\ Len(spawned) < MaxSpokes
  /\ phase[p].status \in {"pending", "ready"} \/ Claimed(phase[p])
  /\ PhaseDepsSatisfied(p, phase)
ReadyDispatched == \A p \in Phases : []<>~Dispatchable(p)

\* A run never gets ahead of its merges, however passes, webhooks and spokes overlap.
RunSafe == TypeOK /\ SpawnedAfterDeps /\ FinishedMeansMerged
=============================================================================
