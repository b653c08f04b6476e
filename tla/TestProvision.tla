---------------------------- MODULE TestProvision ----------------------------
(***************************************************************************)
(* Test slots of one session.  A start of the test workflow, or an         *)
(* orchestration that reaches review, registers a pending_test_provisions  *)
(* row and leaves a goroutine that waits for CI, checks a slot out of      *)
(* glimmung's pool, deploys to it, names it in the session's test state    *)
(* and closes the row.  A backstop on every replica drives again the rows  *)
(* whose goroutine is gone.  Returning the slot is a handler of its own.   *)
(*                                                                         *)
(* A goroutine lives at most 23 minutes and a row is stale after 25, so    *)
(* a row is not stale while the goroutine that last touched it is alive.   *)
(***************************************************************************)
EXTENDS Naturals, FiniteSets

CONSTANTS Interactive,   \* targets (repository and branch) of the interactive kind
          Review,        \* targets of the orchestration_review kind
          Slots,         \* glimmung's pool
          Runs,          \* provisioning goroutines
          Replicas,
          NoSlot, NoTarget,
          MaxStarts, MaxFaults

ASSUME ProvisionAssumption ==
  /\ MaxStarts \in Nat /\ MaxFaults \in Nat
  /\ Interactive \cap Review = {}
  /\ NoSlot \notin Slots /\ NoTarget \notin Interactive \cup Review

VARIABLES
  rows,     \* pending_test_provisions by target; gen counts registrations
  runs,     \* the goroutines
  scans,    \* the reconcile pass of each replica
  start,    \* a start handler between its guard and Register
  giveback, \* a return handler between its calls
  test,     \* the session's test_state: active, and the slot it names
  leases,   \* slots leased to the session
  starts, pfaults,
  stray,    \* a claim took a row registered again since it was listed
  lost      \* leased slots nothing names, each lost to a fault or a race

pvars == <<rows, runs, scans, start, giveback, test, leases, starts, pfaults, stray, lost>>

Targets == Interactive \cup Review
MaybeSlot == Slots \cup {NoSlot}
NoRun == [pc |-> "idle", target |-> NoTarget, owns |-> FALSE, raced |-> FALSE,
          slot |-> NoSlot, result |-> "none"]
NoScan == [pc |-> "idle", target |-> NoTarget, attempt |-> 0, gen |-> 0]
NoStart == [pc |-> "idle", target |-> NoTarget, ref |-> FALSE, raced |-> FALSE]
NoReturn == [pc |-> "idle", slot |-> NoSlot]

ProvisionTypeOK ==
  /\ rows \in [Targets -> [status : {"none", "pending", "done", "failed"},
                           attempt : Nat, gen : Nat]]
  /\ runs \in [Runs -> [pc : {"idle", "register", "gate", "checkout", "deploy", "release", "state", "mark"},
                        target : Targets \cup {NoTarget}, owns : BOOLEAN, raced : BOOLEAN,
                        slot : MaybeSlot, result : {"none", "done", "failed"}]]
  /\ scans \in [Replicas -> [pc : {"idle", "listed", "claimed"},
                             target : Targets \cup {NoTarget}, attempt : Nat, gen : Nat]]
  /\ start \in [pc : {"idle", "checked"}, target : Interactive \cup {NoTarget}, ref : BOOLEAN, raced : BOOLEAN]
  /\ giveback \in [pc : {"idle", "found", "returned"}, slot : MaybeSlot]
  /\ test \in [active : BOOLEAN, slot : MaybeSlot]
  /\ leases \subseteq Slots /\ lost \subseteq Slots
  /\ starts \in 0..MaxStarts /\ pfaults \in 0..MaxFaults /\ stray \in BOOLEAN

\* A session created for testing is active before it has a slot.
ProvisionInit ==
  /\ rows = [k \in Targets |-> [status |-> "none", attempt |-> 0, gen |-> 0]]
  /\ runs = [w \in Runs |-> NoRun] /\ scans = [r \in Replicas |-> NoScan]
  /\ start = NoStart /\ giveback = NoReturn
  /\ test \in [active : BOOLEAN, slot : {NoSlot}]
  /\ leases = {}
  /\ starts = 0 /\ pfaults = 0 /\ stray = FALSE /\ lost = {}

PFault == pfaults < MaxFaults /\ pfaults' = pfaults + 1
Running(w) == runs[w].pc # "idle"
Up == test.active /\ test.slot # NoSlot

-----------------------------------------------------------------------------
(* pending_test_provisions                                                 *)

\* Inserts, or arms again a row that is not pending; the attempts start over.
Registered(row) == [status |-> "pending", attempt |-> 0, gen |-> row.gen + 1]
Register(k) == rows' = [rows EXCEPT ![k] = IF @.status = "pending" THEN @ ELSE Registered(@)]

MarkTerminal(k, result) ==
  rows' = [rows EXCEPT ![k].status = IF @ = "pending" THEN result ELSE @]

\* Mutant: the backstop gives a row up after one re-drive.
StaleOnce(k) ==
  /\ rows[k].status = "pending" /\ rows[k].attempt = 0
  /\ ~ \E w \in Runs : Running(w) /\ runs[w].target = k /\ runs[w].owns
  /\ ~ \E r \in Replicas : scans[r].pc = "claimed" /\ scans[r].target = k

Stale(k) ==
  /\ rows[k].status = "pending"
  /\ ~ \E w \in Runs : Running(w) /\ runs[w].target = k /\ runs[w].owns
  /\ ~ \E r \in Replicas : scans[r].pc = "claimed" /\ scans[r].target = k

-----------------------------------------------------------------------------
(* Starting                                                                *)

\* An active flag without a slot does not refuse a start.
StartTestWorkflow(k, ref) ==
  /\ start.pc = "idle" /\ starts < MaxStarts /\ ~Up
  /\ start' = [pc |-> "checked", target |-> k, ref |-> ref, raced |-> FALSE]
  /\ starts' = starts + 1
  /\ UNCHANGED <<rows, runs, scans, giveback, test, leases, pfaults, stray, lost>>

Launch(w, k, ref, raced) ==
  runs' = [runs EXCEPT ![w] = [NoRun EXCEPT !.pc = IF ref THEN "checkout" ELSE "gate",
                               !.target = k, !.owns = TRUE, !.raced = raced]]

RegisterStart(w) ==
  /\ start.pc = "checked" /\ ~Running(w)
  /\ Register(start.target)
  /\ IF rows[start.target].status = "pending"
     THEN runs' = runs
     ELSE Launch(w, start.target, start.ref, start.raced)
  /\ start' = NoStart
  /\ UNCHANGED <<scans, giveback, test, leases, starts, pfaults, stray, lost>>

\* emitOrchestrationReviewReadyRecord: nothing is checked before, and whether
\* Register found a row in flight is not looked at.
ReviewReady(w, k) ==
  /\ ~Running(w) /\ starts < MaxStarts /\ starts' = starts + 1
  /\ runs' = [runs EXCEPT ![w] = [NoRun EXCEPT !.pc = "register", !.target = k, !.raced = TRUE]]
  /\ UNCHANGED <<rows, scans, start, giveback, test, leases, pfaults, stray, lost>>

RegisterReview(w) ==
  /\ runs[w].pc = "register"
  /\ \/ Register(runs[w].target) /\ pfaults' = pfaults
     \/ PFault /\ rows' = rows
  /\ runs' = [runs EXCEPT ![w] = [@ EXCEPT !.pc = "gate", !.owns = runs[w].owns \/ rows' # rows]]
  /\ UNCHANGED <<scans, start, giveback, test, leases, starts, stray, lost>>

-----------------------------------------------------------------------------
(* provisionTestSlotForSession                                             *)

\* The gate waits, at most until its deadline, for the reducer's verdict on
\* the current head and for the head's image; any verdict may come, waiting
\* is no step.  What a refusal leaves on the row depends on the kind.
Gate(w) ==
  /\ runs[w].pc = "gate"
  /\ \/ runs' = [runs EXCEPT ![w].pc = "checkout"]
     \/ \E result \in {"failed"} \cup (IF runs[w].target \in Interactive THEN {"done"} ELSE {}) :
          runs' = [runs EXCEPT ![w] = [@ EXCEPT !.pc = "mark", !.result = result]]
  /\ UNCHANGED <<rows, scans, start, giveback, test, leases, starts, pfaults, stray, lost>>

\* A slot; no slot or an error; or an answer that never arrives.
Checkout(w) ==
  /\ runs[w].pc = "checkout"
  /\ \/ \E s \in Slots \ leases :
          /\ leases' = leases \cup {s}
          /\ \/ /\ runs' = [runs EXCEPT ![w] = [@ EXCEPT !.pc = "deploy", !.slot = s]]
                /\ UNCHANGED <<pfaults, lost>>
             \/ /\ runs' = [runs EXCEPT ![w] = [@ EXCEPT !.pc = "mark", !.result = "failed"]]
                /\ PFault /\ lost' = lost \cup {s}
     \/ /\ leases = Slots
        /\ runs' = [runs EXCEPT ![w] = [@ EXCEPT !.pc = "mark", !.result = "failed"]]
        /\ UNCHANGED <<leases, pfaults, lost>>
  /\ UNCHANGED <<rows, scans, start, giveback, test, starts, stray>>

Deploy(w) ==
  /\ runs[w].pc = "deploy"
  /\ \/ runs' = [runs EXCEPT ![w].pc = "state"] /\ pfaults' = pfaults
     \/ runs' = [runs EXCEPT ![w].pc = "release"] /\ PFault
  /\ UNCHANGED <<rows, scans, start, giveback, test, leases, starts, stray, lost>>

ReleaseCheckedOutSlot(w) ==
  /\ runs[w].pc = "release"
  /\ runs' = [runs EXCEPT ![w] = [@ EXCEPT !.pc = "mark", !.result = "failed", !.slot = NoSlot]]
  /\ \/ leases' = leases \ {runs[w].slot} /\ UNCHANGED <<pfaults, lost>>
     \/ PFault /\ lost' = lost \cup {runs[w].slot} /\ leases' = leases
  /\ UNCHANGED <<rows, scans, start, giveback, test, starts, stray>>

\* Everyone who looked before the environment came up has been raced.
Race(rs) == [w \in Runs |-> IF rs[w].pc = "idle" THEN rs[w] ELSE [rs[w] EXCEPT !.raced = TRUE]]

\* Naming the slot replaces the one named before.  A failure is only logged, and a
\* checkout that came without a URL is not named at all: neither costs a fault.
SetTestState(w) ==
  /\ runs[w].pc = "state"
  /\ LET ended == [runs EXCEPT ![w] = [@ EXCEPT !.pc = "mark", !.result = "done", !.slot = NoSlot]]
     IN \/ /\ test' = [active |-> TRUE, slot |-> runs[w].slot]
           /\ runs' = Race(ended)
           /\ start' = IF start.pc = "idle" THEN start ELSE [start EXCEPT !.raced = TRUE]
           /\ lost' = (lost \ {runs[w].slot}) \cup
                      (IF runs[w].raced THEN {test.slot} \ {NoSlot, runs[w].slot} ELSE {})
           /\ pfaults' = pfaults
        \/ /\ runs' = ended
           /\ lost' = lost \cup {runs[w].slot} /\ UNCHANGED <<test, start, pfaults>>
  /\ UNCHANGED <<rows, scans, giveback, leases, starts, stray>>

\* A done interactive run may then wake the agent, which is a turn of
\* TurnLifecycle.
MarkProvision(w) ==
  /\ runs[w].pc = "mark"
  /\ \/ MarkTerminal(runs[w].target, runs[w].result) /\ pfaults' = pfaults
     \/ PFault /\ rows' = rows
  /\ runs' = [runs EXCEPT ![w] = NoRun]
  /\ UNCHANGED <<scans, start, giveback, test, leases, starts, stray, lost>>

\* The process ends.
CrashRun(w) ==
  /\ Running(w) /\ PFault
  /\ runs' = [runs EXCEPT ![w] = NoRun]
  /\ lost' = lost \cup ({runs[w].slot} \ {NoSlot, test.slot})
  /\ UNCHANGED <<rows, scans, start, giveback, test, leases, starts, stray>>

-----------------------------------------------------------------------------
(* reconcilePendingTestProvisions                                          *)

ListStale(r, k) ==
  /\ scans[r].pc = "idle" /\ Stale(k)
  /\ scans' = [scans EXCEPT ![r] = [pc |-> "listed", target |-> k,
                                    attempt |-> rows[k].attempt, gen |-> rows[k].gen]]
  /\ UNCHANGED <<rows, runs, start, giveback, test, leases, starts, pfaults, stray, lost>>

\* Mutant: the claim does not compare attempts.
ClaimWithoutAttempt(r) ==
  LET k == scans[r].target
  IN /\ scans[r].pc = "listed"
     /\ IF rows[k].status = "pending"
        THEN /\ rows' = [rows EXCEPT ![k].attempt = @ + 1]
             /\ scans' = [scans EXCEPT ![r] = [NoScan EXCEPT !.pc = "claimed", !.target = k]]
             /\ stray' = (stray \/ rows[k].gen # scans[r].gen)
        ELSE scans' = [scans EXCEPT ![r] = NoScan] /\ UNCHANGED <<rows, stray>>
     /\ UNCHANGED <<runs, start, giveback, test, leases, starts, pfaults, lost>>

ClaimForRedrive(r) ==
  LET k == scans[r].target
  IN /\ scans[r].pc = "listed"
     /\ IF rows[k].status = "pending" /\ rows[k].attempt = scans[r].attempt
        THEN /\ rows' = [rows EXCEPT ![k].attempt = @ + 1]
             /\ scans' = [scans EXCEPT ![r] = [NoScan EXCEPT !.pc = "claimed", !.target = k]]
             /\ stray' = (stray \/ rows[k].gen # scans[r].gen)
        ELSE scans' = [scans EXCEPT ![r] = NoScan] /\ UNCHANGED <<rows, stray>>
     /\ UNCHANGED <<runs, start, giveback, test, leases, starts, pfaults, lost>>

\* An environment that is up means that only the terminal mark was lost.
AlreadyProvisioned(r) ==
  /\ scans[r].pc = "claimed" /\ test.active
  /\ \/ MarkTerminal(scans[r].target, "done") /\ pfaults' = pfaults
     \/ PFault /\ rows' = rows
  /\ scans' = [scans EXCEPT ![r] = NoScan]
  /\ UNCHANGED <<runs, start, giveback, test, leases, starts, stray, lost>>

\* No environment is up, or the session could not be read.
CanRedrive(raced) ==
  \/ ~test.active /\ pfaults' = pfaults /\ ~raced
  \/ PFault /\ raced

\* The goroutine is the one of a start, without its ref and its drive.
Redrive(r, w) ==
  LET k == scans[r].target
  IN /\ scans[r].pc = "claimed" /\ ~Running(w)
     /\ \E raced \in BOOLEAN :
          /\ CanRedrive(raced)
          /\ runs' = [runs EXCEPT ![w] = [NoRun EXCEPT !.pc = IF k \in Review THEN "register" ELSE "gate",
                                          !.target = k, !.owns = TRUE, !.raced = raced \/ k \in Review]]
     /\ scans' = [scans EXCEPT ![r] = NoScan]
     /\ UNCHANGED <<rows, start, giveback, test, leases, starts, stray, lost>>

\* The orchestration, or a phase of it with a spoke, cannot be loaded.
FailRedrive(r) ==
  /\ scans[r].pc = "claimed" /\ scans[r].target \in Review /\ ~test.active /\ PFault
  /\ MarkTerminal(scans[r].target, "failed")
  /\ scans' = [scans EXCEPT ![r] = NoScan]
  /\ UNCHANGED <<runs, start, giveback, test, leases, starts, stray, lost>>

CrashScan(r) ==
  /\ scans[r].pc # "idle" /\ PFault
  /\ scans' = [scans EXCEPT ![r] = NoScan]
  /\ UNCHANGED <<rows, runs, start, giveback, test, leases, starts, stray, lost>>

-----------------------------------------------------------------------------
(* Returning the slot, and the posted test state                           *)

MatchingLease(s) == s \in leases

\* The lease is looked for under the slot the test state names.
ReturnTestSlot ==
  /\ giveback.pc = "idle" /\ Up /\ MatchingLease(test.slot)
  /\ giveback' = [pc |-> "found", slot |-> test.slot]
  /\ UNCHANGED <<rows, runs, scans, start, test, leases, starts, pfaults, stray, lost>>

ReturnLease ==
  /\ giveback.pc = "found"
  /\ \/ leases' = leases \ {giveback.slot} /\ lost' = lost \ {giveback.slot}
        /\ giveback' = [giveback EXCEPT !.pc = "returned"] /\ pfaults' = pfaults
     \/ PFault /\ giveback' = NoReturn /\ UNCHANGED <<leases, lost>>
  /\ UNCHANGED <<rows, runs, scans, start, test, starts, stray>>

\* Clearing forgets whatever slot the state names by now, one leased again
\* since included.
ClearTestState ==
  /\ giveback.pc = "returned" /\ giveback' = NoReturn
  /\ \/ /\ test' = [active |-> FALSE, slot |-> NoSlot]
        /\ lost' = lost \cup (leases \cap {test.slot})
        /\ pfaults' = pfaults
     \/ PFault /\ UNCHANGED <<test, lost>>
  /\ UNCHANGED <<rows, runs, scans, start, leases, starts, stray>>

\* handleSetTestState: the agent posts a state of its own, without a slot.
PostTestState(active) ==
  /\ PFault /\ test' = [active |-> active, slot |-> NoSlot] /\ test' # test
  /\ lost' = lost \cup (leases \cap {test.slot})
  /\ UNCHANGED <<rows, runs, scans, start, giveback, leases, starts, stray>>

-----------------------------------------------------------------------------

RunStep(w) ==
  \/ RegisterReview(w) \/ Gate(w) \/ Checkout(w) \/ Deploy(w)
  \/ ReleaseCheckedOutSlot(w) \/ SetTestState(w) \/ MarkProvision(w)

ScanStep(r) ==
  \/ \E k \in Targets : ListStale(r, k)
  \/ ClaimForRedrive(r) \/ AlreadyProvisioned(r)
  \/ \E w \in Runs : Redrive(r, w)

ProvisionNext ==
  \/ \E k \in Interactive, ref \in BOOLEAN : StartTestWorkflow(k, ref)
  \/ \E w \in Runs : RegisterStart(w) \/ RunStep(w) \/ CrashRun(w)
  \/ \E w \in Runs, k \in Review : ReviewReady(w, k)
  \/ \E r \in Replicas : ScanStep(r) \/ FailRedrive(r) \/ CrashScan(r)
  \/ ReturnTestSlot \/ ReturnLease \/ ClearTestState
  \/ \E a \in BOOLEAN : PostTestState(a)

\* The gate gives up at its deadline and every call has a timeout, so a live
\* goroutine moves on; the backstop ticks on every replica.
ProvisionFairness ==
  /\ \A w \in Runs : WF_pvars(RunStep(w))
  /\ \A r \in Replicas : WF_pvars(ScanStep(r))

ProvisionSpec == ProvisionInit /\ [][ProvisionNext]_pvars /\ ProvisionFairness

-----------------------------------------------------------------------------
(* Properties                                                              *)

\* A target never has two interactive goroutines at work: neither a double
\* click nor two replicas' backstops start a second one.  A claim that finds
\* the row registered again since it was listed is the exception, because
\* the attempts it compares have started over.
OneRunPerTarget ==
  stray \/ \A k \in Interactive : Cardinality({w \in Runs : runs[w].target = k}) <= 1

\* Of the finite pool no slot disappears silently: a leased slot is in the
\* hands of a goroutine or named by the test state, or it was lost to a
\* failed call, a crash, a posted state, or an environment that came up
\* after the goroutine (or the start) had looked for one.
SlotAccounted ==
  \A s \in leases \ lost : test.slot = s \/ \E w \in Runs : runs[w].slot = s

\* A provision never stays pending: whatever goroutine or replica dies, some
\* pass closes the row.
PendingEnds ==
  \A k \in Targets : rows[k].status = "pending" ~> rows[k].status # "pending"

\* Test environments through double starts, redrives and crashes: one goroutine a
\* target, no slot lost silently.
ProvisionSafe == ProvisionTypeOK /\ OneRunPerTarget /\ SlotAccounted
=============================================================================
